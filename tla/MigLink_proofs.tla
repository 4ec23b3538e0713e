--------------------------- MODULE MigLink_proofs ----------------------------
(***************************************************************************)
(* Theorems about the link for every choice of the constants: type         *)
(* correctness, and the safety of activation.                              *)
(***************************************************************************)
EXTENDS MigLink, MigProposer_proofs, MigResponder_proofs, SequenceTheorems

\* Counting a fault keeps the budget a function to the naturals.
LEMMA SpendType ==
    ASSUME used \in [Faults -> Nat], NEW f \in Faults, Spend(f)
    PROVE  used' \in [Faults -> Nat]
BY DEF Spend

\* What the histories record of the ground is an exchange.
LEMMA ExchangeType ==
    ASSUME NEW g \in GroundType
    PROVE  GroundExchange(g) \in Exchange
BY DEF GroundExchange, Exchange, GroundType

\* The histories stay sets of exchanges.
LEMMA RecordType ==
    ASSUME adopted \in SUBSET Exchange, proved \in SUBSET Exchange,
           ground' \in GroundType, Record
    PROVE  adopted' \in SUBSET Exchange /\ proved' \in SUBSET Exchange
BY ExchangeType DEF Record

\* Video and markers are frames to the ground.
LEMMA StreamType ==
    ASSUME drone \in DroneType
    PROVE  MarkerFrame \in Markers /\ Streams \in SUBSET ToGround
<1>1. MarkerFrame \in Markers BY DEF MarkerFrame, Markers, DroneType
<1>2. [type |-> "VIDEO"] \in Videos BY DEF Videos
<1> HIDE DEF MarkerFrame
<1> QED BY <1>1, <1>2 DEF Streams, ToGround

\* The part of TypeOK that neither machine's lemmas cover.
LinkTypeOK ==
    /\ used \in [Faults -> Nat]
    /\ adopted \in SUBSET Exchange /\ proved \in SUBSET Exchange

\* TypeOK is the typing of the two sides and of the link itself.
LEMMA TypeOKSplit == TypeOK <=> GroundSideOK /\ DroneSideOK /\ LinkTypeOK
BY DEF TypeOK, GroundSideOK, DroneSideOK, LinkTypeOK

\* The names the steps pass to Spend are the kinds of faults.
LEMMA FaultNames ==
    {"lost", "dup", "stale", "retune", "drain", "ground", "drone"} = Faults
BY DEF Faults

\* The initial state is well typed.
LEMMA InitType == Init => TypeOK
<1> SUFFICES ASSUME Init PROVE TypeOK OBVIOUS
<1>1. 1 \in Epochs BY DEF Epochs
<1>2. ground \in GroundType BY <1>1, NewGroundType DEF Init, GroundInit
<1>3. drone \in DroneType BY <1>1, NewDroneType DEF Init, DroneInit
<1>4. gtodo \in Seq(AnyChannel) /\ dtodo \in Seq(HostOps)
  BY DEF Init, GroundInit, DroneInit
<1>5. used \in [Faults -> Nat] BY DEF Init
<1> QED BY <1>2, <1>3, <1>4, <1>5, ChannelType DEF Init, TypeOK

\* A step of the ground that keeps its side typed keeps the whole typed.
LEMMA GroundStepType ==
    ASSUME TypeOK, GroundSideOK', gq' \in SUBSET ToGround, UNCHANGED droneVars,
           used' \in [Faults -> Nat], Record \/ UNCHANGED history
    PROVE  TypeOK'
<1>1. LinkTypeOK'
  <2>1. CASE Record BY <2>1, RecordType DEF TypeOK, LinkTypeOK, GroundSideOK
  <2>2. CASE UNCHANGED history BY <2>2 DEF TypeOK, LinkTypeOK, history
  <2> QED BY <2>1, <2>2
<1> QED BY <1>1 DEF TypeOK, GroundSideOK, LinkTypeOK, droneVars

\* A step of the drone that keeps its side typed keeps the whole typed.
LEMMA DroneStepType ==
    ASSUME TypeOK, DroneSideOK', dq' \in SUBSET ToDrone,
           UNCHANGED <<groundVars, history>>, used' \in [Faults -> Nat]
    PROVE  TypeOK'
BY DEF TypeOK, DroneSideOK, groundVars, history

\* Every step of the link keeps the types.
LEMMA NextType == TypeOK /\ [Next]_vars => TypeOK'
<1> SUFFICES ASSUME TypeOK, [Next]_vars PROVE TypeOK' OBVIOUS
<1>0. /\ GroundSideOK /\ DroneSideOK /\ used \in [Faults -> Nat]
      /\ gq \in SUBSET ToGround /\ dq \in SUBSET ToDrone /\ drone \in DroneType
  BY TypeOKSplit DEF TypeOK
<1>1. CASE GroundStart
  <2>1. GroundSideOK' BY <1>0, <1>1, StartType DEF GroundStart
  <2> QED BY <1>0, <1>1, <2>1, GroundStepType DEF GroundStart
<1>2. CASE GroundReceive
  <2>1. PICK m \in gq : /\ Ground_on_message(m)
                        /\ \/ gq' = gq \ {m} /\ UNCHANGED used
                           \/ gq' = gq /\ Spend("dup")
    BY <1>2 DEF GroundReceive
  <2>2. GroundSideOK' BY <1>0, <2>1, GroundMessageType
  <2>3. used' \in [Faults -> Nat] BY <1>0, <2>1, SpendType, FaultNames
  <2>4. gq' \in SUBSET ToGround BY <1>0, <2>1
  <2> QED BY <1>2, <2>2, <2>3, <2>4, GroundStepType DEF GroundReceive
<1>3. CASE GroundTick
  <2>1. GroundSideOK' BY <1>0, <1>3, GroundTickType DEF GroundTick
  <2> QED BY <1>0, <1>3, <2>1, GroundStepType DEF GroundTick
<1>4. CASE GroundRetune
  <2>1. GroundSideOK' BY <1>0, <1>4, GroundRetuneType DEF GroundRetune
  <2>2. used' \in [Faults -> Nat] /\ gq' \in SUBSET ToGround
    BY <1>0, <1>4, SpendType, FaultNames, StreamType DEF GroundRetune
  <2> QED BY <1>4, <2>1, <2>2, GroundStepType DEF GroundRetune
<1>5. CASE HearVideo
  <2>1. GroundSideOK' BY <1>0, <1>5, OnVideoType DEF HearVideo
  <2> QED BY <1>0, <1>5, <2>1, GroundStepType DEF HearVideo
<1>6. CASE HearMarker
  <2>1. GroundSideOK' BY <1>0, <1>6, StreamType, OnMarkerType DEF HearMarker
  <2> QED BY <1>0, <1>6, <2>1, GroundStepType DEF HearMarker
<1>7. CASE GroundRestart
  <2>1. GroundSideOK' BY <1>0, <1>7, GroundRestartType DEF GroundRestart
  <2>2. used' \in [Faults -> Nat] BY <1>0, <1>7, SpendType, FaultNames DEF GroundRestart
  <2> QED BY <1>7, <2>1, <2>2, GroundStepType DEF GroundRestart
<1>8. CASE DroneReceive
  <2>1. PICK m \in dq : /\ Drone_on_message(m)
                        /\ \/ dq' = dq \ {m} /\ UNCHANGED used
                           \/ dq' = dq /\ Spend("dup")
    BY <1>8 DEF DroneReceive
  <2>2. DroneSideOK' BY <1>0, <2>1, DroneMessageType
  <2>3. used' \in [Faults -> Nat] BY <1>0, <2>1, SpendType, FaultNames
  <2>4. dq' \in SUBSET ToDrone BY <1>0, <2>1
  <2> QED BY <1>8, <2>2, <2>3, <2>4, DroneStepType DEF DroneReceive
<1>9. CASE DroneTick
  <2>1. DroneSideOK' BY <1>0, <1>9, DroneTickType DEF DroneTick
  <2> QED BY <1>0, <1>9, <2>1, DroneStepType DEF DroneTick
<1>10. CASE DroneHost
  <2>1. DroneSideOK'
    BY <1>0, <1>10, DrainDoneType, ProbeSampleType, DroneRetuneType DEF DroneHost
  <2>2. used' \in [Faults -> Nat] BY <1>0, <1>10, SpendType, FaultNames DEF DroneHost
  <2> QED BY <1>0, <1>10, <2>1, <2>2, DroneStepType DEF DroneHost
<1>11. CASE DrainStall
  <2>1. dtodo' \in Seq(HostOps) BY <1>0, <1>11 DEF DrainStall, DroneSideOK
  <2>2. used' \in [Faults -> Nat] BY <1>0, <1>11, SpendType, FaultNames DEF DrainStall
  <2> QED BY <1>11, <2>1, <2>2 DEF DrainStall, TypeOK, groundVars, medium, history
<1>12. CASE DroneRestart
  <2>1. DroneSideOK' BY <1>0, <1>12, DroneRestartType DEF DroneRestart
  <2>2. used' \in [Faults -> Nat] BY <1>0, <1>12, SpendType, FaultNames DEF DroneRestart
  <2> QED BY <1>12, <2>1, <2>2, DroneStepType DEF DroneRestart
<1>13. CASE Lose
  <2>1. used' \in [Faults -> Nat] BY <1>0, <1>13, SpendType, FaultNames DEF Lose
  <2>2. gq' \in SUBSET ToGround /\ dq' \in SUBSET ToDrone BY <1>0, <1>13 DEF Lose
  <2> QED BY <1>13, <2>1, <2>2 DEF Lose, TypeOK, groundVars, droneVars, history
<1>14. CASE Tick
  <2>1. ground' \in GroundType /\ drone' \in DroneType
    BY <1>14, GroundElapseType, DroneElapseType DEF Tick, TypeOK
  <2> QED BY <1>14, <2>1 DEF Tick, TypeOK, medium, history
<1>15. CASE UNCHANGED vars
  BY <1>15 DEF vars, TypeOK
<1> QED BY <1>1, <1>2, <1>3, <1>4, <1>5, <1>6, <1>7, <1>8, <1>9, <1>10, <1>11,
           <1>12, <1>13, <1>14, <1>15 DEF Next

(***************************************************************************)
(* Every reachable state of the link is well typed: each handler of either *)
(* machine leaves its members, the frames it airs and the host operations  *)
(* it asks for inside the types of the code's fields.                      *)
(***************************************************************************)
THEOREM TypeCorrect == Spec => []TypeOK
<1>1. Init => TypeOK BY InitType
<1>2. TypeOK /\ [Next]_vars => TypeOK' BY NextType
<1> QED BY <1>1, <1>2, PTL DEF Spec

------------------------------------------------------------------------------
(***************************************************************************)
(* Activation.  GroundEffect and DroneEffect say what one step can do to   *)
(* the exchange the two machines are engaged in; every step of the link    *)
(* has one of these effects, is a restart of the ground, or is a tick.     *)
(***************************************************************************)

\* The step starts or continues an exchange the ground has a commit for.
Carried ==
    \/ ground.st = "Proposed"
    \/ /\ ground.st = "Committed"
       /\ ground'.drone_nonce = ground.drone_nonce /\ ground'.gen = ground.gen

GroundEffect ==
    /\ ground'.epoch = ground.epoch
    /\ ground'.st = "Committed" => Carried
    /\ \A m \in dq' \ dq :
        /\ m.type = "PROPOSAL" => m.ground_epoch = ground.epoch
        /\ m.type = "STATUS" =>
             /\ ground'.st \in {"Committed", "Switching"}
             /\ m.peer_nonce_echo = ground'.drone_nonce
             /\ m.generation = ground'.gen
             /\ Carried

\* A handler of the ground airs only what it hands to ground_do.
LEMMA AiredOnly ==
    ASSUME NEW g, NEW ms, NEW cs, ground_do(g, ms, cs)
    PROVE  ground' = g /\ dq' \ dq \subseteq ms
BY DEF ground_do, Heard

\* A handler that leaves Committed and airs at most confirms.
LEMMA SilentEffect ==
    ASSUME NEW g, NEW cs, NEW ms, ground_do(g, ms, cs),
           \A m \in ms : m.type = "CONFIRM",
           g.epoch = ground.epoch, g.st # "Committed"
    PROVE  GroundEffect
BY AiredOnly DEF GroundEffect

\* A handler that returns nothing.
LEMMA IgnoresEffect == GroundIgnores => GroundEffect
BY DEF GroundIgnores, GroundEffect, Carried

\* make_confirm builds confirms.
LEMMA ConfirmKind == \A g : make_confirm(g).type = "CONFIRM"
BY DEF make_confirm

\* A handler that ends the migration.
LEMMA EndEffect ==
    ASSUME ground \in GroundType, NEW c,
           ground_do([ground EXCEPT !.st = "Stable", !.current = c], {}, <<>>)
    PROVE  GroundEffect
<1> DEFINE h == [ground EXCEPT !.st = "Stable", !.current = c]
<1>1. h.epoch = ground.epoch /\ h.st = "Stable" BY DEF GroundType
<1>2. ground_do(h, {}, <<>>) OBVIOUS
<1>3. \A m \in {} : m.type = "CONFIRM" OBVIOUS
<1> HIDE DEF h
<1> QED BY <1>1, <1>2, <1>3, SilentEffect

\* tick_committed acknowledges the exchange it carries on.
LEMMA CommittedEffect ==
    ASSUME NEW g \in GroundType, g.epoch = ground.epoch, g.st = "Committed",
           \/ ground.st = "Proposed"
           \/ /\ ground.st = "Committed"
              /\ g.drone_nonce = ground.drone_nonce /\ g.gen = ground.gen,
           tick_committed(g)
    PROVE  GroundEffect
<1> DEFINE acked == IF g.next_status = 0
                    THEN [g EXCEPT !.next_status = CommitInterval] ELSE g
           h == IF g.retune_at = 0
                THEN [acked EXCEPT !.st = "Switching", !.blank_until = BlankWindow]
                ELSE acked
           ms == IF g.next_status = 0 THEN {make_status_ack(g)} ELSE {}
           cs == IF g.retune_at = 0 THEN <<g.commit_target>> ELSE <<>>
<1>1. /\ h.epoch = g.epoch /\ h.drone_nonce = g.drone_nonce /\ h.gen = g.gen
      /\ h.st \in {"Committed", "Switching"}
  BY DEF GroundType
<1>2. \A m \in ms : /\ m.type = "STATUS" /\ m.peer_nonce_echo = g.drone_nonce
                    /\ m.generation = g.gen
  BY DEF make_status_ack
<1>3. ground_do(h, ms, cs) BY DEF tick_committed
<1> HIDE DEF h, ms, cs
<1>4. ground' = h /\ dq' \ dq \subseteq ms BY <1>3, AiredOnly
<1> QED BY <1>1, <1>2, <1>4 DEF GroundEffect, Carried

\* start airs a proposal of its own epoch.
LEMMA StartEffect ==
    ASSUME ground \in GroundType, NEW tgt, Ground_start(tgt)
    PROVE  GroundEffect
<1> DEFINE g == [ground EXCEPT !.gen = @ + 1, !.target = tgt,
                               !.st = "Proposed", !.tries = 1,
                               !.next_send = ProposalInterval]
<1>1. g.st = "Proposed" /\ g.epoch = ground.epoch BY DEF GroundType
<1>2. ground_do(g, {make_proposal(g)}, <<>>) BY DEF Ground_start
<1> HIDE DEF g
<1>3. make_proposal(g).type = "PROPOSAL" /\ make_proposal(g).ground_epoch = g.epoch
  BY DEF make_proposal
<1>4. ground' = g /\ dq' \ dq \subseteq {make_proposal(g)} BY <1>2, AiredOnly
<1> QED BY <1>1, <1>3, <1>4 DEF GroundEffect

\* on_commit takes up an exchange only from Proposed.
LEMMA OnCommitEffect ==
    ASSUME ground \in GroundType, NEW m \in Commits, Ground_on_commit(m)
    PROVE  GroundEffect
<1>1. CASE ground.st = "Proposed" /\ tick_committed(AdoptCommit(ground, m))
  <2> DEFINE g == AdoptCommit(ground, m)
  <2>1. g \in GroundType BY AdoptCommitType
  <2>2. g.epoch = ground.epoch /\ g.st = "Committed" BY DEF AdoptCommit, GroundType
  <2>3. tick_committed(g) BY <1>1
  <2> HIDE DEF g
  <2> QED BY <1>1, <2>1, <2>2, <2>3, CommittedEffect
<1>2. CASE ground.st = "Committed" /\ ground_do(ground, {make_status_ack(ground)}, <<>>)
  <2>1. ground' = ground /\ dq' \ dq \subseteq {make_status_ack(ground)}
    BY <1>2, AiredOnly
  <2>2. LET a == make_status_ack(ground)
        IN  /\ a.type = "STATUS" /\ a.peer_nonce_echo = ground.drone_nonce
            /\ a.generation = ground.gen
    BY DEF make_status_ack
  <2> QED BY <1>2, <2>1, <2>2 DEF GroundEffect, Carried
<1> QED BY <1>1, <1>2, IgnoresEffect DEF Ground_on_commit

\* on_status acknowledges nothing.
LEMMA OnStatusEffect ==
    ASSUME ground \in GroundType, NEW m, Ground_on_status(m)
    PROVE  GroundEffect
<1>1. CASE follow_drone(m.current)
  <2> DEFINE c == m.current
             stable == [ground EXCEPT !.st = "Stable"]
             follows == [ground EXCEPT !.follow_channel = c,
                            !.follow_pending = TRUE, !.st = "Switching"]
             ms == IF c = ground.commit_target THEN {make_confirm(ground)} ELSE {}
  <2>1. /\ stable.epoch = ground.epoch /\ stable.st = "Stable"
        /\ follows.epoch = ground.epoch /\ follows.st = "Switching"
    BY DEF GroundType
  <2>2. \A k \in ms : k.type = "CONFIRM" BY ConfirmKind
  <2>3. \A k \in {} : k.type = "CONFIRM" OBVIOUS
  <2>4. ground_do(stable, ms, <<>>) \/ ground_do(follows, {}, <<c>>)
    BY <1>1 DEF follow_drone
  <2> HIDE DEF stable, follows, ms
  <2> QED BY <2>1, <2>2, <2>3, <2>4, SilentEffect
<1> QED BY <1>1, EndEffect, IgnoresEffect DEF Ground_on_status

\* A step that changes neither the state, the nonce nor the generation.
LEMMA SameEffect ==
    ASSUME NEW g, NEW ms, NEW cs, ground_do(g, ms, cs),
           \A m \in ms : \/ m.type = "CONFIRM"
                         \/ m.type = "PROPOSAL" /\ m.ground_epoch = ground.epoch,
           g.epoch = ground.epoch, g.st = ground.st,
           g.drone_nonce = ground.drone_nonce, g.gen = ground.gen
    PROVE  GroundEffect
BY AiredOnly DEF GroundEffect, Carried

\* maybe_confirm acknowledges nothing.
LEMMA MaybeConfirmEffect ==
    ASSUME NEW g \in GroundType, g.epoch = ground.epoch, g.st = ground.st,
           g.drone_nonce = ground.drone_nonce, g.gen = ground.gen, maybe_confirm(g)
    PROVE  GroundEffect
<1> DEFINE h == [g EXCEPT !.verified = TRUE, !.next_confirm = CommitInterval]
<1>1. /\ h.epoch = ground.epoch /\ h.st = ground.st
      /\ h.drone_nonce = ground.drone_nonce /\ h.gen = ground.gen
  BY DEF GroundType
<1>2. ground_do(h, {make_confirm(g)}, <<>>) \/ ground_do(g, {}, <<>>)
  BY DEF maybe_confirm
<1>3. \A m \in {make_confirm(g)} : m.type = "CONFIRM" BY ConfirmKind
<1>4. \A m \in {} : m.type = "CONFIRM" OBVIOUS
<1> HIDE DEF h
<1> QED BY <1>1, <1>2, <1>3, <1>4, SameEffect

\* Markers and video acknowledge nothing.
LEMMA HearEffect ==
    ASSUME ground \in GroundType, NEW m, Ground_on_marker(m) \/ Ground_on_video
    PROVE  GroundEffect
<1>1. CASE maybe_confirm([ground EXCEPT !.got_gen_marker = TRUE,
                            !.markers_seen = Count(@, VerifyMarkers)])
  <2> DEFINE g == [ground EXCEPT !.got_gen_marker = TRUE,
                            !.markers_seen = Count(@, VerifyMarkers)]
  <2>1. Count(ground.markers_seen, VerifyMarkers) \in Nat
    BY DEF GroundType, Count
  <2>2. \A n \in Nat : [ground EXCEPT !.got_gen_marker = TRUE,
                            !.markers_seen = n] \in GroundType
    BY DEF GroundType
  <2>3. g \in GroundType BY <2>1, <2>2
  <2>4. /\ g.epoch = ground.epoch /\ g.st = ground.st
        /\ g.drone_nonce = ground.drone_nonce /\ g.gen = ground.gen
    BY DEF GroundType
  <2>5. maybe_confirm(g) BY <1>1
  <2> HIDE DEF g
  <2> QED BY <2>3, <2>4, <2>5, MaybeConfirmEffect
<1>2. CASE maybe_confirm([ground EXCEPT !.video_seen = Count(@, VerifyVideo)])
  <2> DEFINE g == [ground EXCEPT !.video_seen = Count(@, VerifyVideo)]
  <2>1. Count(ground.video_seen, VerifyVideo) \in Nat
    BY DEF GroundType, Count
  <2>2. \A n \in Nat : [ground EXCEPT !.video_seen = n] \in GroundType
    BY DEF GroundType
  <2>3. g \in GroundType BY <2>1, <2>2
  <2>4. /\ g.epoch = ground.epoch /\ g.st = ground.st
        /\ g.drone_nonce = ground.drone_nonce /\ g.gen = ground.gen
    BY DEF GroundType
  <2>5. maybe_confirm(g) BY <1>2
  <2> HIDE DEF g
  <2> QED BY <2>3, <2>4, <2>5, MaybeConfirmEffect
<1> QED BY <1>1, <1>2, EndEffect, IgnoresEffect
        DEF Ground_on_marker, Ground_on_video, recover_to

\* Entering Recovery acknowledges nothing.
LEMMA ScanEffect ==
    ASSUME NEW g \in GroundType, g.epoch = ground.epoch, NEW ms, NEW cs,
           \A m \in ms : m.type = "CONFIRM",
           ground_do(enter_recovery(g), ms, cs)
    PROVE  GroundEffect
<1>1. enter_recovery(g).epoch = g.epoch /\ enter_recovery(g).st = "Recovery"
  BY DEF enter_recovery, GroundType
<1> QED BY <1>1, SilentEffect

\* Whatever frame the ground handles has a GroundEffect.
LEMMA GroundMessageEffect ==
    ASSUME ground \in GroundType, NEW m \in ToGround, Ground_on_message(m)
    PROVE  GroundEffect
<1>1. CASE Ground_on_abort(m)
  <2>1. \A k \in {} : k.type = "CONFIRM" OBVIOUS
  <2>2. CASE ground_do([ground EXCEPT !.st = "Stable", !.current = Source], {}, <<>>)
    BY <2>2, EndEffect
  <2>3. CASE ground_do(enter_recovery(ground), {},
                       <<recov_channel(enter_recovery(ground))>>)
    BY <2>1, <2>3, ScanEffect
  <2> QED BY <1>1, <2>2, <2>3 DEF Ground_on_abort
<1> QED BY <1>1, GroundKinds, OnCommitEffect, OnStatusEffect, HearEffect
        DEF Ground_on_message

\* on_tick of the ground has a GroundEffect.
LEMMA GroundTickEffect ==
    ASSUME ground \in GroundType, Ground_on_tick
    PROVE  GroundEffect
<1>1. CASE tick_proposed
  <2> DEFINE again == [ground EXCEPT !.tries = @ + 1, !.next_send = ProposalInterval]
             p == make_proposal(ground)
  <2>1. /\ again.epoch = ground.epoch /\ again.st = ground.st
        /\ again.drone_nonce = ground.drone_nonce /\ again.gen = ground.gen
    BY DEF GroundType
  <2>2. p.type = "PROPOSAL" /\ p.ground_epoch = ground.epoch BY DEF make_proposal
  <2>3. \/ ground_do([ground EXCEPT !.st = "Stable", !.current = Source], {}, <<>>)
        \/ ground_do(again, {p}, <<>>)
    BY <1>1 DEF tick_proposed
  <2>4. CASE ground_do([ground EXCEPT !.st = "Stable", !.current = Source], {}, <<>>)
    BY <2>4, EndEffect
  <2>5. CASE ground_do(again, {p}, <<>>)
    <3>1. \A m \in {p} : m.type = "PROPOSAL" /\ m.ground_epoch = ground.epoch
      BY <2>2
    <3> HIDE DEF again, p
    <3> QED BY <2>1, <3>1, <2>5, SameEffect
  <2> QED BY <2>3, <2>4, <2>5
<1>2. CASE ground.st = "Committed" /\ tick_committed(ground)
  BY <1>2, CommittedEffect
<1>3. CASE tick_verifying
  <2> DEFINE confirm == ground.verified /\ ground.next_confirm = 0
             g == IF confirm THEN [ground EXCEPT !.next_confirm = CommitInterval]
                             ELSE ground
             ms == IF confirm THEN {make_confirm(ground)} ELSE {}
  <2>1. g \in GroundType BY TimerParams DEF GroundType
  <2>2. /\ g.epoch = ground.epoch /\ g.st = ground.st
        /\ g.drone_nonce = ground.drone_nonce /\ g.gen = ground.gen
    BY DEF GroundType
  <2>3. \A m \in ms : m.type = "CONFIRM" BY ConfirmKind
  <2>4. \/ ground_do(enter_recovery(g), ms, <<recov_channel(enter_recovery(g))>>)
        \/ ground_do(g, ms, <<>>)
    BY <1>3 DEF tick_verifying
  <2> HIDE DEF g, ms
  <2> QED BY <2>1, <2>2, <2>3, <2>4, ScanEffect, SameEffect
<1>4. CASE tick_recovery
  <2> DEFINE g == [ground EXCEPT !.recov_idx = (@ + 1) % 4,
                                 !.recov_next = RecoveryDwell]
  <2>1. /\ g.epoch = ground.epoch /\ g.st = ground.st
        /\ g.drone_nonce = ground.drone_nonce /\ g.gen = ground.gen
    BY DEF GroundType
  <2>2. \A m \in {} : m.type = "CONFIRM" OBVIOUS
  <2>3. ground_do(g, {}, <<recov_channel(g)>>) BY <1>4 DEF tick_recovery
  <2> HIDE DEF g
  <2> QED BY <2>1, <2>2, <2>3, SameEffect
<1> QED BY <1>1, <1>2, <1>3, <1>4 DEF Ground_on_tick

\* A retune of the ground has a GroundEffect.
LEMMA GroundRetuneEffect ==
    ASSUME ground \in GroundType, ground_retune
    PROVE  GroundEffect
<1>1. ground' = Ground_on_retune_done(ground) /\ dq' = dq BY DEF ground_retune
<1>2. /\ ground'.epoch = ground.epoch /\ ground'.drone_nonce = ground.drone_nonce
      /\ ground'.gen = ground.gen
      /\ ground'.st = "Committed" => ground.st = "Committed"
  BY <1>1 DEF Ground_on_retune_done, GroundType
<1> QED BY <1>1, <1>2 DEF GroundEffect, Carried

------------------------------------------------------------------------------
\* The exchange the drone is engaged in is the one it was engaged in before.
SameExchange ==
    /\ drone'.drone_nonce = drone.drone_nonce /\ drone'.gen = drone.gen
    /\ drone'.ground_epoch = drone.ground_epoch

Acknowledged ==
    \E m \in dq : /\ m.type = "STATUS" /\ m.peer_nonce_echo = drone.drone_nonce
                  /\ m.generation = drone.gen

\* What one step of the drone can do to the exchange it is engaged in.
DroneEffect ==
    /\ drone'.st = "Committed" /\ drone'.armed =>
         /\ drone.st = "Committed" /\ SameExchange
         /\ drone.armed \/ Acknowledged
    /\ Activated' => /\ Activated \/ (drone.st = "Committed" /\ drone.armed)
                     /\ SameExchange
    /\ Engaged' => \/ Engaged /\ drone'.ground_epoch = drone.ground_epoch
                   \/ \E m \in dq : /\ m.type = "PROPOSAL"
                                    /\ drone'.ground_epoch = m.ground_epoch

\* A new state that is not engaged, or differs in members the effect does not name.
Quiet(d) ==
    \/ d.st \notin {"Validating", "Committed", "Switching", "Verifying"}
    \/ /\ d.st = drone.st /\ d.armed = drone.armed
       /\ d.drone_nonce = drone.drone_nonce /\ d.gen = drone.gen
       /\ d.ground_epoch = drone.ground_epoch

\* A quiet step has a DroneEffect.
LEMMA QuietEffect ==
    ASSUME NEW d, Quiet(d), drone' = d
    PROVE  DroneEffect
BY DEF DroneEffect, Quiet, Activated, Engaged, SameExchange

\* Beginning an exchange, by a proposal or after its probe.
LEMMA BeginEffect ==
    ASSUME NEW d, drone' = d, d.st \in {"Validating", "Committed"},
           d.st = "Committed" => d.armed = FALSE,
           \/ Engaged /\ d.ground_epoch = drone.ground_epoch
           \/ \E m \in dq : m.type = "PROPOSAL" /\ d.ground_epoch = m.ground_epoch
    PROVE  DroneEffect
BY DEF DroneEffect, Activated, Engaged

\* drone_do leaves the machine as the handler left it.
LEMMA BecomesDo ==
    ASSUME NEW d, NEW ms, NEW ops, drone_do(d, ms, ops)
    PROVE  drone' = d
BY DEF drone_do

\* A host operation leaves the machine as the callback left it.
LEMMA BecomesHost ==
    ASSUME NEW d, NEW c, NEW ms, NEW ops, HostDoes(d, c, ms, ops)
    PROVE  drone' = d
BY DEF HostDoes

\* A fresh proposal begins its own exchange, unarmed, or changes nothing.
LEMMA FreshEffect ==
    ASSUME NEW d \in DroneType, NEW m \in Proposals, m \in dq,
           FreshProposal(d, m),
           \A rw : Quiet([d EXCEPT !.rw = rw])
    PROVE  DroneEffect
<1> DEFINE taken == [d EXCEPT !.rw = take_generation(@, m.generation)]
           why   == RefusalOf(d, m)
           s     == StashProposal(taken, m)
           refused == [taken EXCEPT !.rw = clear_in_flight(@)]
<1>1. \/ drone_do(refused, {status_reject(taken, m.generation, why)}, <<>>)
      \/ drone_do(enter_probe(s), {}, StartDrain)
      \/ drone_do(enter_committed(s), {make_commit(enter_committed(s))}, <<>>)
  BY DEF FreshProposal
<1>2. Quiet(refused)
  <2> DEFINE w == clear_in_flight(taken.rw)
  <2>1. refused = [d EXCEPT !.rw = w] BY DEF DroneType
  <2> HIDE DEF refused, w
  <2> QED BY <2>1
<1>3. taken \in DroneType
  <2>1. m.generation \in Gens BY DEF Proposals
  <2>2. d.rw \in ReplayWindow BY DEF DroneType
  <2> QED BY <2>1, <2>2, ZeroType, WindowType, DroneWindowType
<1> HIDE DEF taken, why, refused
<1>4. s \in DroneType BY <1>3, StashType
<1>5. s.ground_epoch = m.ground_epoch BY <1>3 DEF StashProposal, DroneType
<1> HIDE DEF s
<1>6. /\ enter_probe(s).st = "Validating"
      /\ enter_probe(s).ground_epoch = s.ground_epoch
  BY <1>4 DEF enter_probe, DroneType
<1>7. /\ enter_committed(s).st = "Committed"
      /\ enter_committed(s).armed = FALSE
      /\ enter_committed(s).ground_epoch = s.ground_epoch
  BY <1>4 DEF enter_committed, DroneType
<1>8. m.type = "PROPOSAL" BY DEF Proposals
<1>9. CASE drone' = refused BY <1>2, <1>9, QuietEffect
<1>10. CASE drone' = enter_probe(s)
  BY <1>5, <1>6, <1>8, <1>10, BeginEffect
<1>11. CASE drone' = enter_committed(s)
  BY <1>5, <1>7, <1>8, <1>11, BeginEffect
<1> QED BY <1>1, <1>9, <1>10, <1>11, BecomesDo

\* on_proposal never touches the exchange of an engaged drone but to end it.
LEMMA OnProposalEffect ==
    ASSUME drone \in DroneType, NEW m \in Proposals, m \in dq, Drone_on_proposal(m)
    PROVE  DroneEffect
<1> DEFINE d == Reconsidered(m)
           orphan == [drone EXCEPT !.phase = "None", !.st = "Rollback",
                        !.rw = clear_in_flight(accept_epoch(@, m.ground_epoch))]
           op == RetuneThenSend(drone.commit_source,
                                status_reject(drone, m.generation, "Busy"))
           again == IF d.st = "Committed" THEN {make_commit(d)} ELSE {}
<1>1. \/ drone_do(orphan, {}, op)
      \/ drone_do(d, {}, <<>>)
      \/ drone_do(d, again, <<>>)
      \/ FreshProposal(d, m)
  BY DEF Drone_on_proposal
<1>2. Quiet(orphan)
  <2>1. orphan.st = "Rollback" BY DEF DroneType
  <2> QED BY <2>1 DEF Quiet
<1>3. Quiet(d) /\ \A rw : Quiet([d EXCEPT !.rw = rw])
  BY DEF Reconsidered, Quiet, DroneType
<1>4. d \in DroneType
  <2>1. m.ground_epoch \in Epochs /\ drone.rw \in ReplayWindow
    BY DEF Proposals, DroneType
  <2>2. accept_epoch(drone.rw, m.ground_epoch) \in ReplayWindow
    BY <2>1, ZeroType, WindowType
  <2>3. ASSUME NEW rw \in ReplayWindow
        PROVE  /\ [drone EXCEPT !.rw = rw] \in DroneType
               /\ [[drone EXCEPT !.phase = "None", !.st = "Stable"]
                     EXCEPT !.rw = rw] \in DroneType
    BY Zenon DEF DroneType, DroneStates, Phases
  <2>4. [drone EXCEPT !.phase = "None", !.st = "Stable"].rw = drone.rw
    BY DEF DroneType
  <2> QED BY <2>2, <2>3, <2>4 DEF Reconsidered
<1> HIDE DEF d, orphan, op, again
<1> QED BY <1>1, <1>2, <1>3, <1>4, BecomesDo, QuietEffect, FreshEffect

\* Whatever frame the drone handles has a DroneEffect.
LEMMA DroneMessageEffect ==
    ASSUME drone \in DroneType, NEW m \in ToDrone, m \in dq, Drone_on_message(m)
    PROVE  DroneEffect
<1>1. CASE m.type = "PROPOSAL" /\ Drone_on_proposal(m)
  <2>1. m \in Proposals BY <1>1 DEF ToDrone, Proposals, Statuses, Confirms
  <2> QED BY <1>1, <2>1, OnProposalEffect
<1>2. CASE DroneIgnores
  <2>1. Quiet(drone) BY DEF Quiet
  <2> QED BY <1>2, <2>1, QuietEffect DEF DroneIgnores
<1>3. CASE m.type = "STATUS" /\ AckMatches(m)
           /\ drone_do([drone EXCEPT !.armed = TRUE], {}, <<>>)
  <2>1. drone' = [drone EXCEPT !.armed = TRUE] BY <1>3, BecomesDo
  <2>2. SameExchange /\ drone'.st = drone.st
    BY <2>1 DEF SameExchange, DroneType
  <2>3. drone.st = "Committed" /\ Acknowledged
    BY <1>3 DEF AckMatches, Acknowledged
  <2> QED BY <2>2, <2>3 DEF DroneEffect, Activated, Engaged, SameExchange
<1>4. CASE drone_do([drone EXCEPT !.st = "Stable", !.current = drone.commit_target,
                                 !.settle_status = SettleStatus,
                                 !.next_status = 0, !.markers_on = FALSE], {}, <<>>)
  <2>1. drone'.st = "Stable" BY <1>4, BecomesDo DEF DroneType
  <2> QED BY <2>1 DEF DroneEffect, Activated, Engaged
<1> QED BY <1>1, <1>2, <1>3, <1>4
        DEF Drone_on_message, Drone_on_status, Drone_on_confirm

\* A step within an engagement: the state moves on and the exchange stays.
LEMMA MovesOnEffect ==
    ASSUME NEW d, drone' = d,
           \/ drone.st = "Committed" /\ drone.armed /\ d.st = "Switching"
           \/ Activated /\ d.st \in {"Switching", "Verifying"},
           d.drone_nonce = drone.drone_nonce, d.gen = drone.gen,
           d.ground_epoch = drone.ground_epoch
    PROVE  DroneEffect
BY DEF DroneEffect, Activated, Engaged, SameExchange

\* on_tick activates only an armed commit.
LEMMA DroneTickEffect ==
    ASSUME drone \in DroneType, Drone_on_tick
    PROVE  DroneEffect
<1> DEFINE a == AfterStatus
<1>1. a \in DroneType BY AfterStatusType
<1>2. /\ a.st = drone.st /\ a.armed = drone.armed
      /\ a.drone_nonce = drone.drone_nonce /\ a.gen = drone.gen
      /\ a.ground_epoch = drone.ground_epoch
  BY DEF AfterStatus, DroneType
<1>3. CASE GiveUpUnheard
  <2> DEFINE d == [a EXCEPT !.st = "Stable", !.settle_status = SettleStatus,
                            !.next_status = 0, !.rw = clear_in_flight(@)]
  <2>1. drone' = d BY <1>3, BecomesDo DEF GiveUpUnheard
  <2> HIDE DEF a
  <2>2. Quiet(d) BY <1>1 DEF Quiet, DroneType
  <2> HIDE DEF d
  <2> QED BY <2>1, <2>2, QuietEffect
<1>4. CASE RepeatOrSwitch
  <2> DEFINE r == IF RepeatDue THEN [a EXCEPT !.next_commit = CommitInterval] ELSE a
             d == IF SwitchDue
                  THEN [r EXCEPT !.st = "Switching", !.phase = "Draining",
                            !.pump_on = FALSE, !.drain_deadline = DrainDeadline]
                  ELSE r
  <2>1. drone' = d BY <1>4, BecomesDo DEF RepeatOrSwitch
  <2> HIDE DEF a
  <2>2. r \in DroneType BY <1>1, TimerParams, Zenon DEF DroneType
  <2>3. /\ r.st = drone.st /\ r.armed = drone.armed
        /\ r.drone_nonce = drone.drone_nonce /\ r.gen = drone.gen
        /\ r.ground_epoch = drone.ground_epoch
    BY <1>1, <1>2 DEF DroneType
  <2> HIDE DEF r
  <2>4. CASE SwitchDue
    <3>1. /\ d.st = "Switching" /\ d.drone_nonce = drone.drone_nonce
          /\ d.gen = drone.gen /\ d.ground_epoch = drone.ground_epoch
      BY <2>2, <2>3, <2>4 DEF DroneType
    <3>2. drone.st = "Committed" /\ drone.armed BY <2>4 DEF SwitchDue
    <3> HIDE DEF d
    <3> QED BY <2>1, <3>1, <3>2, MovesOnEffect
  <2>5. CASE ~ SwitchDue
    <3>1. Quiet(d) BY <2>3, <2>5 DEF Quiet
    <3> HIDE DEF d
    <3> QED BY <2>1, <3>1, QuietEffect
  <2> QED BY <2>4, <2>5
<1>5. CASE DrainStalled
  <2> DEFINE d == [a EXCEPT !.phase = "Retuning"]
  <2>1. drone' = d BY <1>5, BecomesDo DEF DrainStalled
  <2> HIDE DEF a
  <2>2. Quiet(d) BY <1>1, <1>2 DEF Quiet, DroneType
  <2> HIDE DEF d
  <2> QED BY <2>1, <2>2, QuietEffect
<1>6. CASE RollBack
  <2> DEFINE d == [a EXCEPT !.st = "Rollback", !.markers_on = FALSE]
  <2>1. drone' = d BY <1>6, BecomesDo DEF RollBack
  <2> HIDE DEF a
  <2>2. Quiet(d) BY <1>1 DEF Quiet, DroneType
  <2> HIDE DEF d
  <2> QED BY <2>1, <2>2, QuietEffect
<1>7. CASE StatusOnly
  <2>1. drone' = a BY <1>7, BecomesDo DEF StatusOnly
  <2> HIDE DEF a
  <2>2. Quiet(a) BY <1>2 DEF Quiet
  <2> QED BY <2>1, <2>2, QuietEffect
<1> QED BY <1>3, <1>4, <1>5, <1>6, <1>7 DEF Drone_on_tick

\* finish_rollback ends the exchange.
LEMMA FinishEffect ==
    ASSUME NEW d \in DroneType, NEW c \in AnyChannel,
           drone' = finish_rollback([d EXCEPT !.current = c])
    PROVE  DroneEffect
<1> DEFINE e == [d EXCEPT !.current = c]
<1>1. e \in DroneType BY CurrentType
<1> HIDE DEF e
<1>2. Quiet(finish_rollback(e)) BY <1>1 DEF Quiet, finish_rollback, DroneType
<1>3. drone' = finish_rollback(e) BY DEF e
<1> QED BY <1>2, <1>3, QuietEffect

\* on_retune_done never changes the exchange it carries on.
LEMMA DroneRetuneEffect ==
    ASSUME drone \in DroneType, NEW ok \in BOOLEAN, Drone_on_retune_done(ok)
    PROVE  DroneEffect
<1>0. fallback_channel(drone) \in AnyChannel BY FallbackType
<1>1. CASE ActivationRetuned(ok)
  <2> DEFINE d == [drone EXCEPT !.current = drone.commit_target,
                     !.st = "Verifying", !.markers_on = TRUE,
                     !.marker_ch = drone.commit_target, !.pump_on = TRUE]
             f == [drone EXCEPT !.phase = "RollbackRetune",
                                !.current = fallback_channel(drone)]
  <2>1. Activated BY <1>1 DEF ActivationRetuned, Activated
  <2>2. drone' = d \/ drone' = f BY <1>1, BecomesHost DEF ActivationRetuned
  <2>3. /\ d.st = "Verifying" /\ d.drone_nonce = drone.drone_nonce
        /\ d.gen = drone.gen /\ d.ground_epoch = drone.ground_epoch
    BY DEF DroneType
  <2>4. Quiet(f) BY DEF Quiet, DroneType
  <2> HIDE DEF d, f
  <2> QED BY <2>1, <2>2, <2>3, <2>4, MovesOnEffect, QuietEffect
<1>2. CASE FallbackRetuned(ok)
  <2> DEFINE f == [drone EXCEPT !.current = drone.commit_rescue,
                                !.st = "Stable", !.hold_down = HoldDown]
  <2>1. \/ drone' = finish_rollback([drone EXCEPT !.current = fallback_channel(drone)])
        \/ drone' = f
    BY <1>2, BecomesHost DEF FallbackRetuned
  <2>2. Quiet(f) BY DEF Quiet, DroneType
  <2> HIDE DEF f
  <2> QED BY <1>0, <2>1, <2>2, FinishEffect, QuietEffect
<1>3. CASE RollbackRetuned(ok)
  <2>1. drone' = finish_rollback([drone EXCEPT !.current = fallback_channel(drone)])
    BY <1>3, BecomesHost DEF RollbackRetuned
  <2> QED BY <1>0, <2>1, FinishEffect
<1>4. CASE ProbeReached(ok)
  <2> DEFINE d == [drone EXCEPT !.current = drone.commit_target, !.pp = "Sampling"]
             f == [drone EXCEPT !.probe_veto = TRUE, !.pp = "Return"]
  <2>1. drone' = d \/ drone' = f BY <1>4, BecomesHost DEF ProbeReached
  <2>2. Quiet(d) /\ Quiet(f) BY DEF Quiet, DroneType
  <2> HIDE DEF d, f
  <2> QED BY <2>1, <2>2, QuietEffect
<1>5. CASE ProbeReturned(ok)
  <2> DEFINE c == IF ok THEN drone.commit_source ELSE drone.commit_rescue
             back == [drone EXCEPT !.pp = "None", !.pump_on = TRUE, !.current = c]
             refused == [back EXCEPT !.st = "Stable", !.rw = clear_in_flight(@)]
             e == enter_committed(back)
  <2>1. drone' = refused \/ drone' = e BY <1>5, BecomesHost DEF ProbeReturned
  <2>2. c \in AnyChannel BY DEF DroneType
  <2> HIDE DEF c
  <2>3. back \in DroneType BY <2>2, Zenon DEF DroneType, ProbePhases
  <2>4. back.ground_epoch = drone.ground_epoch BY DEF DroneType
  <2> HIDE DEF back
  <2>5. Quiet(refused) BY <2>3 DEF Quiet, DroneType
  <2>6. e.st = "Committed" /\ e.armed = FALSE /\ e.ground_epoch = drone.ground_epoch
    BY <2>3, <2>4 DEF enter_committed, DroneType
  <2>7. Engaged BY <1>5 DEF ProbeReturned, Engaged
  <2> HIDE DEF refused, e
  <2> QED BY <2>1, <2>5, <2>6, <2>7, QuietEffect, BeginEffect
<1>6. CASE RetuneUnasked(ok)
  <2>1. Quiet(drone) BY DEF Quiet
  <2> QED BY <1>6, <2>1, BecomesHost, QuietEffect DEF RetuneUnasked
<1> QED BY <1>1, <1>2, <1>3, <1>4, <1>5, <1>6 DEF Drone_on_retune_done

\* Every host operation has a DroneEffect.
LEMMA DroneHostEffect ==
    ASSUME drone \in DroneType, DroneHost
    PROVE  DroneEffect
<1> DEFINE r == [drone EXCEPT !.phase = "Retuning"]
           p == [drone EXCEPT !.pp = "Retune"]
           v(b) == [drone EXCEPT !.probe_veto = b, !.pp = "Return"]
<1>1. Quiet(r) /\ Quiet(p) /\ Quiet(drone) /\ \A b : Quiet(v(b))
  BY DEF Quiet, DroneType
<1>2. CASE on_drain_done
  <2>1. drone' = r \/ drone' = p \/ drone' = drone
    BY <1>2, BecomesHost DEF on_drain_done
  <2> HIDE DEF r, p
  <2> QED BY <1>1, <2>1, QuietEffect
<1>3. ASSUME NEW b \in BOOLEAN, on_probe_sample(b) PROVE DroneEffect
  <2>1. drone' = v(b) \/ drone' = drone BY <1>3, BecomesHost DEF on_probe_sample
  <2> HIDE DEF v
  <2> QED BY <1>1, <2>1, QuietEffect
<1> QED BY <1>2, <1>3, DroneRetuneEffect DEF DroneHost

------------------------------------------------------------------------------
\* An exchange the ground carries on is in the history of adopted ones.
LEMMA CarriedAdopted ==
    ASSUME GroundAdopted, Record, Carried, ground'.st \in {"Committed", "Switching"}
    PROVE  NonceAdopted(ground.drone_nonce, ground.gen)'
<1>1. CASE ground.st = "Proposed"
  <2>1. GroundExchange(ground') \in adopted' BY <1>1 DEF Record
  <2> QED BY <2>1 DEF NonceAdopted, GroundExchange
<1>2. CASE /\ ground.st = "Committed"
           /\ ground'.drone_nonce = ground.drone_nonce /\ ground'.gen = ground.gen
  BY <1>2 DEF GroundAdopted, NonceAdopted, Record
<1> QED BY <1>1, <1>2 DEF Carried

\* A step of the ground keeps AckInv.
LEMMA GroundKeepsAck ==
    ASSUME AckInv, GroundEffect, Record, UNCHANGED droneVars
    PROVE  AckInv'
<1>1. adopted \subseteq adopted' BY DEF Record
<1>2. AcksAdopted'
  <2> SUFFICES ASSUME NEW m \in dq', m.type = "STATUS"
               PROVE  \E x \in adopted' : /\ x.drone_nonce = m.peer_nonce_echo
                                         /\ x.generation = m.generation
    BY DEF AcksAdopted, NonceAdopted
  <2>1. CASE m \in dq BY <1>1, <2>1 DEF AckInv, AcksAdopted, NonceAdopted
  <2>2. CASE m \notin dq
    BY <2>2, CarriedAdopted DEF AckInv, GroundEffect, NonceAdopted
  <2> QED BY <2>1, <2>2
<1>3. GroundAdopted'
  BY CarriedAdopted DEF AckInv, GroundEffect, GroundAdopted
<1>4. ArmedAdopted' /\ ActivationNeedsNonce'
  BY <1>1 DEF AckInv, ArmedAdopted, ActivationNeedsNonce, NonceAdopted,
              Activated, droneVars
<1> QED BY <1>2, <1>3, <1>4 DEF AckInv

\* A step of the drone keeps AckInv.
LEMMA DroneKeepsAck ==
    ASSUME AckInv, DroneEffect, dq' \subseteq dq, UNCHANGED <<groundVars, history>>
    PROVE  AckInv'
<1>1. AcksAdopted' /\ GroundAdopted'
  BY DEF AckInv, AcksAdopted, GroundAdopted, NonceAdopted, groundVars, history
<1>2. ArmedAdopted'
  BY DEF AckInv, DroneEffect, ArmedAdopted, AcksAdopted, Acknowledged,
         SameExchange, NonceAdopted, history
<1>3. ActivationNeedsNonce'
  BY DEF AckInv, DroneEffect, ActivationNeedsNonce, ArmedAdopted, SameExchange,
         Activated, NonceAdopted, history
<1> QED BY <1>1, <1>2, <1>3 DEF AckInv

\* How each step of Next moves the exchange.
LEMMA StepEffects ==
    ASSUME TypeOK, Next
    PROVE  \/ GroundEffect /\ Record /\ UNCHANGED droneVars
           \/ DroneEffect /\ dq' \subseteq dq /\ UNCHANGED <<groundVars, history>>
           \/ GroundRestart
           \/ Tick
<1>0. /\ ground \in GroundType /\ drone \in DroneType
      /\ gq \in SUBSET ToGround /\ dq \in SUBSET ToDrone
  BY DEF TypeOK
<1> DEFINE G == GroundEffect /\ Record /\ UNCHANGED droneVars
           D == DroneEffect /\ dq' \subseteq dq /\ UNCHANGED <<groundVars, history>>
<1>1. GroundStart => G BY <1>0, StartEffect DEF GroundStart
<1>2. GroundReceive => G BY <1>0, GroundMessageEffect DEF GroundReceive
<1>3. GroundTick => G BY <1>0, GroundTickEffect DEF GroundTick
<1>4. GroundRetune => G BY <1>0, GroundRetuneEffect DEF GroundRetune
<1>5. HearVideo => G BY <1>0, HearEffect DEF HearVideo
<1>6. HearMarker => G BY <1>0, HearEffect DEF HearMarker
<1>7. DroneReceive => D BY <1>0, DroneMessageEffect DEF DroneReceive
<1>8. DroneTick => D BY <1>0, DroneTickEffect DEF DroneTick
<1>9. DroneHost => D
  <2>1. DroneHost => DroneEffect BY <1>0, DroneHostEffect
  <2> QED BY <2>1 DEF DroneHost
<1>10. UNCHANGED drone => DroneEffect
  <2>1. Quiet(drone) BY DEF Quiet
  <2> QED BY <2>1, QuietEffect
<1>11. DrainStall => D BY <1>10 DEF DrainStall, medium
<1>12. DroneRestart => D
  <2> SUFFICES ASSUME DroneRestart PROVE D OBVIOUS
  <2>1. drone' = NewDrone(drone.epoch + 1) BY DEF DroneRestart, Drone_restart
  <2>2. Quiet(NewDrone(drone.epoch + 1)) BY DEF Quiet, NewDrone
  <2>3. DroneEffect BY <2>1, <2>2, QuietEffect
  <2> QED BY <2>3 DEF DroneRestart
<1>13. Lose => D BY <1>10 DEF Lose, droneVars
<1> HIDE DEF G, D
<1>14. G \/ D \/ GroundRestart \/ Tick
  BY <1>1, <1>2, <1>3, <1>4, <1>5, <1>6, <1>7, <1>8, <1>9, <1>11, <1>12, <1>13 DEF Next
<1> QED BY <1>14 DEF G, D

\* Time passing changes deadlines only.
LEMMA ElapseKeeps ==
    ASSUME TypeOK, Tick
    PROVE  /\ ground'.st = ground.st /\ ground'.epoch = ground.epoch
           /\ ground'.drone_nonce = ground.drone_nonce /\ ground'.gen = ground.gen
           /\ drone'.st = drone.st /\ drone'.armed = drone.armed
           /\ drone'.drone_nonce = drone.drone_nonce /\ drone'.gen = drone.gen
           /\ drone'.ground_epoch = drone.ground_epoch
           /\ dq' = dq /\ adopted' = adopted
<1>1. ground \in GroundType /\ drone \in DroneType BY DEF TypeOK
<1>2. /\ GroundElapse(ground).st = ground.st
      /\ GroundElapse(ground).epoch = ground.epoch
      /\ GroundElapse(ground).drone_nonce = ground.drone_nonce
      /\ GroundElapse(ground).gen = ground.gen
  BY <1>1 DEF GroundElapse, GroundType
<1>3. /\ DroneElapse(drone).st = drone.st
      /\ DroneElapse(drone).armed = drone.armed
      /\ DroneElapse(drone).drone_nonce = drone.drone_nonce
      /\ DroneElapse(drone).gen = drone.gen
      /\ DroneElapse(drone).ground_epoch = drone.ground_epoch
  BY <1>1 DEF DroneElapse, DroneType
<1> QED BY <1>2, <1>3 DEF Tick, medium, history

\* AckInv is inductive.
LEMMA NextAck == TypeOK /\ AckInv /\ [Next]_vars => AckInv'
<1> SUFFICES ASSUME TypeOK, AckInv, [Next]_vars PROVE AckInv' OBVIOUS
<1>1. CASE GroundRestart
  <2>1. ground'.st = "Stable"
    BY <1>1 DEF GroundRestart, Ground_restart, NewGround
  <2>2. dq' = dq /\ drone' = drone /\ adopted' = adopted
    BY <1>1 DEF GroundRestart, Ground_restart, droneVars, history
  <2> QED BY <2>1, <2>2 DEF AckInv, AcksAdopted, GroundAdopted, ArmedAdopted,
             ActivationNeedsNonce, NonceAdopted, Activated
<1>2. CASE Tick
  BY <1>2, ElapseKeeps DEF AckInv, AcksAdopted, GroundAdopted, ArmedAdopted,
     ActivationNeedsNonce, NonceAdopted, Activated
<1>3. CASE UNCHANGED vars
  BY <1>3 DEF vars, AckInv, AcksAdopted, GroundAdopted, ArmedAdopted,
     ActivationNeedsNonce, NonceAdopted, Activated
<1> QED BY <1>1, <1>2, <1>3, StepEffects, GroundKeepsAck, DroneKeepsAck

\* AckInv holds initially.
LEMMA InitAck == Init => AckInv
BY DEF Init, GroundInit, DroneInit, NewGround, NewDrone, AckInv, AcksAdopted,
   GroundAdopted, ArmedAdopted, ActivationNeedsNonce, Activated

(***************************************************************************)
(* Whatever is lost, duplicated or restarted, and however hosts and frames *)
(* interleave, the drone leaves its channel only on a commit that a ground *)
(* process adopted with the nonce and the generation the drone acts on     *)
(* (MigResponder::on_status, tick_committed).                              *)
(***************************************************************************)
THEOREM ActivationSafe == Spec => []ActivationNeedsNonce
<1>1. Init => TypeOK /\ AckInv BY InitType, InitAck
<1>2. (TypeOK /\ AckInv) /\ [Next]_vars => (TypeOK /\ AckInv)' BY NextType, NextAck
<1>3. TypeOK /\ AckInv => ActivationNeedsNonce BY DEF AckInv
<1> QED BY <1>1, <1>2, <1>3, PTL DEF Spec

\* Without restarts of the ground, OneGround is inductive.
LEMMA NextOneGround ==
    ASSUME MaxGroundRestarts = 0
    PROVE  TypeOK /\ OneGround /\ [Next]_vars => OneGround'
<1> SUFFICES ASSUME TypeOK, OneGround, [Next]_vars PROVE OneGround' OBVIOUS
<1>1. ~ GroundRestart
  <2>1. "ground" \in Faults BY DEF Faults
  <2>2. used["ground"] \in Nat BY <2>1 DEF TypeOK
  <2>3. Limit["ground"] = MaxGroundRestarts BY <2>1 DEF Limit
  <2> QED BY <2>2, <2>3 DEF GroundRestart, Spend
<1>2. CASE GroundEffect /\ Record /\ UNCHANGED droneVars
  <2>1. ground'.epoch = 1 BY <1>2 DEF OneGround, GroundEffect
  <2>2. \A m \in dq' : m.type = "PROPOSAL" => m.ground_epoch = 1
    BY <1>2 DEF OneGround, GroundEffect
  <2>3. \A x \in adopted' : x.ground_epoch = 1
    BY <1>2, <2>1 DEF OneGround, Record, GroundExchange
  <2>4. Engaged' => drone'.ground_epoch = 1
    BY <1>2 DEF OneGround, Engaged, droneVars
  <2> QED BY <2>1, <2>2, <2>3, <2>4 DEF OneGround
<1>3. CASE DroneEffect /\ dq' \subseteq dq /\ UNCHANGED <<groundVars, history>>
  <2>1. Engaged' => drone'.ground_epoch = 1 BY <1>3 DEF OneGround, DroneEffect
  <2> QED BY <1>3, <2>1 DEF OneGround, groundVars, history
<1>4. CASE Tick BY <1>4, ElapseKeeps DEF OneGround, Engaged
<1>5. CASE UNCHANGED vars BY <1>5 DEF vars, OneGround, Engaged
<1> QED BY <1>1, <1>2, <1>3, <1>4, <1>5, StepEffects

\* With one ground epoch, the nonce identifies the exchange.
LEMMA OneGroundSuffices == AckInv /\ OneGround /\ TypeOK => NeverActivatedUnheard
<1> SUFFICES ASSUME AckInv, OneGround, TypeOK, Activated
             PROVE  DroneExchange(drone) \in adopted
  BY DEF NeverActivatedUnheard
<1>1. PICK x \in adopted : x.drone_nonce = drone.drone_nonce /\ x.generation = drone.gen
  BY DEF AckInv, ActivationNeedsNonce
<1>2. x \in Exchange BY DEF TypeOK
<1>3. x.ground_epoch = 1 /\ drone.ground_epoch = 1
  BY DEF OneGround, Engaged, Activated
<1>4. x = DroneExchange(drone) BY <1>1, <1>2, <1>3 DEF Exchange, DroneExchange
<1> QED BY <1>1, <1>4

(***************************************************************************)
(* "A commit the current ground never heard is never activated" holds for  *)
(* a ground process that does not restart, for any number of channels,     *)
(* migrations, losses, duplicates and drone restarts: the exchange the     *)
(* drone acts on is one that this ground process adopted.                  *)
(***************************************************************************)
THEOREM NeverUnheard ==
    ASSUME MaxGroundRestarts = 0
    PROVE  Spec => []NeverActivatedUnheard
<1>1. Init => TypeOK /\ AckInv /\ OneGround
  <2>1. Init => OneGround
    BY DEF Init, GroundInit, DroneInit, NewGround, NewDrone, OneGround, Engaged
  <2> QED BY <2>1, InitType, InitAck
<1>2. (TypeOK /\ AckInv /\ OneGround) /\ [Next]_vars => (TypeOK /\ AckInv /\ OneGround)'
  BY NextType, NextAck, NextOneGround
<1>3. TypeOK /\ AckInv /\ OneGround => NeverActivatedUnheard BY OneGroundSuffices
<1> QED BY <1>1, <1>2, <1>3, PTL DEF Spec

------------------------------------------------------------------------------
(***************************************************************************)
(* The steps of the drone, member by member.  What follows lists for every *)
(* handler of MigResponder what it does to the members the remaining       *)
(* invariants speak of, to the host operations and to the air.             *)
(***************************************************************************)

\* The drone stays in its exchange.
KeepsExchange ==
    /\ drone'.epoch = drone.epoch /\ drone'.gen = drone.gen
    /\ drone'.ground_epoch = drone.ground_epoch
    /\ drone'.commit_target = drone.commit_target
    /\ drone'.commit_source = drone.commit_source
    /\ drone'.commit_rescue = drone.commit_rescue
    /\ drone'.fallback_mode = drone.fallback_mode

\* The replay window forgets and learns nothing but the exchange in flight.
KeepsWindow ==
    /\ drone'.rw.have_peer = drone.rw.have_peer
    /\ drone'.rw.peer_epoch = drone.rw.peer_epoch
    /\ drone'.rw.max_gen = drone.rw.max_gen

KeepsNonce == drone'.drone_nonce = drone.drone_nonce
KeepsMarkers == drone'.markers_on = drone.markers_on

KeepsAll == KeepsExchange /\ KeepsWindow /\ KeepsNonce

Goes(st, phase, pp, current) ==
    /\ drone'.st = st /\ drone'.phase = phase /\ drone'.pp = pp
    /\ drone'.current = current

\* The frames of ms, or some of them, join the ones waiting for the ground.
Airs(ms) == \A m \in gq' : m \in gq \/ m \in ms

\* The radio stays and the operations ops are asked for.
Asks(ops) == dtodo' = dtodo \o ops /\ dradio' = dradio

\* The first operation asked for is done; the radio is on ch, ops are asked for.
Performs(ch, ops) ==
    /\ dtodo # <<>>
    /\ dtodo' = Tail(dtodo) \o ops /\ dradio' = ch

\* drone_do airs and asks for what the handler hands it.
LEMMA DoFields ==
    ASSUME NEW d, NEW ms, NEW ops, drone_do(d, ms, ops)
    PROVE  drone' = d /\ Airs(ms) /\ Asks(ops)
BY DEF drone_do, Airs, Asks, Heard

\* A host operation airs and asks for what its callback hands back.
LEMMA HostFields ==
    ASSUME NEW d, NEW ch, NEW ms, NEW ops, dtodo # <<>>, HostDoes(d, ch, ms, ops)
    PROVE  drone' = d /\ Airs(ms) /\ Performs(ch, ops)
BY DEF HostDoes, Airs, Performs

\* What the operations of struct ReplayWindow do to its members.
LEMMA WindowFields ==
    ASSUME NEW rw \in ReplayWindow, NEW e \in Epochs, NEW n \in Gens
    PROVE  /\ take_generation(rw, n).have_peer = rw.have_peer
           /\ take_generation(rw, n).peer_epoch = rw.peer_epoch
           /\ take_generation(rw, n).max_gen = n
           /\ clear_in_flight(rw).have_peer = rw.have_peer
           /\ clear_in_flight(rw).peer_epoch = rw.peer_epoch
           /\ clear_in_flight(rw).max_gen = rw.max_gen
           /\ accept_epoch(rw, e).have_peer = TRUE
           /\ accept_epoch(rw, e).peer_epoch = e
           /\ accept_epoch(rw, e).max_gen =
                IF rw.have_peer /\ e = rw.peer_epoch THEN rw.max_gen ELSE 0
BY DEF ReplayWindow, take_generation, clear_in_flight, accept_epoch

\* clear_in_flight forgets the exchange in flight and nothing else.
LEMMA ClearFields ==
    ASSUME NEW rw \in ReplayWindow
    PROVE  /\ clear_in_flight(rw).have_peer = rw.have_peer
           /\ clear_in_flight(rw).peer_epoch = rw.peer_epoch
           /\ clear_in_flight(rw).max_gen = rw.max_gen
BY DEF ReplayWindow, clear_in_flight

\* A drone that changes nothing but deadlines and whether it is armed.
Idles ==
    /\ KeepsAll /\ KeepsMarkers
    /\ Goes(drone.st, drone.phase, drone.pp, drone.current)

\* on_confirm: the ground has proved the target, the drone settles there.
Settles(m) ==
    /\ m.type = "CONFIRM" /\ ConfirmMatches(m)
    /\ KeepsAll /\ drone'.markers_on = FALSE
    /\ Goes("Stable", drone.phase, drone.pp, drone.commit_target)

\* on_status and on_confirm, member by member.
LEMMA AnswerFields ==
    ASSUME drone \in DroneType, NEW m, Drone_on_message(m), m.type # "PROPOSAL"
    PROVE  ((Idles \/ Settles(m)) /\ Airs({}) /\ Asks(<<>>)) \/ DroneIgnores
<1>1. CASE drone_do([drone EXCEPT !.armed = TRUE], {}, <<>>)
  <2>1. drone' = [drone EXCEPT !.armed = TRUE] /\ Airs({}) /\ Asks(<<>>)
    BY <1>1, DoFields
  <2>2. Idles
    BY <2>1 DEF Idles, KeepsAll, KeepsExchange, KeepsWindow, KeepsNonce,
       KeepsMarkers, Goes, DroneType
  <2> QED BY <2>1, <2>2
<1>2. CASE m.type = "CONFIRM" /\ ConfirmMatches(m) /\ Drone_on_confirm(m)
  <2> DEFINE d == [drone EXCEPT !.st = "Stable", !.current = drone.commit_target,
                                !.settle_status = SettleStatus,
                                !.next_status = 0, !.markers_on = FALSE]
  <2>1. drone_do(d, {}, <<>>) BY <1>2 DEF Drone_on_confirm
  <2>2. drone' = d /\ Airs({}) /\ Asks(<<>>) BY <2>1, DoFields
  <2>3. Settles(m)
    BY <1>2, <2>2 DEF Settles, KeepsAll, KeepsExchange, KeepsWindow, KeepsNonce,
       Goes, DroneType
  <2> QED BY <2>2, <2>3
<1> QED BY <1>1, <1>2 DEF Drone_on_message, Drone_on_status, Drone_on_confirm

\* The generations the drone has seen from the epoch of m, before m.
SeenBefore(m) ==
    IF drone.rw.have_peer /\ m.ground_epoch = drone.rw.peer_epoch
    THEN drone.rw.max_gen ELSE 0

\* The window after a proposal of this epoch: n is the newest generation of it.
Window(m, n) ==
    /\ drone'.rw.have_peer = TRUE
    /\ drone'.rw.peer_epoch = m.ground_epoch
    /\ drone'.rw.max_gen = n

\* The state a proposal finds: an orphaned migration is over.
Found(m) == IF EpochChange(m) THEN "Stable" ELSE drone.st
FoundPhase(m) == IF EpochChange(m) THEN "None" ELSE drone.phase

\* The epoch of the ground changed after the drone left its source.
Strays(m) ==
    /\ EpochChange(m) /\ KeepsExchange /\ KeepsNonce /\ KeepsMarkers
    /\ Window(m, SeenBefore(m))
    /\ Goes("Rollback", "None", drone.pp, drone.current)
    /\ Airs({})
    /\ Asks(RetuneThenSend(drone.commit_source,
                           status_reject(drone, m.generation, "Busy")))

\* A proposal seen before: at most the commit is repeated.
Repeated(m) ==
    /\ KeepsExchange /\ KeepsNonce /\ KeepsMarkers
    /\ Window(m, SeenBefore(m))
    /\ Goes(Found(m), FoundPhase(m), drone.pp, drone.current)
    /\ Airs(IF drone'.st = "Committed" THEN {make_commit(drone')} ELSE {})
    /\ Asks(<<>>)

\* A new proposal that is refused.
Refuses(m) ==
    /\ KeepsExchange /\ KeepsNonce /\ KeepsMarkers
    /\ m.generation > SeenBefore(m) /\ Window(m, m.generation)
    /\ Goes(Found(m), FoundPhase(m), drone.pp, drone.current)
    /\ \E why \in Reasons : Airs({status_reject(drone, m.generation, why)})
    /\ Asks(<<>>)

\* A new proposal that is taken up, with a probe of the target or without.
Begins(m) ==
    /\ m.generation > SeenBefore(m) /\ Window(m, m.generation)
    /\ Found(m) = "Stable" /\ m.source = drone.current
    /\ drone'.epoch = drone.epoch /\ drone'.gen = m.generation
    /\ drone'.ground_epoch = m.ground_epoch
    /\ drone'.commit_target = m.target /\ drone'.commit_source = m.source
    /\ drone'.commit_rescue = m.rescue /\ drone'.fallback_mode = m.fallback_mode
    /\ \/ /\ Goes("Validating", FoundPhase(m), "Drain", drone.current)
          /\ Airs({}) /\ Asks(StartDrain)
       \/ /\ Goes("Committed", FoundPhase(m), drone.pp, drone.current)
          /\ drone'.drone_nonce = DroneNonce(drone.epoch, m.generation)
          /\ Airs({make_commit(drone')}) /\ Asks(<<>>)
    /\ KeepsMarkers

\* The drone a proposal is decided with, member by member.
LEMMA ReconsideredFields ==
    ASSUME drone \in DroneType, NEW m \in Proposals
    PROVE  LET d == Reconsidered(m)
           IN  /\ d \in DroneType
               /\ d.st = Found(m) /\ d.phase = FoundPhase(m)
               /\ d.pp = drone.pp /\ d.current = drone.current
               /\ d.epoch = drone.epoch /\ d.gen = drone.gen
               /\ d.ground_epoch = drone.ground_epoch
               /\ d.ground_nonce = drone.ground_nonce
               /\ d.drone_nonce = drone.drone_nonce
               /\ d.commit_target = drone.commit_target
               /\ d.commit_source = drone.commit_source
               /\ d.commit_rescue = drone.commit_rescue
               /\ d.fallback_mode = drone.fallback_mode
               /\ d.markers_on = drone.markers_on
               /\ d.rw = accept_epoch(drone.rw, m.ground_epoch)
               /\ d.rw \in ReplayWindow
<1> DEFINE o == [drone EXCEPT !.phase = "None", !.st = "Stable"]
           rw == accept_epoch(drone.rw, m.ground_epoch)
           d == Reconsidered(m)
<1>1. m.ground_epoch \in Epochs /\ drone.rw \in ReplayWindow
  BY DEF Proposals, DroneType
<1>2. rw \in ReplayWindow BY <1>1, ZeroType, WindowType
<1>3. o \in DroneType BY Zenon DEF DroneType, DroneStates, Phases
<1>4. o.rw = drone.rw BY DEF DroneType
<1>5. d = IF EpochChange(m) THEN [o EXCEPT !.rw = rw] ELSE [drone EXCEPT !.rw = rw]
  BY <1>4 DEF Reconsidered
<1>6. d \in DroneType BY <1>2, <1>3, <1>5, DroneWindowType
<1> HIDE DEF rw
<1> QED BY <1>2, <1>5, <1>6 DEF Found, FoundPhase, DroneType, rw

\* The newest generation the drone knows of the epoch of a proposal.
LEMMA SeenFields ==
    ASSUME drone \in DroneType, NEW m \in Proposals
    PROVE  LET rw == accept_epoch(drone.rw, m.ground_epoch)
           IN  /\ rw.have_peer = TRUE /\ rw.peer_epoch = m.ground_epoch
               /\ rw.max_gen = SeenBefore(m)
               /\ classify_proposal(rw, m.generation) = "fresh"
                    => m.generation > SeenBefore(m)
<1>1. m.ground_epoch \in Epochs /\ drone.rw \in ReplayWindow /\ m.generation \in Nat
  BY DEF Proposals, DroneType, Gens
<1> DEFINE rw == accept_epoch(drone.rw, m.ground_epoch)
<1>2. /\ rw.have_peer = TRUE /\ rw.peer_epoch = m.ground_epoch
      /\ rw.max_gen = SeenBefore(m)
  BY ZenonT(60), <1>1, ZeroType, WindowFields DEF SeenBefore
<1>3. SeenBefore(m) \in Nat BY <1>1 DEF SeenBefore, ReplayWindow, Gens
<1> HIDE DEF rw
<1>4. classify_proposal(rw, m.generation) = "fresh" => m.generation > SeenBefore(m)
  BY <1>1, <1>2, <1>3 DEF classify_proposal
<1> QED BY <1>2, <1>4 DEF rw

\* The fresh case of on_proposal, member by member.
LEMMA FreshFields ==
    ASSUME drone \in DroneType, NEW m \in Proposals,
           FreshProposal(Reconsidered(m), m),
           classify_proposal(accept_epoch(drone.rw, m.ground_epoch), m.generation)
             = "fresh"
    PROVE  Refuses(m) \/ Begins(m)
<1> DEFINE d == Reconsidered(m)
           taken == [d EXCEPT !.rw = take_generation(@, m.generation)]
           why   == RefusalOf(d, m)
           s     == StashProposal(taken, m)
           refused == [taken EXCEPT !.rw = clear_in_flight(@)]
<1>1. FreshProposal(d, m) OBVIOUS
<1>2. m.generation \in Gens BY DEF Proposals
<1>3. /\ d \in DroneType
      /\ d.st = Found(m) /\ d.phase = FoundPhase(m)
      /\ d.pp = drone.pp /\ d.current = drone.current
      /\ d.epoch = drone.epoch /\ d.gen = drone.gen
      /\ d.ground_epoch = drone.ground_epoch
      /\ d.drone_nonce = drone.drone_nonce
      /\ d.commit_target = drone.commit_target
      /\ d.commit_source = drone.commit_source
      /\ d.commit_rescue = drone.commit_rescue
      /\ d.fallback_mode = drone.fallback_mode
      /\ d.markers_on = drone.markers_on
      /\ d.rw = accept_epoch(drone.rw, m.ground_epoch)
      /\ d.rw \in ReplayWindow
  BY ReconsideredFields
<1>4. /\ d.rw.have_peer = TRUE /\ d.rw.peer_epoch = m.ground_epoch
      /\ m.generation > SeenBefore(m)
  BY <1>3, SeenFields
<1> HIDE DEF d
<1> DEFINE tw == take_generation(d.rw, m.generation)
<1>5. /\ tw \in ReplayWindow /\ tw.have_peer = TRUE
      /\ tw.peer_epoch = m.ground_epoch /\ tw.max_gen = m.generation
  BY <1>2, <1>3, <1>4, ZeroType, WindowType, WindowFields
<1>6. /\ taken \in DroneType /\ taken.rw = tw
  BY <1>3, <1>5, DroneWindowType DEF DroneType
<1>7. /\ taken.st = d.st /\ taken.phase = d.phase /\ taken.pp = d.pp
      /\ taken.current = d.current /\ taken.epoch = d.epoch /\ taken.gen = d.gen
      /\ taken.ground_epoch = d.ground_epoch
      /\ taken.drone_nonce = d.drone_nonce
      /\ taken.commit_target = d.commit_target
      /\ taken.commit_source = d.commit_source
      /\ taken.commit_rescue = d.commit_rescue
      /\ taken.fallback_mode = d.fallback_mode
      /\ taken.markers_on = d.markers_on
  BY <1>3 DEF DroneType
<1>8. why \in Reasons BY DEF RefusalOf, validate_target, Reasons
<1>9. \/ why # "None" /\ drone_do(refused, {status_reject(taken, m.generation, why)}, <<>>)
      \/ why = "None" /\ drone_do(enter_probe(s), {}, StartDrain)
      \/ why = "None" /\ drone_do(enter_committed(s), {make_commit(enter_committed(s))}, <<>>)
  BY <1>1 DEF FreshProposal
<1>10. why = "None" => d.st = "Stable" /\ m.source = d.current
  BY DEF RefusalOf, validate_target
<1> HIDE DEF taken, why, tw
<1>11. CASE drone_do(refused, {status_reject(taken, m.generation, why)}, <<>>)
  <2> DEFINE cw == clear_in_flight(tw)
  <2>1. /\ cw.have_peer = TRUE /\ cw.peer_epoch = m.ground_epoch
        /\ cw.max_gen = m.generation
    BY <1>2, <1>5, ZeroType, WindowFields
  <2>2. refused = [taken EXCEPT !.rw = cw] BY <1>6 DEF DroneType
  <2> HIDE DEF cw
  <2>3. /\ drone' = refused /\ Airs({status_reject(taken, m.generation, why)})
        /\ Asks(<<>>)
    BY <1>11, DoFields
  <2>4. status_reject(taken, m.generation, why) = status_reject(drone, m.generation, why)
    BY <1>3, <1>7 DEF status_reject
  <2>5. /\ refused.st = d.st /\ refused.phase = d.phase /\ refused.pp = d.pp
        /\ refused.current = d.current /\ refused.epoch = d.epoch
        /\ refused.gen = d.gen /\ refused.ground_epoch = d.ground_epoch
        /\ refused.drone_nonce = d.drone_nonce
        /\ refused.commit_target = d.commit_target
        /\ refused.commit_source = d.commit_source
        /\ refused.commit_rescue = d.commit_rescue
        /\ refused.fallback_mode = d.fallback_mode
        /\ refused.markers_on = d.markers_on /\ refused.rw = cw
    BY <1>6, <1>7, <2>2 DEF DroneType
  <2> HIDE DEF refused
  <2> QED BY <1>3, <1>4, <1>8, <2>1, <2>3, <2>4, <2>5
          DEF Refuses, KeepsExchange, KeepsNonce, KeepsMarkers, Window, Goes
<1>12. /\ s \in DroneType
       /\ s.gen = m.generation /\ s.ground_epoch = m.ground_epoch
       /\ s.commit_target = m.target /\ s.commit_source = m.source
       /\ s.commit_rescue = m.rescue /\ s.fallback_mode = m.fallback_mode
       /\ s.epoch = taken.epoch /\ s.phase = taken.phase /\ s.pp = taken.pp
       /\ s.current = taken.current /\ s.rw = taken.rw
       /\ s.markers_on = taken.markers_on
  BY ZenonT(60), <1>6, StashType DEF StashProposal, DroneType
<1> HIDE DEF s
<1>13. CASE why = "None" /\ drone_do(enter_probe(s), {}, StartDrain)
  <2> DEFINE e == enter_probe(s)
  <2>1. drone' = e /\ Airs({}) /\ Asks(StartDrain) BY <1>13, DoFields
  <2>2. /\ e.gen = s.gen /\ e.ground_epoch = s.ground_epoch
        /\ e.commit_target = s.commit_target /\ e.commit_source = s.commit_source
        /\ e.commit_rescue = s.commit_rescue /\ e.fallback_mode = s.fallback_mode
        /\ e.epoch = s.epoch /\ e.phase = s.phase /\ e.pp = "Drain"
        /\ e.st = "Validating"
        /\ e.current = s.current /\ e.rw = s.rw /\ e.markers_on = s.markers_on
    BY <1>12 DEF enter_probe, DroneType
  <2> HIDE DEF e
  <2> QED BY <1>3, <1>4, <1>5, <1>6, <1>7, <1>10, <1>12, <1>13, <2>1, <2>2
          DEF Begins, KeepsMarkers, Window, Goes
<1>14. CASE why = "None" /\ drone_do(enter_committed(s), {make_commit(enter_committed(s))}, <<>>)
  <2> DEFINE e == enter_committed(s)
  <2>1. drone' = e /\ Airs({make_commit(e)}) /\ Asks(<<>>) BY <1>14, DoFields
  <2>2. /\ e.gen = s.gen /\ e.ground_epoch = s.ground_epoch
        /\ e.commit_target = s.commit_target /\ e.commit_source = s.commit_source
        /\ e.commit_rescue = s.commit_rescue /\ e.fallback_mode = s.fallback_mode
        /\ e.epoch = s.epoch /\ e.phase = s.phase /\ e.pp = s.pp
        /\ e.st = "Committed" /\ e.drone_nonce = DroneNonce(s.epoch, s.gen)
        /\ e.current = s.current /\ e.rw = s.rw /\ e.markers_on = s.markers_on
    BY <1>12 DEF enter_committed, DroneType
  <2> HIDE DEF e
  <2> QED BY <1>3, <1>4, <1>5, <1>6, <1>7, <1>10, <1>12, <1>14, <2>1, <2>2
          DEF Begins, KeepsMarkers, Window, Goes
<1> QED BY <1>9, <1>11, <1>13, <1>14

\* on_proposal, member by member.
LEMMA ProposalFields ==
    ASSUME drone \in DroneType, NEW m \in Proposals, Drone_on_proposal(m)
    PROVE  Strays(m) \/ Repeated(m) \/ Refuses(m) \/ Begins(m)
<1> DEFINE d == Reconsidered(m)
           ow == clear_in_flight(accept_epoch(drone.rw, m.ground_epoch))
           orphan == [drone EXCEPT !.phase = "None", !.st = "Rollback",
                        !.rw = clear_in_flight(accept_epoch(@, m.ground_epoch))]
           op == RetuneThenSend(drone.commit_source,
                                status_reject(drone, m.generation, "Busy"))
           again == IF d.st = "Committed" THEN {make_commit(d)} ELSE {}
           cls == classify_proposal(d.rw, m.generation)
<1>1. \/ EpochChange(m) /\ drone_do(orphan, {}, op)
      \/ drone_do(d, {}, <<>>)
      \/ drone_do(d, again, <<>>)
      \/ cls = "fresh" /\ FreshProposal(d, m)
  BY DEF Drone_on_proposal
<1>2. /\ d.st = Found(m) /\ d.phase = FoundPhase(m)
      /\ d.pp = drone.pp /\ d.current = drone.current
      /\ d.epoch = drone.epoch /\ d.gen = drone.gen
      /\ d.ground_epoch = drone.ground_epoch
      /\ d.drone_nonce = drone.drone_nonce
      /\ d.commit_target = drone.commit_target
      /\ d.commit_source = drone.commit_source
      /\ d.commit_rescue = drone.commit_rescue
      /\ d.fallback_mode = drone.fallback_mode
      /\ d.markers_on = drone.markers_on
      /\ d.rw = accept_epoch(drone.rw, m.ground_epoch)
      /\ d.rw \in ReplayWindow
  BY ReconsideredFields
<1>3. /\ d.rw.have_peer = TRUE /\ d.rw.peer_epoch = m.ground_epoch
      /\ d.rw.max_gen = SeenBefore(m)
  BY <1>2, SeenFields
<1>4. CASE EpochChange(m) /\ drone_do(orphan, {}, op)
  <2>1. drone' = orphan /\ Airs({}) /\ Asks(op) BY <1>4, DoFields
  <2>2. orphan = [drone EXCEPT !.phase = "None", !.st = "Rollback", !.rw = ow]
    BY DEF DroneType
  <2> DEFINE aw == accept_epoch(drone.rw, m.ground_epoch)
  <2>3. /\ ow.have_peer = TRUE /\ ow.peer_epoch = m.ground_epoch
        /\ ow.max_gen = SeenBefore(m)
    <3>1. /\ aw \in ReplayWindow /\ aw.have_peer = TRUE
          /\ aw.peer_epoch = m.ground_epoch /\ aw.max_gen = SeenBefore(m)
      BY <1>2, <1>3
    <3>2. ow = clear_in_flight(aw) OBVIOUS
    <3> HIDE DEF aw, ow
    <3> QED BY <3>1, <3>2, ZeroType, WindowFields
  <2> HIDE DEF ow
  <2>4. /\ orphan.st = "Rollback" /\ orphan.phase = "None" /\ orphan.rw = ow
        /\ orphan.pp = drone.pp /\ orphan.current = drone.current
        /\ orphan.epoch = drone.epoch /\ orphan.gen = drone.gen
        /\ orphan.ground_epoch = drone.ground_epoch
        /\ orphan.drone_nonce = drone.drone_nonce
        /\ orphan.commit_target = drone.commit_target
        /\ orphan.commit_source = drone.commit_source
        /\ orphan.commit_rescue = drone.commit_rescue
        /\ orphan.fallback_mode = drone.fallback_mode
        /\ orphan.markers_on = drone.markers_on
    BY <2>2 DEF DroneType
  <2> HIDE DEF orphan
  <2>5. Strays(m)
    BY <1>4, <2>1, <2>3, <2>4 DEF Strays, KeepsExchange, KeepsNonce, KeepsMarkers,
       Window, Goes
  <2> QED BY <2>5
<1>5. CASE drone_do(d, {}, <<>>) \/ drone_do(d, again, <<>>)
  <2>1. /\ drone' = d /\ Asks(<<>>)
        /\ Airs(IF d.st = "Committed" THEN {make_commit(d)} ELSE {})
    <3>1. CASE drone_do(d, {}, <<>>) BY <3>1, DoFields DEF Airs
    <3>2. CASE drone_do(d, again, <<>>) BY <3>2, DoFields
    <3> QED BY <1>5, <3>1, <3>2
  <2> HIDE DEF d
  <2>2. Repeated(m)
    BY <1>2, <1>3, <2>1 DEF Repeated, KeepsExchange, KeepsNonce, KeepsMarkers,
       Window, Goes
  <2> QED BY <2>2
<1>6. CASE cls = "fresh" /\ FreshProposal(d, m) BY <1>2, <1>6, FreshFields
<1> QED BY <1>1, <1>4, <1>5, <1>6

\* The acknowledgement never came: the exchange is given up.
GivesUp ==
    /\ drone.st = "Committed" /\ KeepsAll /\ KeepsMarkers
    /\ Goes("Stable", drone.phase, drone.pp, drone.current)
    /\ Airs({make_status(drone), abort_msg(drone, 0)}) /\ Asks(<<>>)

\* The periodic status, and the commit again.
Reports ==
    /\ Idles
    /\ Airs({make_status(drone)}
              \cup IF drone.st = "Committed" THEN {make_commit(drone)} ELSE {})
    /\ Asks(<<>>)

\* The activation instant has come: drain.
Leaves ==
    /\ drone.st = "Committed" /\ KeepsAll /\ KeepsMarkers
    /\ Goes("Switching", "Draining", drone.pp, drone.current)
    /\ Airs({make_status(drone), make_commit(drone)}) /\ Asks(StartDrain)

\* The drain took too long: tune anyway.
TunesAnyway ==
    /\ drone.st = "Switching" /\ drone.phase = "Draining" /\ KeepsAll /\ KeepsMarkers
    /\ Goes("Switching", "Retuning", drone.pp, drone.current)
    /\ Airs({make_status(drone)}) /\ Asks(retune(drone.commit_target))

\* Nobody confirmed the target: go back.
GoesBack ==
    /\ drone.st = "Verifying" /\ KeepsAll /\ drone'.markers_on = FALSE
    /\ Goes("Rollback", drone.phase, drone.pp, drone.current)
    /\ Airs({make_status(drone)}) /\ Asks(retune(fallback_channel(drone)))

\* on_tick, member by member.
LEMMA DroneTickFields ==
    ASSUME drone \in DroneType, Drone_on_tick
    PROVE  GivesUp \/ Reports \/ Leaves \/ TunesAnyway \/ GoesBack
<1> USE DEF KeepsAll, KeepsExchange, KeepsWindow, KeepsNonce, KeepsMarkers, Goes
<1> DEFINE a == AfterStatus
<1>1. a \in DroneType BY AfterStatusType
<1>2. /\ a.epoch = drone.epoch /\ a.gen = drone.gen
      /\ a.ground_epoch = drone.ground_epoch
      /\ a.commit_target = drone.commit_target
      /\ a.commit_source = drone.commit_source
      /\ a.commit_rescue = drone.commit_rescue
      /\ a.fallback_mode = drone.fallback_mode
      /\ a.rw = drone.rw /\ a.drone_nonce = drone.drone_nonce
      /\ a.markers_on = drone.markers_on
      /\ a.st = drone.st /\ a.phase = drone.phase /\ a.pp = drone.pp
      /\ a.current = drone.current
  BY DEF AfterStatus, DroneType
<1>3. StatusMsgs \subseteq {make_status(drone)} BY DEF StatusMsgs
<1>4. ASSUME NEW ms, NEW ns, Airs(ms), ms \subseteq ns PROVE Airs(ns)
  BY <1>4 DEF Airs
<1> HIDE DEF a
<1>5. CASE GiveUpUnheard
  <2> DEFINE cw == clear_in_flight(a.rw)
             d == [a EXCEPT !.st = "Stable", !.settle_status = SettleStatus,
                            !.next_status = 0, !.rw = clear_in_flight(@)]
  <2>1. drone_do(d, StatusMsgs \cup {abort_msg(drone, 0)}, <<>>)
    BY <1>5 DEF GiveUpUnheard, a
  <2>2. drone' = d /\ Airs(StatusMsgs \cup {abort_msg(drone, 0)}) /\ Asks(<<>>)
    BY <2>1, DoFields
  <2>3. Airs({make_status(drone), abort_msg(drone, 0)})
    <3>1. StatusMsgs \cup {abort_msg(drone, 0)}
             \subseteq {make_status(drone), abort_msg(drone, 0)}
      BY <1>3
    <3> QED BY <1>4, <2>2, <3>1
  <2>4. /\ cw.have_peer = drone.rw.have_peer
        /\ cw.peer_epoch = drone.rw.peer_epoch
        /\ cw.max_gen = drone.rw.max_gen
    <3>1. a.rw \in ReplayWindow BY <1>1 DEF DroneType
    <3>2. /\ cw.have_peer = a.rw.have_peer /\ cw.peer_epoch = a.rw.peer_epoch
          /\ cw.max_gen = a.rw.max_gen
      BY <3>1, ClearFields
    <3> QED BY <1>2, <3>2
  <2>5. d = [a EXCEPT !.st = "Stable", !.settle_status = SettleStatus,
                      !.next_status = 0, !.rw = cw]
    BY DEF DroneType
  <2> HIDE DEF cw
  <2>6. /\ d.epoch = a.epoch /\ d.gen = a.gen /\ d.ground_epoch = a.ground_epoch
        /\ d.commit_target = a.commit_target /\ d.commit_source = a.commit_source
        /\ d.commit_rescue = a.commit_rescue /\ d.fallback_mode = a.fallback_mode
        /\ d.rw = cw /\ d.drone_nonce = a.drone_nonce
        /\ d.markers_on = a.markers_on
        /\ d.st = "Stable" /\ d.phase = a.phase /\ d.pp = a.pp
        /\ d.current = a.current
    BY <1>1, <2>5 DEF DroneType
  <2> HIDE DEF d
  <2>7. drone.st = "Committed" BY <1>5 DEF GiveUpUnheard, NoAckDue
  <2>8. GivesUp BY <1>2, <2>2, <2>3, <2>4, <2>6, <2>7 DEF GivesUp
  <2> QED BY <2>8
<1>6. CASE RepeatOrSwitch
  <2> DEFINE r == IF RepeatDue THEN [a EXCEPT !.next_commit = CommitInterval] ELSE a
             d == [r EXCEPT !.st = "Switching", !.phase = "Draining",
                            !.pump_on = FALSE, !.drain_deadline = DrainDeadline]
             ms == StatusMsgs \cup IF RepeatDue THEN {make_commit(drone)} ELSE {}
  <2>1. IF SwitchDue THEN drone_do(d, ms, StartDrain) ELSE drone_do(r, ms, <<>>)
    BY <1>6 DEF RepeatOrSwitch, a
  <2>2. r \in DroneType BY <1>1, TimerParams, Zenon DEF DroneType
  <2>3. /\ r.epoch = a.epoch /\ r.gen = a.gen /\ r.ground_epoch = a.ground_epoch
        /\ r.commit_target = a.commit_target /\ r.commit_source = a.commit_source
        /\ r.commit_rescue = a.commit_rescue /\ r.fallback_mode = a.fallback_mode
        /\ r.rw = a.rw /\ r.drone_nonce = a.drone_nonce
        /\ r.markers_on = a.markers_on
        /\ r.st = a.st /\ r.phase = a.phase /\ r.pp = a.pp /\ r.current = a.current
    BY <1>1 DEF DroneType
  <2> HIDE DEF r
  <2>4. drone.st = "Committed" BY <1>6 DEF RepeatOrSwitch, RepeatDue, SwitchDue
  <2>5. ms \subseteq {make_status(drone), make_commit(drone)} BY <1>3
  <2> HIDE DEF ms
  <2>6. CASE SwitchDue
    <3>1. drone' = d /\ Airs(ms) /\ Asks(StartDrain) BY <2>1, <2>6, DoFields
    <3>2. /\ d.epoch = r.epoch /\ d.gen = r.gen /\ d.ground_epoch = r.ground_epoch
          /\ d.commit_target = r.commit_target /\ d.commit_source = r.commit_source
          /\ d.commit_rescue = r.commit_rescue /\ d.fallback_mode = r.fallback_mode
          /\ d.rw = r.rw /\ d.drone_nonce = r.drone_nonce
          /\ d.markers_on = r.markers_on
          /\ d.st = "Switching" /\ d.phase = "Draining" /\ d.pp = r.pp
          /\ d.current = r.current
      BY <2>2 DEF DroneType
    <3> HIDE DEF d
    <3>3. Airs({make_status(drone), make_commit(drone)}) BY <1>4, <2>5, <3>1
    <3>4. Leaves BY <1>2, <2>3, <2>4, <3>1, <3>2, <3>3 DEF Leaves
    <3> QED BY <3>4
  <2>7. CASE ~ SwitchDue
    <3>1. drone' = r /\ Airs(ms) /\ Asks(<<>>) BY <2>1, <2>7, DoFields
    <3>2. Airs({make_status(drone)} \cup {make_commit(drone)})
      BY <1>4, <2>5, <3>1
    <3>3. Idles BY <1>2, <2>3, <3>1 DEF Idles
    <3>4. Reports BY <2>4, <3>1, <3>2, <3>3 DEF Reports
    <3> QED BY <3>4
  <2> QED BY <2>6, <2>7
<1>7. CASE DrainStalled
  <2> DEFINE d == [a EXCEPT !.phase = "Retuning"]
  <2>1. drone_do(d, StatusMsgs, retune(drone.commit_target))
    BY <1>7 DEF DrainStalled, a
  <2>2. drone' = d /\ Airs(StatusMsgs) /\ Asks(retune(drone.commit_target))
    BY <2>1, DoFields
  <2>3. /\ d.epoch = a.epoch /\ d.gen = a.gen /\ d.ground_epoch = a.ground_epoch
        /\ d.commit_target = a.commit_target /\ d.commit_source = a.commit_source
        /\ d.commit_rescue = a.commit_rescue /\ d.fallback_mode = a.fallback_mode
        /\ d.rw = a.rw /\ d.drone_nonce = a.drone_nonce
        /\ d.markers_on = a.markers_on
        /\ d.st = a.st /\ d.phase = "Retuning" /\ d.pp = a.pp
        /\ d.current = a.current
    BY <1>1 DEF DroneType
  <2> HIDE DEF d
  <2>4. drone.st = "Switching" /\ drone.phase = "Draining"
    BY <1>7 DEF DrainStalled, StallDue
  <2>5. Airs({make_status(drone)}) BY <1>3, <1>4, <2>2
  <2>6. TunesAnyway BY <1>2, <2>2, <2>3, <2>4, <2>5 DEF TunesAnyway
  <2> QED BY <2>6
<1>8. CASE RollBack
  <2> DEFINE d == [a EXCEPT !.st = "Rollback", !.markers_on = FALSE]
  <2>1. drone_do(d, StatusMsgs, retune(fallback_channel(drone)))
    BY <1>8 DEF RollBack, a
  <2>2. drone' = d /\ Airs(StatusMsgs) /\ Asks(retune(fallback_channel(drone)))
    BY <2>1, DoFields
  <2>3. /\ d.epoch = a.epoch /\ d.gen = a.gen /\ d.ground_epoch = a.ground_epoch
        /\ d.commit_target = a.commit_target /\ d.commit_source = a.commit_source
        /\ d.commit_rescue = a.commit_rescue /\ d.fallback_mode = a.fallback_mode
        /\ d.rw = a.rw /\ d.drone_nonce = a.drone_nonce
        /\ d.markers_on = FALSE
        /\ d.st = "Rollback" /\ d.phase = a.phase /\ d.pp = a.pp
        /\ d.current = a.current
    BY <1>1 DEF DroneType
  <2> HIDE DEF d
  <2>4. drone.st = "Verifying" BY <1>8 DEF RollBack, ExpiryDue
  <2>5. Airs({make_status(drone)}) BY <1>3, <1>4, <2>2
  <2>6. GoesBack BY <1>2, <2>2, <2>3, <2>4, <2>5 DEF GoesBack
  <2> QED BY <2>6
<1>9. CASE StatusOnly
  <2>1. drone_do(a, StatusMsgs, <<>>) BY <1>9 DEF StatusOnly, a
  <2>2. drone' = a /\ Airs(StatusMsgs) /\ Asks(<<>>) BY <2>1, DoFields
  <2>3. Airs({make_status(drone)}
              \cup IF drone.st = "Committed" THEN {make_commit(drone)} ELSE {})
    BY <1>3, <1>4, <2>2
  <2>4. Idles BY <1>2, <2>2 DEF Idles
  <2>5. Reports BY <2>2, <2>3, <2>4 DEF Reports
  <2> QED BY <2>5
<1> QED BY <1>5, <1>6, <1>7, <1>8, <1>9 DEF Drone_on_tick

\* The drain before an activation is done.
DrainedToSwitch ==
    /\ drone.st = "Switching" /\ drone.phase = "Draining"
    /\ KeepsAll /\ KeepsMarkers
    /\ Goes("Switching", "Retuning", drone.pp, drone.current)
    /\ Performs(dradio, retune(drone.commit_target))

\* The drain before a probe is done.
DrainedToProbe ==
    /\ drone.st = "Validating" /\ drone.pp = "Drain"
    /\ KeepsAll /\ KeepsMarkers
    /\ Goes("Validating", drone.phase, "Retune", drone.current)
    /\ Performs(dradio, retune(drone.commit_target))

\* A drain nobody waits for any more is done.
DrainedForNothing ==
    /\ ~ (drone.st = "Switching" /\ drone.phase = "Draining")
    /\ ~ (drone.st = "Validating" /\ drone.pp = "Drain")
    /\ Idles /\ Performs(dradio, <<>>)

\* on_drain_done, member by member.
LEMMA DrainFields ==
    ASSUME drone \in DroneType, on_drain_done
    PROVE  /\ dtodo # <<>> /\ Head(dtodo).op = "drain" /\ Airs({})
           /\ DrainedToSwitch \/ DrainedToProbe \/ DrainedForNothing
<1> USE DEF KeepsAll, KeepsExchange, KeepsWindow, KeepsNonce, KeepsMarkers, Goes
<1>0. dtodo # <<>> /\ Head(dtodo).op = "drain" BY DEF on_drain_done
<1>1. CASE /\ drone.st = "Switching" /\ drone.phase = "Draining"
           /\ HostDoes([drone EXCEPT !.phase = "Retuning"], dradio, {},
                       retune(drone.commit_target))
  <2>1. /\ drone' = [drone EXCEPT !.phase = "Retuning"] /\ Airs({})
        /\ Performs(dradio, retune(drone.commit_target))
    BY <1>0, <1>1, HostFields
  <2>2. DrainedToSwitch BY <1>1, <2>1 DEF DrainedToSwitch, DroneType
  <2> QED BY <1>0, <2>1, <2>2
<1>2. CASE /\ drone.st = "Validating" /\ drone.pp = "Drain"
           /\ HostDoes([drone EXCEPT !.pp = "Retune"], dradio, {},
                       retune(drone.commit_target))
  <2>1. /\ drone' = [drone EXCEPT !.pp = "Retune"] /\ Airs({})
        /\ Performs(dradio, retune(drone.commit_target))
    BY <1>0, <1>2, HostFields
  <2>2. DrainedToProbe BY <1>2, <2>1 DEF DrainedToProbe, DroneType
  <2> QED BY <1>0, <2>1, <2>2
<1>3. CASE /\ ~ (drone.st = "Switching" /\ drone.phase = "Draining")
           /\ ~ (drone.st = "Validating" /\ drone.pp = "Drain")
           /\ HostDoes(drone, dradio, {}, <<>>)
  <2>1. drone' = drone /\ Airs({}) /\ Performs(dradio, <<>>)
    BY <1>0, <1>3, HostFields
  <2>2. DrainedForNothing BY <1>3, <2>1 DEF DrainedForNothing, Idles
  <2> QED BY <1>0, <2>1, <2>2
<1> QED BY <1>1, <1>2, <1>3 DEF on_drain_done

\* The target has been sampled: go back to the source.
Sampled ==
    /\ drone.st = "Validating" /\ drone.pp = "Sampling"
    /\ KeepsAll /\ KeepsMarkers
    /\ Goes("Validating", drone.phase, "Return", drone.current)
    /\ Performs(dradio, retune(drone.commit_source))

\* A sample nobody waits for any more.
SampledForNothing ==
    /\ ~ (drone.st = "Validating" /\ drone.pp = "Sampling")
    /\ Idles /\ Performs(dradio, <<>>)

\* on_probe_sample, member by member.
LEMMA SampleFields ==
    ASSUME drone \in DroneType, NEW busy \in BOOLEAN, on_probe_sample(busy)
    PROVE  /\ dtodo # <<>> /\ Head(dtodo).op = "sample" /\ Airs({})
           /\ Sampled \/ SampledForNothing
<1> USE DEF KeepsAll, KeepsExchange, KeepsWindow, KeepsNonce, KeepsMarkers, Goes
<1>0. dtodo # <<>> /\ Head(dtodo).op = "sample" BY DEF on_probe_sample
<1>1. CASE drone.st = "Validating" /\ drone.pp = "Sampling"
  <2> DEFINE d == [drone EXCEPT !.probe_veto = busy, !.pp = "Return"]
  <2>1. HostDoes(d, dradio, {}, retune(drone.commit_source))
    BY <1>1 DEF on_probe_sample
  <2>2. drone' = d /\ Airs({}) /\ Performs(dradio, retune(drone.commit_source))
    BY <1>0, <2>1, HostFields
  <2>3. Sampled BY <1>1, <2>2 DEF Sampled, DroneType
  <2> QED BY <1>0, <2>2, <2>3
<1>2. CASE ~ (drone.st = "Validating" /\ drone.pp = "Sampling")
  <2>1. HostDoes(drone, dradio, {}, <<>>) BY <1>2 DEF on_probe_sample
  <2>2. drone' = drone /\ Airs({}) /\ Performs(dradio, <<>>)
    BY <1>0, <2>1, HostFields
  <2>3. SampledForNothing BY <1>2, <2>2 DEF SampledForNothing, Idles
  <2> QED BY <1>0, <2>2, <2>3
<1> QED BY <1>1, <1>2

\* The radio is on the target.
Arrives ==
    /\ drone.st = "Switching" /\ drone.phase = "Retuning" /\ KeepsAll
    /\ Goes("Verifying", drone.phase, drone.pp, drone.commit_target)
    /\ drone'.markers_on = TRUE
    /\ Airs(Behind) /\ Performs(Head(dtodo).ch, <<>>)

\* The retune to the target threw: try the fallback.
FailsOver ==
    /\ drone.st = "Switching" /\ drone.phase = "Retuning" /\ KeepsAll /\ KeepsMarkers
    /\ Goes("Switching", "RollbackRetune", drone.pp, fallback_channel(drone))
    /\ Airs(Behind) /\ Performs(dradio, retune(fallback_channel(drone)))

\* The radio is on the fallback, after an activation that failed or a rollback.
FallsBack(ok) ==
    /\ \/ ok /\ drone.st = "Switching" /\ drone.phase = "RollbackRetune"
       \/ drone.st = "Rollback"
    /\ KeepsAll /\ drone'.markers_on = FALSE
    /\ Goes("Stable", drone.phase, drone.pp, fallback_channel(drone))
    /\ Airs(Behind) /\ Performs(Tuned(ok), <<>>)

\* The fallback threw, too: off to the rescue channel.
LastResort ==
    /\ drone.st = "Switching" /\ drone.phase = "RollbackRetune"
    /\ KeepsAll /\ KeepsMarkers
    /\ Goes("Stable", drone.phase, drone.pp, drone.commit_rescue)
    /\ Airs(Behind)
    /\ Performs(dradio, RetuneThenSend(drone.commit_rescue, abort_msg(drone, 1)))

\* The probe is on the target, or could not get there.
Probes(ok) ==
    /\ drone.st = "Validating" /\ drone.pp = "Retune" /\ KeepsAll /\ KeepsMarkers
    /\ Airs(Behind)
    /\ \/ /\ ok /\ Goes("Validating", drone.phase, "Sampling", drone.commit_target)
          /\ Performs(Tuned(ok), SampleNow)
       \/ /\ ~ ok /\ Goes("Validating", drone.phase, "Return", drone.current)
          /\ Performs(Tuned(ok), retune(drone.commit_source))

\* The probe ends without a commit.
ProbeEnds(ok) ==
    /\ drone.st = "Validating" /\ drone.pp = "Return" /\ KeepsAll /\ KeepsMarkers
    /\ Goes("Stable", drone.phase, "None",
            IF ok THEN drone.commit_source ELSE drone.commit_rescue)
    /\ \E why \in Reasons :
          Airs(Behind \cup {status_reject(drone', drone.gen, why)})
    /\ Performs(Tuned(ok), <<>>)

\* The probe ends with a commit.
ProbeCommits ==
    /\ drone.st = "Validating" /\ drone.pp = "Return"
    /\ KeepsExchange /\ KeepsWindow /\ KeepsMarkers
    /\ drone'.drone_nonce = DroneNonce(drone.epoch, drone.gen)
    /\ Goes("Committed", drone.phase, "None", drone.commit_source)
    /\ Airs(Behind \cup {make_commit(drone')})
    /\ Performs(Head(dtodo).ch, <<>>)

\* A retune nobody waits for any more.
RetunedForNothing(ok) ==
    /\ ~ (drone.st = "Switching" /\ drone.phase \in {"Retuning", "RollbackRetune"})
    /\ drone.st # "Rollback"
    /\ ~ (drone.st = "Validating" /\ drone.pp \in {"Retune", "Return"})
    /\ Idles /\ Airs(Behind) /\ Performs(Tuned(ok), <<>>)

\* finish_rollback, member by member.
LEMMA FinishFields ==
    ASSUME drone \in DroneType, NEW c \in AnyChannel,
           drone' = finish_rollback([drone EXCEPT !.current = c])
    PROVE  /\ KeepsAll /\ drone'.markers_on = FALSE
           /\ Goes("Stable", drone.phase, drone.pp, c)
<1> DEFINE cw == clear_in_flight(drone.rw)
           e == [drone EXCEPT !.current = c]
<1>1. drone.rw \in ReplayWindow BY DEF DroneType
<1>2. /\ cw.have_peer = drone.rw.have_peer /\ cw.peer_epoch = drone.rw.peer_epoch
      /\ cw.max_gen = drone.rw.max_gen
  BY <1>1, ClearFields
<1>3. e \in DroneType /\ e.rw = drone.rw BY CurrentType DEF DroneType
<1>4. drone' = [e EXCEPT !.st = "Stable", !.hold_down = HoldDown,
                         !.settle_status = SettleStatus, !.next_status = 0,
                         !.rw = cw, !.markers_on = FALSE]
  BY <1>3 DEF finish_rollback
<1>5. /\ e.epoch = drone.epoch /\ e.gen = drone.gen
      /\ e.ground_epoch = drone.ground_epoch
      /\ e.commit_target = drone.commit_target
      /\ e.commit_source = drone.commit_source
      /\ e.commit_rescue = drone.commit_rescue
      /\ e.fallback_mode = drone.fallback_mode
      /\ e.drone_nonce = drone.drone_nonce
      /\ e.phase = drone.phase /\ e.pp = drone.pp /\ e.current = c
  BY DEF DroneType
<1> HIDE DEF cw, e
<1>6. /\ drone'.epoch = e.epoch /\ drone'.gen = e.gen
      /\ drone'.ground_epoch = e.ground_epoch
      /\ drone'.commit_target = e.commit_target
      /\ drone'.commit_source = e.commit_source
      /\ drone'.commit_rescue = e.commit_rescue
      /\ drone'.fallback_mode = e.fallback_mode
      /\ drone'.drone_nonce = e.drone_nonce
      /\ drone'.phase = e.phase /\ drone'.pp = e.pp /\ drone'.current = e.current
      /\ drone'.st = "Stable" /\ drone'.rw = cw /\ drone'.markers_on = FALSE
  BY ZenonT(60), <1>3, <1>4 DEF DroneType
<1> QED BY <1>2, <1>5, <1>6 DEF KeepsAll, KeepsExchange, KeepsWindow, KeepsNonce, Goes

\* on_retune_done, member by member.
LEMMA RetuneFields ==
    ASSUME drone \in DroneType, NEW ok \in BOOLEAN, Drone_on_retune_done(ok)
    PROVE  /\ dtodo # <<>> /\ Head(dtodo).op = "retune"
           /\ \/ ok /\ Arrives
              \/ ~ ok /\ FailsOver
              \/ FallsBack(ok)
              \/ ~ ok /\ LastResort
              \/ Probes(ok)
              \/ ProbeEnds(ok)
              \/ ok /\ ProbeCommits
              \/ RetunedForNothing(ok)
<1>0. dtodo # <<>> /\ Head(dtodo).op = "retune" BY DEF Drone_on_retune_done
<1>f. fallback_channel(drone) \in AnyChannel BY FallbackType
<1> USE DEF KeepsAll, KeepsExchange, KeepsWindow, KeepsNonce, KeepsMarkers, Goes
<1>1. CASE ActivationRetuned(ok)
  <2> DEFINE fb == fallback_channel(drone)
             d == [drone EXCEPT !.current = drone.commit_target,
                     !.st = "Verifying", !.markers_on = TRUE,
                     !.marker_ch = drone.commit_target, !.pump_on = TRUE]
             f == [drone EXCEPT !.phase = "RollbackRetune", !.current = fb]
  <2>1. drone.st = "Switching" /\ drone.phase = "Retuning"
    BY <1>1 DEF ActivationRetuned
  <2>2. \/ ok /\ HostDoes(d, Tuned(ok), Behind, <<>>)
        \/ ~ ok /\ HostDoes(f, Tuned(ok), Behind, retune(fb))
    BY <1>1 DEF ActivationRetuned
  <2>3. CASE ok /\ HostDoes(d, Tuned(ok), Behind, <<>>)
    <3>1. drone' = d /\ Airs(Behind) /\ Performs(Tuned(ok), <<>>)
      BY <1>0, <2>3, HostFields
    <3>2. Tuned(ok) = Head(dtodo).ch BY <2>3 DEF Tuned
    <3>3. Arrives BY <2>1, <3>1, <3>2 DEF Arrives, DroneType
    <3> QED BY <1>0, <2>3, <3>3
  <2>4. CASE ~ ok /\ HostDoes(f, Tuned(ok), Behind, retune(fb))
    <3>1. drone' = f /\ Airs(Behind) /\ Performs(Tuned(ok), retune(fb))
      BY <1>0, <2>4, HostFields
    <3>2. Tuned(ok) = dradio BY <2>4 DEF Tuned
    <3> HIDE DEF fb
    <3>3. /\ KeepsAll /\ KeepsMarkers /\ Goes("Switching", "RollbackRetune", drone.pp, fb)
      BY <2>1, <3>1 DEF DroneType
    <3>4. FailsOver BY <2>1, <3>1, <3>2, <3>3 DEF FailsOver, fb
    <3> QED BY <1>0, <2>4, <3>4
  <2> QED BY <2>2, <2>3, <2>4
<1>2. CASE FallbackRetuned(ok)
  <2> DEFINE f == [drone EXCEPT !.current = drone.commit_rescue,
                                !.st = "Stable", !.hold_down = HoldDown]
             g == finish_rollback([drone EXCEPT !.current = fallback_channel(drone)])
             ops == RetuneThenSend(drone.commit_rescue, abort_msg(drone, 1))
  <2>1. drone.st = "Switching" /\ drone.phase = "RollbackRetune"
    BY <1>2 DEF FallbackRetuned
  <2>2. \/ ok /\ HostDoes(g, Tuned(ok), Behind, <<>>)
        \/ ~ ok /\ HostDoes(f, Tuned(ok), Behind, ops)
    BY <1>2 DEF FallbackRetuned
  <2>3. CASE ok /\ HostDoes(g, Tuned(ok), Behind, <<>>)
    <3>1. drone' = g /\ Airs(Behind) /\ Performs(Tuned(ok), <<>>)
      BY <1>0, <2>3, HostFields
    <3>2. FallsBack(ok) BY <1>f, <2>1, <2>3, <3>1, FinishFields DEF FallsBack
    <3> QED BY <1>0, <3>2
  <2>4. CASE ~ ok /\ HostDoes(f, Tuned(ok), Behind, ops)
    <3>1. drone' = f /\ Airs(Behind) /\ Performs(Tuned(ok), ops)
      BY <1>0, <2>4, HostFields
    <3>2. Tuned(ok) = dradio BY <2>4 DEF Tuned
    <3>3. LastResort BY <2>1, <3>1, <3>2 DEF LastResort, DroneType
    <3> QED BY <1>0, <2>4, <3>3
  <2> QED BY <2>2, <2>3, <2>4
<1>3. CASE RollbackRetuned(ok)
  <2> DEFINE g == finish_rollback([drone EXCEPT !.current = fallback_channel(drone)])
  <2>1. drone.st = "Rollback" /\ HostDoes(g, Tuned(ok), Behind, <<>>)
    BY <1>3 DEF RollbackRetuned
  <2>2. drone' = g /\ Airs(Behind) /\ Performs(Tuned(ok), <<>>)
    BY <1>0, <2>1, HostFields
  <2>3. FallsBack(ok) BY <1>f, <2>1, <2>2, FinishFields DEF FallsBack
  <2> QED BY <1>0, <2>3
<1>4. CASE ProbeReached(ok)
  <2> DEFINE d == [drone EXCEPT !.current = drone.commit_target, !.pp = "Sampling"]
             f == [drone EXCEPT !.probe_veto = TRUE, !.pp = "Return"]
  <2>1. drone.st = "Validating" /\ drone.pp = "Retune" BY <1>4 DEF ProbeReached
  <2>2. \/ ok /\ HostDoes(d, Tuned(ok), Behind, SampleNow)
        \/ ~ ok /\ HostDoes(f, Tuned(ok), Behind, retune(drone.commit_source))
    BY <1>4 DEF ProbeReached
  <2>3. CASE ok /\ HostDoes(d, Tuned(ok), Behind, SampleNow)
    <3>1. drone' = d /\ Airs(Behind) /\ Performs(Tuned(ok), SampleNow)
      BY <1>0, <2>3, HostFields
    <3>2. Probes(ok) BY <2>1, <2>3, <3>1 DEF Probes, DroneType
    <3> QED BY <1>0, <3>2
  <2>4. CASE ~ ok /\ HostDoes(f, Tuned(ok), Behind, retune(drone.commit_source))
    <3>1. /\ drone' = f /\ Airs(Behind)
          /\ Performs(Tuned(ok), retune(drone.commit_source))
      BY <1>0, <2>4, HostFields
    <3>2. Probes(ok) BY <2>1, <2>4, <3>1 DEF Probes, DroneType
    <3> QED BY <1>0, <3>2
  <2> QED BY <2>2, <2>3, <2>4
<1>5. CASE ProbeReturned(ok)
  <2> DEFINE c == IF ok THEN drone.commit_source ELSE drone.commit_rescue
             back == [drone EXCEPT !.pp = "None", !.pump_on = TRUE, !.current = c]
             refused == [back EXCEPT !.st = "Stable", !.rw = clear_in_flight(@)]
             e == enter_committed(back)
             cw == clear_in_flight(drone.rw)
  <2>1. drone.st = "Validating" /\ drone.pp = "Return" BY <1>5 DEF ProbeReturned
  <2>2. \/ \E why \in Reasons :
             HostDoes(refused, Tuned(ok),
                      Behind \cup {status_reject(refused, drone.gen, why)}, <<>>)
        \/ ok /\ HostDoes(e, Tuned(ok), Behind \cup {make_commit(e)}, <<>>)
    BY <1>5 DEF ProbeReturned, Reasons
  <2>3. c \in AnyChannel BY DEF DroneType
  <2>4. ok => c = drone.commit_source OBVIOUS
  <2> HIDE DEF c
  <2>5. back \in DroneType BY <2>3, Zenon DEF DroneType, ProbePhases
  <2>6. /\ back.epoch = drone.epoch /\ back.gen = drone.gen
        /\ back.ground_epoch = drone.ground_epoch
        /\ back.commit_target = drone.commit_target
        /\ back.commit_source = drone.commit_source
        /\ back.commit_rescue = drone.commit_rescue
        /\ back.fallback_mode = drone.fallback_mode
        /\ back.rw = drone.rw /\ back.drone_nonce = drone.drone_nonce
        /\ back.markers_on = drone.markers_on
        /\ back.phase = drone.phase /\ back.pp = "None" /\ back.current = c
    BY DEF DroneType
  <2> HIDE DEF back
  <2>7. ASSUME NEW why \in Reasons,
               HostDoes(refused, Tuned(ok),
                        Behind \cup {status_reject(refused, drone.gen, why)}, <<>>)
        PROVE  ProbeEnds(ok)
    <3>1. /\ drone' = refused /\ Performs(Tuned(ok), <<>>)
          /\ Airs(Behind \cup {status_reject(refused, drone.gen, why)})
      BY <1>0, <2>7, HostFields
    <3>2. drone.rw \in ReplayWindow BY DEF DroneType
    <3>3. /\ cw.have_peer = drone.rw.have_peer
          /\ cw.peer_epoch = drone.rw.peer_epoch
          /\ cw.max_gen = drone.rw.max_gen
      BY <3>2, ClearFields
    <3>4. refused = [back EXCEPT !.st = "Stable", !.rw = cw] BY <2>6
    <3> HIDE DEF cw
    <3>5. /\ refused.epoch = back.epoch /\ refused.gen = back.gen
          /\ refused.ground_epoch = back.ground_epoch
          /\ refused.commit_target = back.commit_target
          /\ refused.commit_source = back.commit_source
          /\ refused.commit_rescue = back.commit_rescue
          /\ refused.fallback_mode = back.fallback_mode
          /\ refused.rw = cw /\ refused.drone_nonce = back.drone_nonce
          /\ refused.markers_on = back.markers_on
          /\ refused.phase = back.phase /\ refused.pp = back.pp
          /\ refused.current = back.current /\ refused.st = "Stable"
      BY <2>5, <3>4 DEF DroneType
    <3> HIDE DEF refused
    <3>6. KeepsAll /\ KeepsMarkers /\ Goes("Stable", drone.phase, "None", c)
      BY <2>6, <3>1, <3>3, <3>5
    <3> QED BY <2>1, <2>7, <3>1, <3>6 DEF ProbeEnds, c
  <2>8. CASE ok /\ HostDoes(e, Tuned(ok), Behind \cup {make_commit(e)}, <<>>)
    <3>1. /\ drone' = e /\ Performs(Tuned(ok), <<>>)
          /\ Airs(Behind \cup {make_commit(e)})
      BY <1>0, <2>8, HostFields
    <3>2. Tuned(ok) = Head(dtodo).ch BY <2>8 DEF Tuned
    <3>3. /\ e.epoch = back.epoch /\ e.gen = back.gen
          /\ e.ground_epoch = back.ground_epoch
          /\ e.commit_target = back.commit_target
          /\ e.commit_source = back.commit_source
          /\ e.commit_rescue = back.commit_rescue
          /\ e.fallback_mode = back.fallback_mode
          /\ e.rw = back.rw /\ e.drone_nonce = DroneNonce(back.epoch, back.gen)
          /\ e.markers_on = back.markers_on
          /\ e.phase = back.phase /\ e.pp = back.pp
          /\ e.current = back.current /\ e.st = "Committed"
      BY <2>5 DEF enter_committed, DroneType
    <3> HIDE DEF e
    <3>4. ProbeCommits BY <2>1, <2>4, <2>6, <2>8, <3>1, <3>2, <3>3 DEF ProbeCommits
    <3> QED BY <1>0, <2>8, <3>4
  <2> QED BY <1>0, <2>2, <2>7, <2>8
<1>6. CASE RetuneUnasked(ok)
  <2>1. drone' = drone /\ Airs(Behind) /\ Performs(Tuned(ok), <<>>)
    BY <1>0, <1>6, HostFields DEF RetuneUnasked
  <2>2. RetunedForNothing(ok)
    BY <1>6, <2>1 DEF RetuneUnasked, RetunedForNothing, Idles
  <2> QED BY <1>0, <2>2
<1> QED BY <1>1, <1>2, <1>3, <1>4, <1>5, <1>6 DEF Drone_on_retune_done

\* What a frame the drone handles does.
HandlesFrame ==
    \E m \in dq :
        \/ m \in Proposals /\ (Strays(m) \/ Repeated(m) \/ Refuses(m) \/ Begins(m))
        \/ (Idles \/ Settles(m)) /\ Airs({}) /\ Asks(<<>>)

\* What a tick of the drone does.
HandlesTick == GivesUp \/ Reports \/ Leaves \/ TunesAnyway \/ GoesBack

\* What a retune of the drone does.
HandlesRetune(ok) ==
    /\ dtodo # <<>> /\ Head(dtodo).op = "retune"
    /\ \/ ok /\ Arrives
       \/ ~ ok /\ FailsOver
       \/ FallsBack(ok)
       \/ ~ ok /\ LastResort
       \/ Probes(ok)
       \/ ProbeEnds(ok)
       \/ ok /\ ProbeCommits
       \/ RetunedForNothing(ok)

\* What a drain or a sample does.
HandlesDrain ==
    /\ dtodo # <<>> /\ Head(dtodo).op = "drain" /\ Airs({})
    /\ DrainedToSwitch \/ DrainedToProbe \/ DrainedForNothing

HandlesSample ==
    /\ dtodo # <<>> /\ Head(dtodo).op = "sample" /\ Airs({})
    /\ Sampled \/ SampledForNothing

\* Every way a step changes the drone or its host, short of a restart.
DroneMoves ==
    \/ DroneFree /\ (HandlesFrame \/ HandlesTick)
    \/ HandlesDrain \/ HandlesSample
    \/ HandlesRetune(TRUE)
    \/ HandlesRetune(FALSE) /\ Spend("retune")
    \/ DrainStall

\* The step leaves the drone and its host alone.
DroneRests == UNCHANGED <<drone, dtodo, dradio>>

\* Every step of the link is one of these for the drone.
LEMMA StepMoves ==
    ASSUME TypeOK, [Next]_vars
    PROVE  \/ DroneRests /\ dq' \subseteq dq /\ Airs({}) /\ UNCHANGED <<groundVars, gradio, history>>
           \/ DroneRests /\ (\/ GroundStart \/ GroundReceive \/ GroundTick
                             \/ GroundRetune \/ HearVideo \/ HearMarker
                             \/ GroundRestart)
           \/ /\ DroneMoves /\ dq' \subseteq dq
              /\ UNCHANGED <<groundVars, gradio, history>>
           \/ DroneRestart
           \/ Tick
<1> DEFINE R == DroneRests /\ dq' \subseteq dq /\ Airs({}) /\ UNCHANGED <<groundVars, gradio, history>>
           M == /\ DroneMoves /\ dq' \subseteq dq
                /\ UNCHANGED <<groundVars, gradio, history>>
<1>0. /\ drone \in DroneType /\ dtodo \in Seq(HostOps)
      /\ dq \in SUBSET ToDrone
  BY DEF TypeOK
<1>1. dtodo \o <<>> = dtodo BY <1>0
<1>2. DroneIgnores => Idles /\ Airs({}) /\ Asks(<<>>)
  BY <1>1 DEF DroneIgnores, Idles, KeepsAll, KeepsExchange, KeepsWindow, KeepsNonce,
     KeepsMarkers, Goes, Airs, Asks
<1>3. ASSUME DroneReceive PROVE M
  <2>1. PICK m \in dq : Drone_on_message(m) /\ dq' \subseteq dq
    BY <1>3 DEF DroneReceive
  <2>2. HandlesFrame
    <3>1. CASE m.type = "PROPOSAL"
      <4>1. m \in Proposals
        BY <1>0, <3>1 DEF ToDrone, Proposals, Statuses, Confirms
      <4>2. Drone_on_proposal(m) BY <2>1, <3>1 DEF Drone_on_message
      <4>3. Strays(m) \/ Repeated(m) \/ Refuses(m) \/ Begins(m)
        BY <1>0, <4>1, <4>2, ProposalFields
      <4> QED BY <4>1, <4>3 DEF HandlesFrame
    <3>2. CASE m.type # "PROPOSAL"
      BY <1>0, <1>2, <2>1, <3>2, AnswerFields DEF HandlesFrame
    <3> QED BY <3>1, <3>2
  <2>3. UNCHANGED gradio
    BY <2>1 DEF Drone_on_message, Drone_on_proposal, Drone_on_status,
       Drone_on_confirm, FreshProposal, drone_do, DroneIgnores
  <2> QED BY <1>3, <2>1, <2>2, <2>3 DEF DroneReceive, DroneMoves
<1>4. ASSUME DroneTick PROVE M
  <2>1. HandlesTick BY <1>0, <1>4, DroneTickFields DEF DroneTick, HandlesTick
  <2>2. UNCHANGED gradio
    BY <1>4 DEF DroneTick, Drone_on_tick, GiveUpUnheard, RepeatOrSwitch,
       DrainStalled, RollBack, StatusOnly, drone_do
  <2> QED BY <1>4, <2>1, <2>2 DEF DroneTick, DroneMoves
<1>5. ASSUME DroneHost PROVE M
  <2>1. DroneMoves
    <3>1. CASE on_drain_done BY <1>0, <3>1, DrainFields DEF DroneMoves, HandlesDrain
    <3>2. CASE \E busy \in BOOLEAN : on_probe_sample(busy)
      BY <1>0, <3>2, SampleFields DEF DroneMoves, HandlesSample
    <3>3. CASE Drone_on_retune_done(TRUE)
      <4>1. HandlesRetune(TRUE) BY <1>0, <3>3, RetuneFields DEF HandlesRetune
      <4> QED BY <4>1 DEF DroneMoves
    <3>4. CASE Drone_on_retune_done(FALSE) /\ Spend("retune")
      <4>1. HandlesRetune(FALSE) BY <1>0, <3>4, RetuneFields DEF HandlesRetune
      <4> QED BY <3>4, <4>1 DEF DroneMoves
    <3> QED BY <1>5, <3>1, <3>2, <3>3, <3>4 DEF DroneHost
  <2>2. UNCHANGED gradio
    BY <1>5 DEF DroneHost, on_drain_done, on_probe_sample, Drone_on_retune_done,
       ActivationRetuned, FallbackRetuned, RollbackRetuned, ProbeReached,
       ProbeReturned, RetuneUnasked, HostDoes
  <2> QED BY <1>5, <2>1, <2>2 DEF DroneHost
<1>6. DrainStall => M BY DEF DrainStall, DroneMoves, medium
<1>7. Lose => R BY DEF Lose, droneVars, DroneRests, Airs
<1>8. UNCHANGED vars => R BY DEF vars, DroneRests, groundVars, history, Airs
<1>9. ASSUME GroundStart \/ GroundReceive \/ GroundTick \/ GroundRetune
             \/ HearVideo \/ HearMarker \/ GroundRestart
      PROVE  DroneRests
  <2> USE DEF DroneRests, droneVars, ground_do, GroundIgnores
  <2>1. CASE GroundStart BY <2>1 DEF GroundStart, Ground_start
  <2>2. CASE GroundReceive
    <3>1. PICK m \in gq : Ground_on_message(m) /\ UNCHANGED droneVars
      BY <2>2 DEF GroundReceive
    <3>2. dradio' = dradio
      <4>1. CASE Ground_on_commit(m)
        BY <4>1 DEF Ground_on_commit, tick_committed
      <4>2. CASE Ground_on_status(m)
        BY <4>2 DEF Ground_on_status, follow_drone
      <4>3. CASE Ground_on_marker(m)
        BY <4>3 DEF Ground_on_marker, maybe_confirm, recover_to
      <4>4. CASE Ground_on_abort(m) BY <4>4 DEF Ground_on_abort
      <4>5. CASE Ground_on_video
        BY <4>5 DEF Ground_on_video, maybe_confirm, recover_to
      <4> QED BY <3>1, <4>1, <4>2, <4>3, <4>4, <4>5 DEF Ground_on_message
    <3> QED BY <3>1, <3>2
  <2>3. CASE GroundTick
    BY <2>3 DEF GroundTick, Ground_on_tick, tick_proposed, tick_committed,
       tick_verifying, tick_recovery
  <2>4. CASE GroundRetune BY <2>4 DEF GroundRetune, ground_retune
  <2>5. CASE HearVideo
    BY <2>5 DEF HearVideo, Ground_on_video, maybe_confirm, recover_to
  <2>6. CASE HearMarker
    BY <2>6 DEF HearMarker, Ground_on_marker, maybe_confirm, recover_to
  <2>7. CASE GroundRestart BY <2>7 DEF GroundRestart, Ground_restart
  <2> QED BY <1>9, <2>1, <2>2, <2>3, <2>4, <2>5, <2>6, <2>7
<1> HIDE DEF R, M
<1>10. \/ R \/ M \/ DroneRestart \/ Tick
       \/ DroneRests /\ (\/ GroundStart \/ GroundReceive \/ GroundTick
                         \/ GroundRetune \/ HearVideo \/ HearMarker
                         \/ GroundRestart)
  BY <1>3, <1>4, <1>5, <1>6, <1>7, <1>8, <1>9 DEF Next
<1> QED BY <1>10 DEF R, M

\* Time passing changes no member of the drone but its deadlines.
LEMMA ElapseIdles ==
    ASSUME TypeOK, Tick
    PROVE  /\ Idles /\ UNCHANGED <<dtodo, gq, dq, gradio, dradio, gtodo, history>>
<1>1. drone \in DroneType BY DEF TypeOK
<1>2. drone' = DroneElapse(drone) BY DEF Tick
<1>3. Idles
  BY <1>1, <1>2 DEF DroneElapse, DroneType, Idles, KeepsAll, KeepsExchange,
     KeepsWindow, KeepsNonce, KeepsMarkers, Goes
<1> QED BY <1>3 DEF Tick, medium

\* The operations of the host and the ticks keep exchange and window.
LEMMA OnlyFramesTeach ==
    ASSUME DroneMoves
    PROVE  \/ KeepsExchange /\ KeepsWindow
           \/ \E m \in dq : /\ m \in Proposals
                            /\ Strays(m) \/ Repeated(m) \/ Refuses(m) \/ Begins(m)
<1>1. CASE HandlesFrame BY <1>1 DEF HandlesFrame, Idles, Settles, KeepsAll
<1>2. CASE HandlesTick
  BY <1>2 DEF HandlesTick, GivesUp, Reports, Leaves, TunesAnyway, GoesBack, Idles,
     KeepsAll
<1>3. CASE HandlesDrain
  BY <1>3 DEF HandlesDrain, DrainedToSwitch, DrainedToProbe, DrainedForNothing,
     Idles, KeepsAll
<1>4. CASE HandlesSample
  BY <1>4 DEF HandlesSample, Sampled, SampledForNothing, Idles, KeepsAll
<1>5. ASSUME NEW ok \in BOOLEAN, HandlesRetune(ok) PROVE KeepsExchange /\ KeepsWindow
  BY <1>5 DEF HandlesRetune, Arrives, FailsOver, FallsBack, LastResort, Probes,
     ProbeEnds, ProbeCommits, RetunedForNothing, Idles, KeepsAll
<1>6. CASE DrainStall BY <1>6 DEF DrainStall, KeepsExchange, KeepsWindow
<1> QED BY <1>1, <1>2, <1>3, <1>4, <1>5, <1>6 DEF DroneMoves

(***************************************************************************)
(* What the replay window of the drone knows, as long as the ground does   *)
(* not restart: its epoch is the one of the only ground process, and no    *)
(* exchange the drone has run is newer than the newest generation it has   *)
(* seen.                                                                   *)
(***************************************************************************)
WindowInv ==
    /\ drone.gen <= drone.rw.max_gen
    /\ drone.rw.have_peer => drone.rw.peer_epoch = 1
    /\ ~ drone.rw.have_peer => drone.rw.max_gen = 0

\* Without restarts of the ground every proposal is of the window's epoch.
LEMMA SeenAll ==
    ASSUME TypeOK, OneGround, WindowInv, NEW m \in dq, m \in Proposals
    PROVE  /\ m.ground_epoch = 1 /\ SeenBefore(m) = drone.rw.max_gen
           /\ ~ EpochChange(m)
<1>1. m.type = "PROPOSAL" BY DEF Proposals
<1>2. m.ground_epoch = 1 BY <1>1 DEF OneGround
<1> QED BY <1>2 DEF WindowInv, SeenBefore, EpochChange

\* WindowInv holds initially.
LEMMA InitWindow == Init => WindowInv
BY DEF Init, DroneInit, NewDrone, NewWindow, WindowInv

\* Without restarts of the ground, WindowInv is inductive.
LEMMA NextWindow ==
    ASSUME TypeOK, OneGround, WindowInv, [Next]_vars
    PROVE  WindowInv'
<1>0. /\ drone \in DroneType /\ drone.gen \in Nat /\ drone.rw.max_gen \in Nat
      /\ dq \in SUBSET ToDrone
  BY DEF TypeOK, DroneType, ReplayWindow, Gens
<1>1. CASE UNCHANGED drone BY <1>1 DEF WindowInv
<1>2. CASE KeepsExchange /\ KeepsWindow
  BY <1>2 DEF WindowInv, KeepsExchange, KeepsWindow
<1>3. ASSUME NEW m \in dq, m \in Proposals,
             Strays(m) \/ Repeated(m) \/ Refuses(m) \/ Begins(m)
      PROVE  WindowInv'
  <2>1. m.ground_epoch = 1 /\ SeenBefore(m) = drone.rw.max_gen /\ m.generation \in Nat
    BY <1>3, SeenAll DEF Proposals, Gens
  <2>2. CASE Strays(m) \/ Repeated(m)
    BY <1>0, <2>1, <2>2 DEF WindowInv, Strays, Repeated, KeepsExchange, Window
  <2>3. CASE Refuses(m)
    BY <1>0, <2>1, <2>3 DEF WindowInv, Refuses, KeepsExchange, Window
  <2>4. CASE Begins(m) BY <1>0, <2>1, <2>4 DEF WindowInv, Begins, Window
  <2> QED BY <1>3, <2>2, <2>3, <2>4
<1>4. CASE DroneRestart
  BY <1>4 DEF DroneRestart, Drone_restart, NewDrone, NewWindow, WindowInv
<1>5. CASE Tick
  <2>1. KeepsExchange /\ KeepsWindow BY <1>5, ElapseIdles DEF Idles, KeepsAll
  <2> QED BY <1>2, <2>1
<1>6. CASE DroneRests BY <1>1, <1>6 DEF DroneRests
<1>7. CASE DroneMoves BY <1>2, <1>3, <1>7, OnlyFramesTeach
<1> QED BY <1>4, <1>5, <1>6, <1>7, StepMoves

\* A settled drone takes up an exchange only by a fresh proposal.
LEMMA OnlyFreshBegins ==
    ASSUME TypeOK, [Next]_vars, drone.st = "Stable",
           drone'.st \in {"Validating", "Committed"}
    PROVE  \E m \in dq : m \in Proposals /\ Begins(m)
<1>1. drone'.st # drone.st OBVIOUS
<1>2. ~ DroneRests BY <1>1 DEF DroneRests
<1>3. ~ DroneRestart
  BY DEF DroneRestart, Drone_restart, NewDrone
<1>4. ~ Tick BY <1>1, ElapseIdles DEF Idles, Goes
<1>5. DroneMoves BY <1>2, <1>3, <1>4, StepMoves
<1>6. CASE HandlesFrame
  <2>1. PICK m \in dq :
          \/ m \in Proposals /\ (Strays(m) \/ Repeated(m) \/ Refuses(m) \/ Begins(m))
          \/ (Idles \/ Settles(m)) /\ Airs({}) /\ Asks(<<>>)
    BY <1>6 DEF HandlesFrame
  <2>2. ~ Idles /\ ~ Settles(m) BY <1>1 DEF Idles, Settles, Goes
  <2>3. ~ EpochChange(m) BY DEF EpochChange
  <2>4. ~ Strays(m) /\ ~ Repeated(m) /\ ~ Refuses(m)
    BY <1>1, <2>3 DEF Strays, Repeated, Refuses, Goes, Found
  <2> QED BY <2>1, <2>2, <2>4
<1>7. ~ HandlesTick
  BY <1>1 DEF HandlesTick, GivesUp, Reports, Leaves, TunesAnyway, GoesBack, Idles, Goes
<1>8. ~ HandlesDrain
  BY <1>1 DEF HandlesDrain, DrainedToSwitch, DrainedToProbe, DrainedForNothing,
     Idles, Goes
<1>9. ~ HandlesSample
  BY <1>1 DEF HandlesSample, Sampled, SampledForNothing, Idles, Goes
<1>10. ASSUME NEW ok \in BOOLEAN, HandlesRetune(ok) PROVE FALSE
  BY <1>1, <1>10 DEF HandlesRetune, Arrives, FailsOver, FallsBack, LastResort,
     Probes, ProbeEnds, ProbeCommits, RetunedForNothing, Idles, Goes
<1>11. ~ DrainStall BY <1>1 DEF DrainStall
<1> QED BY <1>5, <1>6, <1>7, <1>8, <1>9, <1>10, <1>11 DEF DroneMoves

(***************************************************************************)
(* However often, late or out of order its proposals arrive, an exchange   *)
(* of a ground process that does not restart is run by a drone process at  *)
(* most once, and after the ones before it (ReplayWindow in MigWire.h,     *)
(* MigResponder::on_proposal).  A proposal of another ground process       *)
(* resets the window, hence the hypothesis.                                *)
(***************************************************************************)
THEOREM ExchangesInOrder ==
    ASSUME MaxGroundRestarts = 0
    PROVE  Spec => NoExchangeTwice
<1> DEFINE Inv == TypeOK /\ OneGround /\ WindowInv
<1>1. Init => Inv
  <2>1. Init => OneGround
    BY DEF Init, GroundInit, DroneInit, NewGround, NewDrone, OneGround, Engaged
  <2> QED BY <2>1, InitType, InitWindow
<1>2. Inv /\ [Next]_vars => Inv' BY NextType, NextOneGround, NextWindow
<1>3. Inv /\ [Next]_vars =>
        [ (/\ drone.st = "Stable" /\ drone'.st \in {"Validating", "Committed"}
           /\ drone'.ground_epoch = drone.ground_epoch)
            => drone'.gen > drone.gen ]_vars
  <2> SUFFICES ASSUME Inv, [Next]_vars, drone.st = "Stable",
                      drone'.st \in {"Validating", "Committed"}
               PROVE  drone'.gen > drone.gen
    OBVIOUS
  <2>1. PICK m \in dq : m \in Proposals /\ Begins(m) BY OnlyFreshBegins
  <2>2. SeenBefore(m) = drone.rw.max_gen BY <2>1, SeenAll
  <2>3. drone.gen \in Nat /\ drone.rw.max_gen \in Nat /\ m.generation \in Nat
    BY <2>1 DEF TypeOK, DroneType, ReplayWindow, Gens, Proposals
  <2> QED BY <2>1, <2>2, <2>3 DEF Begins, WindowInv
<1> QED BY <1>1, <1>2, <1>3, PTL DEF Spec, NoExchangeTwice

------------------------------------------------------------------------------
(***************************************************************************)
(* The steps of the ground, member by member.                              *)
(***************************************************************************)

\* The ground stays in its exchange.
StaysInExchange ==
    /\ ground'.epoch = ground.epoch /\ ground'.gen = ground.gen
    /\ ground'.drone_nonce = ground.drone_nonce
    /\ ground'.commit_target = ground.commit_target

KeepsFollowing == ground'.follow_pending = ground.follow_pending

\* What the ground has seen of the target stays.
KeepsProof ==
    /\ ground'.got_gen_marker = ground.got_gen_marker
    /\ ground'.verified = ground.verified

StaysAll == StaysInExchange /\ KeepsFollowing /\ KeepsProof

\* The frames of ms, or some of them, join the ones waiting for the drone.
Sends(ms) == \A m \in dq' : m \in dq \/ m \in ms

\* The radio stays and the retunes cs are asked for.
Tunes(cs) == gtodo' = gtodo \o cs /\ gradio' = gradio

\* ground_do sends and asks for what the handler hands it.
LEMMA GroundDoFields ==
    ASSUME NEW g, NEW ms, NEW cs, ground_do(g, ms, cs)
    PROVE  ground' = g /\ Sends(ms) /\ Tunes(cs)
BY DEF ground_do, Sends, Tunes, Heard

\* start: a new generation is proposed.
Proposes ==
    /\ ground.st = "Stable" /\ ground'.st = "Proposed" /\ ground.gen < MaxGen
    /\ ground'.gen = ground.gen + 1 /\ ground'.epoch = ground.epoch
    /\ KeepsFollowing
    /\ Sends({make_proposal(ground')}) /\ Tunes(<<>>)

\* The proposal again.
Reproposes ==
    /\ ground.st = "Proposed" /\ ground'.st = "Proposed" /\ StaysAll
    /\ Sends({make_proposal(ground)}) /\ Tunes(<<>>)

\* The migration is over for the ground.
Ends == ground'.st = "Stable" /\ StaysAll /\ Sends({}) /\ Tunes(<<>>)

\* Nothing happens.
Passes == ground'.st = ground.st /\ StaysAll /\ Sends({}) /\ Tunes(<<>>)

\* The commit of the exchange is adopted.
TakesCommit(m) ==
    /\ m.type = "COMMIT" /\ CommitMatches(ground, m)
    /\ ground.st = "Proposed" /\ ground'.st \in {"Committed", "Switching"}
    /\ ground'.epoch = ground.epoch /\ ground'.gen = ground.gen
    /\ ground'.drone_nonce = m.drone_nonce /\ ground'.commit_target = m.target
    /\ KeepsFollowing
    /\ \E ms : Sends(ms) /\ \A k \in ms : k.type = "STATUS"
    /\ Tunes(IF ground'.st = "Switching" THEN <<m.target>> ELSE <<>>)

\* The commit is acknowledged; at its instant the ground leaves for the target.
Awaits ==
    /\ ground.st = "Committed" /\ ground'.st \in {"Committed", "Switching"}
    /\ StaysAll
    /\ \E ms : Sends(ms) /\ \A k \in ms : k.type = "STATUS"
    /\ Tunes(IF ground'.st = "Switching" THEN <<ground.commit_target>> ELSE <<>>)

\* The ground goes where the drone has settled.
GoesAfter(m) ==
    /\ m.type = "STATUS" /\ FollowsStatus(m) /\ StaysInExchange /\ KeepsProof
    /\ \/ /\ ground'.st = "Stable" /\ KeepsFollowing
          /\ Sends({make_confirm(ground)}) /\ Tunes(<<>>)
       \/ /\ ground'.st = "Switching" /\ ground'.follow_pending = TRUE
          /\ Sends({}) /\ Tunes(<<m.current>>)

\* A marker of the exchange reaches the ground, from its queue or off the air.
SeesMarker ==
    \/ \E m \in gq : m.type = "MARKER" /\ m.generation = ground.gen
    \/ drone.markers_on /\ drone.gen = ground.gen

\* A frame counts as proof of the target.
CountsFrame ==
    /\ ground.st = "Verifying" /\ ground'.st = "Verifying"
    /\ StaysInExchange /\ KeepsFollowing
    /\ ground'.got_gen_marker = TRUE
    /\ ground.got_gen_marker \/ SeesMarker
    /\ \/ ground'.verified = ground.verified /\ Sends({})
       \/ /\ ~ ground.verified /\ ground'.verified = TRUE
          /\ Sends({make_confirm(ground)})
    /\ Tunes(<<>>)

\* The proof is confirmed again, and past the deadline the scan begins.
Reconfirms ==
    /\ ground.st = "Verifying" /\ StaysAll
    /\ Sends(IF ground.verified THEN {make_confirm(ground)} ELSE {})
    /\ \/ ground'.st = "Verifying" /\ Tunes(<<>>)
       \/ ground'.st = "Recovery" /\ \E c : Tunes(<<c>>)

\* The scan begins on an abort, or goes on.
Scans ==
    /\ ground'.st = "Recovery" /\ StaysAll /\ Sends({}) /\ \E c : Tunes(<<c>>)
    /\ \/ ground.st = "Recovery"
       \/ \E m \in gq : m.type = "ABORT" /\ m.effective = 1

\* The radio is on the channel asked for.
Retuned ==
    /\ gtodo # <<>> /\ gradio' = Head(gtodo) /\ gtodo' = Tail(gtodo)
    /\ dq' = dq /\ StaysInExchange
    /\ \/ ground.st # "Switching" /\ ground' = ground
       \/ /\ ground.st = "Switching" /\ ground.follow_pending
          /\ ground'.st = "Stable" /\ ground'.follow_pending = FALSE
       \/ /\ ground.st = "Switching" /\ ~ ground.follow_pending
          /\ ground'.st = "Verifying" /\ KeepsFollowing
          /\ ground'.got_gen_marker = FALSE /\ ground'.verified = FALSE

\* A handler that returns nothing, member by member.
LEMMA IgnoreFields ==
    ASSUME gtodo \in Seq(AnyChannel), GroundIgnores
    PROVE  Passes
<1>1. gtodo \o <<>> = gtodo OBVIOUS
<1> QED BY <1>1 DEF GroundIgnores, Passes, StaysAll, StaysInExchange,
           KeepsFollowing, KeepsProof, Sends, Tunes

\* A handler that ends the migration, member by member.
LEMMA EndFields ==
    ASSUME ground \in GroundType, NEW c,
           ground_do([ground EXCEPT !.st = "Stable", !.current = c], {}, <<>>)
    PROVE  Ends
<1> DEFINE h == [ground EXCEPT !.st = "Stable", !.current = c]
<1>1. ground' = h /\ Sends({}) /\ Tunes(<<>>) BY GroundDoFields
<1> QED BY <1>1 DEF Ends, StaysAll, StaysInExchange, KeepsFollowing, KeepsProof,
           GroundType

\* tick_committed, member by member.
LEMMA CommittedFields ==
    ASSUME NEW g \in GroundType, g.st = "Committed", tick_committed(g)
    PROVE  /\ ground'.st \in {"Committed", "Switching"}
           /\ ground'.epoch = g.epoch /\ ground'.gen = g.gen
           /\ ground'.drone_nonce = g.drone_nonce
           /\ ground'.commit_target = g.commit_target
           /\ ground'.follow_pending = g.follow_pending
           /\ ground'.got_gen_marker = g.got_gen_marker
           /\ ground'.verified = g.verified
           /\ \E ms : Sends(ms) /\ \A k \in ms : k.type = "STATUS"
           /\ Tunes(IF ground'.st = "Switching" THEN <<g.commit_target>> ELSE <<>>)
<1> DEFINE acked == IF g.next_status = 0
                    THEN [g EXCEPT !.next_status = CommitInterval] ELSE g
           h == IF g.retune_at = 0
                THEN [acked EXCEPT !.st = "Switching", !.blank_until = BlankWindow]
                ELSE acked
           ms == IF g.next_status = 0 THEN {make_status_ack(g)} ELSE {}
           cs == IF g.retune_at = 0 THEN <<g.commit_target>> ELSE <<>>
<1>1. acked \in GroundType BY TimerParams, Zenon DEF GroundType
<1>2. /\ acked.epoch = g.epoch /\ acked.drone_nonce = g.drone_nonce
      /\ acked.gen = g.gen /\ acked.commit_target = g.commit_target
      /\ acked.follow_pending = g.follow_pending
      /\ acked.got_gen_marker = g.got_gen_marker /\ acked.verified = g.verified
      /\ acked.st = "Committed"
  BY DEF GroundType
<1> HIDE DEF acked
<1>3. /\ h.epoch = g.epoch /\ h.drone_nonce = g.drone_nonce
      /\ h.gen = g.gen /\ h.commit_target = g.commit_target
      /\ h.follow_pending = g.follow_pending
      /\ h.got_gen_marker = g.got_gen_marker /\ h.verified = g.verified
      /\ h.st = IF g.retune_at = 0 THEN "Switching" ELSE "Committed"
  BY <1>1, <1>2 DEF GroundType
<1>4. ground_do(h, ms, cs) BY DEF tick_committed, acked
<1>5. \A k \in ms : k.type = "STATUS" BY DEF make_status_ack
<1> HIDE DEF h, ms
<1>6. ground' = h /\ Sends(ms) /\ Tunes(cs) BY <1>4, GroundDoFields
<1> QED BY <1>3, <1>5, <1>6

\* on_commit, member by member.
LEMMA CommitFields ==
    ASSUME ground \in GroundType, gtodo \in Seq(AnyChannel), NEW m \in Commits,
           Ground_on_commit(m)
    PROVE  TakesCommit(m) \/ Awaits \/ Passes
<1>1. CASE /\ CommitMatches(ground, m) /\ ground.st = "Proposed"
           /\ tick_committed(AdoptCommit(ground, m))
  <2> DEFINE g == AdoptCommit(ground, m)
  <2>1. g \in GroundType BY AdoptCommitType
  <2>2. /\ g.epoch = ground.epoch /\ g.gen = ground.gen /\ g.st = "Committed"
        /\ g.drone_nonce = m.drone_nonce /\ g.commit_target = m.target
        /\ g.follow_pending = ground.follow_pending
    BY DEF AdoptCommit, GroundType
  <2>3. tick_committed(g) BY <1>1
  <2>4. m.type = "COMMIT" BY DEF Commits
  <2> HIDE DEF g
  <2>5. TakesCommit(m)
    BY <1>1, <2>1, <2>2, <2>3, <2>4, CommittedFields DEF TakesCommit, KeepsFollowing
  <2> QED BY <2>5
<1>2. CASE ground.st = "Committed" /\ ground_do(ground, {make_status_ack(ground)}, <<>>)
  <2>1. ground' = ground /\ Sends({make_status_ack(ground)}) /\ Tunes(<<>>)
    BY <1>2, GroundDoFields
  <2>2. \A k \in {make_status_ack(ground)} : k.type = "STATUS" BY DEF make_status_ack
  <2> QED BY <1>2, <2>1, <2>2 DEF Awaits, StaysAll, StaysInExchange, KeepsFollowing,
             KeepsProof
<1> QED BY <1>1, <1>2, IgnoreFields DEF Ground_on_commit

\* on_status, member by member.
LEMMA StatusFields ==
    ASSUME ground \in GroundType, gtodo \in Seq(AnyChannel), NEW m,
           m.type = "STATUS", Ground_on_status(m)
    PROVE  GoesAfter(m) \/ Ends \/ Passes
<1>1. CASE FollowsStatus(m) /\ follow_drone(m.current)
  <2> DEFINE c == m.current
             stable == [ground EXCEPT !.st = "Stable"]
             follows == [ground EXCEPT !.follow_channel = c,
                            !.follow_pending = TRUE, !.st = "Switching"]
             ms == IF c = ground.commit_target THEN {make_confirm(ground)} ELSE {}
  <2>1. ground_do(stable, ms, <<>>) \/ ground_do(follows, {}, <<c>>)
    BY <1>1 DEF follow_drone
  <2>2. CASE ground_do(stable, ms, <<>>)
    <3>1. ground' = stable /\ Sends(ms) /\ Tunes(<<>>) BY <2>2, GroundDoFields
    <3>2. Sends({make_confirm(ground)}) BY <3>1 DEF Sends
    <3>3. /\ StaysInExchange /\ KeepsProof /\ KeepsFollowing /\ ground'.st = "Stable"
      BY <3>1 DEF StaysInExchange, KeepsProof, KeepsFollowing, GroundType
    <3>4. GoesAfter(m) BY <1>1, <3>1, <3>2, <3>3 DEF GoesAfter
    <3> QED BY <3>4
  <2>3. CASE ground_do(follows, {}, <<c>>)
    <3>1. ground' = follows /\ Sends({}) /\ Tunes(<<c>>) BY <2>3, GroundDoFields
    <3>2. /\ StaysInExchange /\ KeepsProof /\ ground'.st = "Switching"
          /\ ground'.follow_pending = TRUE
      BY <3>1 DEF StaysInExchange, KeepsProof, GroundType
    <3>3. GoesAfter(m) BY <1>1, <3>1, <3>2 DEF GoesAfter
    <3> QED BY <3>3
  <2> QED BY <2>1, <2>2, <2>3
<1> QED BY <1>1, EndFields, IgnoreFields DEF Ground_on_status

\* maybe_confirm, member by member.
LEMMA MaybeConfirmFields ==
    ASSUME ground \in GroundType, NEW g \in GroundType, maybe_confirm(g),
           ground.st = "Verifying", g.st = "Verifying",
           g.epoch = ground.epoch, g.gen = ground.gen,
           g.drone_nonce = ground.drone_nonce, g.commit_target = ground.commit_target,
           g.follow_pending = ground.follow_pending, g.verified = ground.verified,
           g.got_gen_marker = TRUE, ground.got_gen_marker \/ SeesMarker
    PROVE  CountsFrame
<1> DEFINE h == [g EXCEPT !.verified = TRUE, !.next_confirm = CommitInterval]
<1>1. make_confirm(g) = make_confirm(ground) BY DEF make_confirm
<1>2. CASE ~ g.verified /\ ground_do(h, {make_confirm(g)}, <<>>)
  <2>1. ground' = h /\ Sends({make_confirm(g)}) /\ Tunes(<<>>)
    BY <1>2, GroundDoFields
  <2>2. /\ h.st = g.st /\ h.epoch = g.epoch /\ h.gen = g.gen
        /\ h.drone_nonce = g.drone_nonce /\ h.commit_target = g.commit_target
        /\ h.follow_pending = g.follow_pending /\ h.verified = TRUE
        /\ h.got_gen_marker = g.got_gen_marker
    BY DEF GroundType
  <2> HIDE DEF h
  <2> QED BY <1>1, <1>2, <2>1, <2>2 DEF CountsFrame, StaysInExchange, KeepsFollowing
<1>3. CASE ground_do(g, {}, <<>>)
  <2>1. ground' = g /\ Sends({}) /\ Tunes(<<>>) BY <1>3, GroundDoFields
  <2> QED BY <2>1 DEF CountsFrame, StaysInExchange, KeepsFollowing
<1> QED BY <1>2, <1>3 DEF maybe_confirm

\* on_marker and on_video, member by member.
LEMMA HearFields ==
    ASSUME ground \in GroundType, gtodo \in Seq(AnyChannel),
           \/ Ground_on_video
           \/ \E m : /\ Ground_on_marker(m)
                     /\ \/ m \in gq /\ m.type = "MARKER"
                        \/ drone.markers_on /\ m.generation = drone.gen
    PROVE  CountsFrame \/ Ends \/ Passes
<1>1. CASE Ground_on_video
  <2>1. CASE VideoCounts /\ maybe_confirm([ground EXCEPT
                                !.video_seen = Count(@, VerifyVideo)])
    <3> DEFINE g == [ground EXCEPT !.video_seen = Count(@, VerifyVideo)]
    <3>1. Count(ground.video_seen, VerifyVideo) \in Nat BY DEF GroundType, Count
    <3>2. \A n \in Nat : [ground EXCEPT !.video_seen = n] \in GroundType
      BY DEF GroundType
    <3>3. g \in GroundType BY <3>1, <3>2
    <3>4. ground.st = "Verifying" /\ ground.got_gen_marker BY <2>1 DEF VideoCounts
    <3>5. /\ g.st = ground.st /\ g.epoch = ground.epoch /\ g.gen = ground.gen
          /\ g.drone_nonce = ground.drone_nonce
          /\ g.commit_target = ground.commit_target
          /\ g.follow_pending = ground.follow_pending
          /\ g.verified = ground.verified
          /\ g.got_gen_marker = ground.got_gen_marker
      BY DEF GroundType
    <3>6. ground.got_gen_marker = TRUE BY <3>4 DEF GroundType
    <3>7. maybe_confirm(g) BY <2>1
    <3> HIDE DEF g
    <3> QED BY <3>3, <3>4, <3>5, <3>6, <3>7, MaybeConfirmFields
  <2>2. CASE recover_to(recov_channel(ground)) BY <2>2, EndFields DEF recover_to
  <2>3. CASE GroundIgnores BY <2>3, IgnoreFields
  <2> QED BY <1>1, <2>1, <2>2, <2>3 DEF Ground_on_video
<1>2. ASSUME NEW m, Ground_on_marker(m),
             \/ m \in gq /\ m.type = "MARKER"
             \/ drone.markers_on /\ m.generation = drone.gen
      PROVE  CountsFrame \/ Ends \/ Passes
  <2>1. CASE MarkerCounts(m) /\ maybe_confirm([ground EXCEPT !.got_gen_marker = TRUE,
                                   !.markers_seen = Count(@, VerifyMarkers)])
    <3> DEFINE g == [ground EXCEPT !.got_gen_marker = TRUE,
                         !.markers_seen = Count(@, VerifyMarkers)]
    <3>1. Count(ground.markers_seen, VerifyMarkers) \in Nat BY DEF GroundType, Count
    <3>2. \A n \in Nat : [ground EXCEPT !.got_gen_marker = TRUE,
                              !.markers_seen = n] \in GroundType
      BY DEF GroundType
    <3>3. g \in GroundType BY <3>1, <3>2
    <3>4. ground.st = "Verifying" /\ SeesMarker
      BY <1>2, <2>1 DEF MarkerCounts, MarkerMatches, SeesMarker
    <3>5. /\ g.st = ground.st /\ g.epoch = ground.epoch /\ g.gen = ground.gen
          /\ g.drone_nonce = ground.drone_nonce
          /\ g.commit_target = ground.commit_target
          /\ g.follow_pending = ground.follow_pending
          /\ g.verified = ground.verified /\ g.got_gen_marker = TRUE
      BY DEF GroundType
    <3>6. maybe_confirm(g) BY <2>1
    <3> HIDE DEF g
    <3> QED BY <3>3, <3>4, <3>5, <3>6, MaybeConfirmFields
  <2>2. CASE recover_to(m.aired_on) BY <2>2, EndFields DEF recover_to
  <2>3. CASE GroundIgnores BY <2>3, IgnoreFields
  <2> QED BY <1>2, <2>1, <2>2, <2>3 DEF Ground_on_marker
<1> QED BY <1>1, <1>2

\* Entering Recovery, member by member.
LEMMA RecoveryFields ==
    ASSUME NEW g \in GroundType
    PROVE  LET h == enter_recovery(g)
           IN  /\ h.st = "Recovery" /\ h.epoch = g.epoch /\ h.gen = g.gen
               /\ h.drone_nonce = g.drone_nonce /\ h.commit_target = g.commit_target
               /\ h.follow_pending = g.follow_pending
               /\ h.got_gen_marker = g.got_gen_marker /\ h.verified = g.verified
BY DEF enter_recovery, GroundType

\* on_abort, member by member.
LEMMA AbortFields ==
    ASSUME ground \in GroundType, NEW m \in gq, m.type = "ABORT", Ground_on_abort(m)
    PROVE  Ends \/ Scans
<1>1. CASE ground_do([ground EXCEPT !.st = "Stable", !.current = Source], {}, <<>>)
  BY <1>1, EndFields
<1>2. CASE /\ m.effective = 1
           /\ ground_do(enter_recovery(ground), {},
                        <<recov_channel(enter_recovery(ground))>>)
  <2> DEFINE c == recov_channel(enter_recovery(ground))
  <2>1. ground' = enter_recovery(ground) /\ Sends({}) /\ Tunes(<<c>>)
    BY <1>2, GroundDoFields
  <2> HIDE DEF c
  <2> QED BY <1>2, <2>1, RecoveryFields DEF Scans, StaysAll, StaysInExchange,
             KeepsFollowing, KeepsProof
<1> QED BY <1>1, <1>2 DEF Ground_on_abort

\* on_tick of the ground, member by member.
LEMMA GroundTickFields ==
    ASSUME ground \in GroundType, Ground_on_tick
    PROVE  Reproposes \/ Ends \/ Awaits \/ Reconfirms \/ Scans
<1> USE DEF StaysAll, StaysInExchange, KeepsFollowing, KeepsProof
<1>1. CASE tick_proposed
  <2> DEFINE again == [ground EXCEPT !.tries = @ + 1, !.next_send = ProposalInterval]
  <2>1. CASE ground_do([ground EXCEPT !.st = "Stable", !.current = Source], {}, <<>>)
    BY <2>1, EndFields
  <2>2. CASE ground_do(again, {make_proposal(ground)}, <<>>)
    <3>1. ground' = again /\ Sends({make_proposal(ground)}) /\ Tunes(<<>>)
      BY <2>2, GroundDoFields
    <3>2. ground.st = "Proposed" BY <1>1 DEF tick_proposed
    <3>3. Reproposes BY <3>1, <3>2 DEF Reproposes, GroundType
    <3> QED BY <3>3
  <2> QED BY <1>1, <2>1, <2>2 DEF tick_proposed
<1>2. CASE ground.st = "Committed" /\ tick_committed(ground)
  <2>1. Awaits BY <1>2, CommittedFields DEF Awaits
  <2> QED BY <2>1
<1>3. CASE tick_verifying
  <2> DEFINE confirm == ground.verified /\ ground.next_confirm = 0
             g == IF confirm THEN [ground EXCEPT !.next_confirm = CommitInterval]
                             ELSE ground
             ms == IF confirm THEN {make_confirm(ground)} ELSE {}
             c == recov_channel(enter_recovery(g))
  <2>1. g \in GroundType BY TimerParams DEF GroundType
  <2>2. /\ g.st = ground.st /\ g.epoch = ground.epoch /\ g.gen = ground.gen
        /\ g.drone_nonce = ground.drone_nonce
        /\ g.commit_target = ground.commit_target
        /\ g.follow_pending = ground.follow_pending
        /\ g.got_gen_marker = ground.got_gen_marker
        /\ g.verified = ground.verified
    BY DEF GroundType
  <2>3. /\ ground.st = "Verifying"
        /\ ground_do(enter_recovery(g), ms, <<c>>) \/ ground_do(g, ms, <<>>)
    BY <1>3 DEF tick_verifying
  <2>4. ms \subseteq IF ground.verified THEN {make_confirm(ground)} ELSE {}
    OBVIOUS
  <2> HIDE DEF g, ms, c
  <2>5. CASE ground_do(enter_recovery(g), ms, <<c>>)
    <3>1. ground' = enter_recovery(g) /\ Sends(ms) /\ Tunes(<<c>>)
      BY <2>5, GroundDoFields
    <3>2. Sends(IF ground.verified THEN {make_confirm(ground)} ELSE {})
      BY <2>4, <3>1 DEF Sends
    <3>3. Reconfirms BY <2>1, <2>2, <2>3, <3>1, <3>2, RecoveryFields DEF Reconfirms
    <3> QED BY <3>3
  <2>6. CASE ground_do(g, ms, <<>>)
    <3>1. ground' = g /\ Sends(ms) /\ Tunes(<<>>) BY <2>6, GroundDoFields
    <3>2. Sends(IF ground.verified THEN {make_confirm(ground)} ELSE {})
      BY <2>4, <3>1 DEF Sends
    <3>3. Reconfirms BY <2>2, <2>3, <3>1, <3>2 DEF Reconfirms
    <3> QED BY <3>3
  <2> QED BY <2>3, <2>5, <2>6
<1>4. CASE tick_recovery
  <2> DEFINE g == [ground EXCEPT !.recov_idx = (@ + 1) % 4,
                                 !.recov_next = RecoveryDwell]
             c == recov_channel(g)
  <2>1. ground.st = "Recovery" /\ ground_do(g, {}, <<c>>) BY <1>4 DEF tick_recovery
  <2>2. /\ g.st = ground.st /\ g.epoch = ground.epoch /\ g.gen = ground.gen
        /\ g.drone_nonce = ground.drone_nonce
        /\ g.commit_target = ground.commit_target
        /\ g.follow_pending = ground.follow_pending
        /\ g.got_gen_marker = ground.got_gen_marker
        /\ g.verified = ground.verified
    BY DEF GroundType
  <2> HIDE DEF g, c
  <2>3. ground' = g /\ Sends({}) /\ Tunes(<<c>>) BY <2>1, GroundDoFields
  <2>4. Scans BY <2>1, <2>2, <2>3 DEF Scans
  <2> QED BY <2>4
<1> QED BY <1>1, <1>2, <1>3, <1>4 DEF Ground_on_tick

\* start, member by member.
LEMMA StartFields ==
    ASSUME ground \in GroundType, NEW tgt, Ground_start(tgt)
    PROVE  Proposes
<1> DEFINE g == [ground EXCEPT !.gen = @ + 1, !.target = tgt,
                               !.st = "Proposed", !.tries = 1,
                               !.next_send = ProposalInterval]
<1>1. /\ ground.st = "Stable" /\ ground.gen < MaxGen
      /\ ground_do(g, {make_proposal(g)}, <<>>)
  BY DEF Ground_start
<1>2. /\ g.st = "Proposed" /\ g.epoch = ground.epoch /\ g.gen = ground.gen + 1
      /\ g.follow_pending = ground.follow_pending
  BY DEF GroundType
<1> HIDE DEF g
<1>3. ground' = g /\ Sends({make_proposal(g)}) /\ Tunes(<<>>)
  BY <1>1, GroundDoFields
<1> QED BY <1>1, <1>2, <1>3 DEF Proposes, KeepsFollowing

\* on_retune_done of the ground, member by member.
LEMMA GroundRetuneFields ==
    ASSUME ground \in GroundType, ground_retune
    PROVE  Retuned
<1> DEFINE f == [ground EXCEPT !.follow_pending = FALSE, !.st = "Stable",
                               !.current = ground.follow_channel]
           v == [ground EXCEPT !.st = "Verifying", !.markers_seen = 0,
                               !.video_seen = 0, !.got_gen_marker = FALSE,
                               !.verified = FALSE, !.current = ground.commit_target]
<1>1. /\ gtodo # <<>> /\ gradio' = Head(gtodo) /\ gtodo' = Tail(gtodo) /\ dq' = dq
  BY DEF ground_retune
<1>2. \/ ground.st # "Switching" /\ ground' = ground
      \/ ground.st = "Switching" /\ ground.follow_pending /\ ground' = f
      \/ ground.st = "Switching" /\ ~ ground.follow_pending /\ ground' = v
  BY DEF ground_retune, Ground_on_retune_done
<1>3. /\ f.st = "Stable" /\ f.follow_pending = FALSE /\ f.epoch = ground.epoch
      /\ f.gen = ground.gen /\ f.drone_nonce = ground.drone_nonce
      /\ f.commit_target = ground.commit_target
  BY DEF GroundType
<1>4. /\ v.st = "Verifying" /\ v.follow_pending = ground.follow_pending
      /\ v.epoch = ground.epoch /\ v.gen = ground.gen
      /\ v.drone_nonce = ground.drone_nonce
      /\ v.commit_target = ground.commit_target
      /\ v.got_gen_marker = FALSE /\ v.verified = FALSE
  BY DEF GroundType
<1> HIDE DEF f, v
<1> QED BY <1>1, <1>2, <1>3, <1>4 DEF Retuned, StaysInExchange, KeepsFollowing

\* Every way a step changes the ground or its host, short of a restart.
GroundMoves ==
    \/ GroundFree /\ (\/ Proposes \/ Reproposes \/ Ends \/ Passes
                      \/ \E m \in gq : TakesCommit(m) \/ GoesAfter(m)
                      \/ Awaits \/ CountsFrame \/ Reconfirms \/ Scans)
    \/ Retuned

\* Every step of the ground but a restart is one of these.
LEMMA GroundStepMoves ==
    ASSUME TypeOK,
           GroundStart \/ GroundReceive \/ GroundTick \/ GroundRetune
             \/ HearVideo \/ HearMarker
    PROVE  GroundMoves /\ Record /\ Airs(Streams)
<1>0. ground \in GroundType /\ gtodo \in Seq(AnyChannel) /\ gq \in SUBSET ToGround
  BY DEF TypeOK
<1>1. CASE GroundStart BY <1>0, <1>1, StartFields DEF GroundStart, GroundMoves, Airs
<1>2. CASE GroundReceive
  <2>1. PICK m \in gq : Ground_on_message(m) BY <1>2 DEF GroundReceive
  <2>2. m.type = "COMMIT" => m \in Commits BY <1>0, GroundKinds
  <2>3. CASE m.type = "COMMIT" /\ Ground_on_commit(m)
    <3>1. TakesCommit(m) \/ Awaits \/ Passes BY <1>0, <2>2, <2>3, CommitFields
    <3> QED BY <1>2, <3>1 DEF GroundReceive, GroundMoves, Airs
  <2>4. CASE m.type = "STATUS" /\ Ground_on_status(m)
    <3>1. GoesAfter(m) \/ Ends \/ Passes BY <1>0, <2>4, StatusFields
    <3> QED BY <1>2, <3>1 DEF GroundReceive, GroundMoves, Airs
  <2>5. CASE Ground_on_video \/ (m.type = "MARKER" /\ Ground_on_marker(m))
    <3>1. CountsFrame \/ Ends \/ Passes BY <1>0, <2>5, HearFields
    <3> QED BY <1>2, <3>1 DEF GroundReceive, GroundMoves, Airs
  <2>6. CASE m.type = "ABORT" /\ Ground_on_abort(m)
    <3>1. Ends \/ Scans BY <1>0, <2>6, AbortFields
    <3> QED BY <1>2, <3>1 DEF GroundReceive, GroundMoves, Airs
  <2>7. \/ m.type = "COMMIT" /\ Ground_on_commit(m)
        \/ m.type = "STATUS" /\ Ground_on_status(m)
        \/ m.type = "ABORT" /\ Ground_on_abort(m)
        \/ Ground_on_video \/ (m.type = "MARKER" /\ Ground_on_marker(m))
    BY <2>1 DEF Ground_on_message
  <2> QED BY <2>7, <2>3, <2>4, <2>5, <2>6
<1>3. CASE GroundTick BY <1>0, <1>3, GroundTickFields DEF GroundTick, GroundMoves, Airs
<1>4. CASE GroundRetune
  <2>1. Retuned BY <1>0, <1>4, GroundRetuneFields DEF GroundRetune
  <2>2. Airs(Streams) BY <1>4 DEF GroundRetune, Airs
  <2> QED BY <1>4, <2>1, <2>2 DEF GroundRetune, GroundMoves
<1>5. CASE HearVideo
  <2>1. CountsFrame \/ Ends \/ Passes BY <1>0, <1>5, HearFields DEF HearVideo
  <2> QED BY <1>5, <2>1 DEF HearVideo, GroundMoves, Airs
<1>6. CASE HearMarker
  <2>1. drone.markers_on /\ Ground_on_marker(MarkerFrame) BY <1>6 DEF HearMarker
  <2>2. MarkerFrame.generation = drone.gen BY DEF MarkerFrame
  <2>3. CountsFrame \/ Ends \/ Passes BY <1>0, <2>1, <2>2, HearFields
  <2> QED BY <1>6, <2>3 DEF HearMarker, GroundMoves, Airs
<1> QED BY <1>1, <1>2, <1>3, <1>4, <1>5, <1>6

------------------------------------------------------------------------------
(***************************************************************************)
(* Where the drone's radio is.  A state of the machine says which host     *)
(* operation it waits for; the host has been asked for that one and, but   *)
(* for a drain that came too late, for no other.                           *)
(***************************************************************************)
Asked(op) == Len(dtodo) = 1 /\ dtodo[1].op = op
AskedRetune(c) == Asked("retune") /\ dtodo[1].ch = c

ProbeWaits ==
    \/ drone.pp = "Drain" /\ (dtodo = <<>> \/ Asked("drain"))
    \/ drone.pp = "Retune" /\ AskedRetune(drone.commit_target)
    \/ drone.pp = "Sampling" /\ Asked("sample")
    \/ drone.pp = "Return" /\ AskedRetune(drone.commit_source)

\* The drain of an activation that was given up on is still in front.
LateDrain ==
    /\ Len(dtodo) = 2 /\ dtodo[1].op = "drain"
    /\ dtodo[2].op = "retune" /\ dtodo[2].ch = drone.commit_target

SwitchWaits ==
    \/ drone.phase = "Draining" /\ (dtodo = <<>> \/ Asked("drain"))
    \/ drone.phase = "Retuning" /\ (AskedRetune(drone.commit_target) \/ LateDrain)
    \/ /\ drone.phase = "RollbackRetune" /\ MaxRetuneFails # 0
       /\ AskedRetune(drone.commit_source)

Waits ==
    /\ drone.st = "Stable" => \/ dtodo = <<>>
                              \/ MaxRetuneFails # 0 /\ Asked("retune")
    /\ drone.st = "Validating" => ProbeWaits
    /\ drone.st \in {"Committed", "Verifying"} => dtodo = <<>>
    /\ drone.st = "Switching" => SwitchWaits
    /\ drone.st = "Rollback" => AskedRetune(drone.commit_source)

\* A locked host is done only in the states that wait for no operation.
LockedWaits ==
    HostLocked /\ dtodo = <<>> => drone.st \in {"Stable", "Committed", "Verifying"}

Placed ==
    /\ drone.st = "Verifying" => drone.current = dradio /\ dradio = drone.commit_target
    /\ MaxRetuneFails = 0 /\ drone.st \in {"Stable", "Committed"}
         => drone.current = dradio

\* The fallback the ground asks for is always the source.
SourceFallback ==
    /\ drone.fallback_mode = 0
    /\ \A m \in dq : m.type = "PROPOSAL" => m.fallback_mode = 0

HostInv == Waits /\ LockedWaits /\ Placed /\ SourceFallback

\* What HostInv needs: a host that holds its lock, or else a link without
\* restarts of the ground and without retunes that throw.
Hosted == HostLocked \/ (OneGround /\ WindowInv /\ MaxRetuneFails = 0)

\* The first operation of one or two, and the rest.
LEMMA FirstOp ==
    ASSUME dtodo \in Seq(HostOps)
    PROVE  /\ Len(dtodo) = 1 => Tail(dtodo) = <<>> /\ Head(dtodo) = dtodo[1]
           /\ Len(dtodo) = 2 => /\ Head(dtodo) = dtodo[1]
                                /\ Len(Tail(dtodo)) = 1
                                /\ Tail(dtodo)[1] = dtodo[2]
           /\ Len(dtodo) = 0 <=> dtodo = <<>>
           /\ Tail(dtodo) \o <<>> = Tail(dtodo) \/ dtodo = <<>>
           /\ dtodo \o <<>> = dtodo
<1>1. dtodo # <<>> => Tail(dtodo) \in Seq(HostOps) OBVIOUS
<1>6. Len(dtodo) = 0 <=> dtodo = <<>> BY EmptySeq
<1>2. dtodo # <<>> => Tail(dtodo) \o <<>> = Tail(dtodo) BY <1>1
<1>3. dtodo \o <<>> = dtodo OBVIOUS
<1>4. ASSUME Len(dtodo) = 1 PROVE Tail(dtodo) = <<>> /\ Head(dtodo) = dtodo[1]
  <2>1. dtodo # <<>> BY <1>4, <1>6
  <2>2. Len(Tail(dtodo)) = 0 BY <1>4, <2>1
  <2>3. Tail(dtodo) = <<>> BY <1>1, <2>1, <2>2, EmptySeq
  <2> QED BY <1>4, <2>1, <2>3
<1>5. Len(dtodo) = 2 => /\ Head(dtodo) = dtodo[1]
                        /\ Len(Tail(dtodo)) = 1
                        /\ Tail(dtodo)[1] = dtodo[2]
  OBVIOUS
<1> QED BY <1>2, <1>3, <1>4, <1>5, <1>6

\* What is asked for once nothing else is.
LEMMA SoleOp ==
    ASSUME NEW s, s = <<>>
    PROVE  /\ s \o <<>> = <<>>
           /\ \A o : /\ s \o <<o>> = <<o>> /\ Len(<<o>>) = 1 /\ <<o>>[1] = o
                     /\ <<o>> # <<>>
OBVIOUS

LEMMA SoleRetune ==
    ASSUME NEW s, s = <<>>, NEW c,
           \/ dtodo' = s \o retune(c)
           \/ \E m : dtodo' = s \o RetuneThenSend(c, m)
    PROVE  Len(dtodo') = 1 /\ dtodo'[1].op = "retune" /\ dtodo'[1].ch = c /\ dtodo' # <<>>
BY SoleOp DEF retune, RetuneThenSend

LEMMA SoleDrain ==
    ASSUME NEW s, s = <<>>, dtodo' = s \o StartDrain
    PROVE  Len(dtodo') = 1 /\ dtodo'[1].op = "drain" /\ dtodo' # <<>>
BY SoleOp DEF StartDrain

LEMMA SoleSample ==
    ASSUME NEW s, s = <<>>, dtodo' = s \o SampleNow
    PROVE  Len(dtodo') = 1 /\ dtodo'[1].op = "sample" /\ dtodo' # <<>>
BY SoleOp DEF SampleNow

\* One operation more.
LEMMA OneMore ==
    ASSUME NEW s \in Seq(HostOps), Len(s) = 1, NEW o \in HostOps
    PROVE  /\ Len(s \o <<o>>) = 2 /\ (s \o <<o>>)[1] = s[1] /\ (s \o <<o>>)[2] = o
           /\ s \o <<o>> # <<>>
<1> DEFINE t == <<o>>
<1>3. t \in Seq(HostOps) /\ Len(t) = 1 /\ t[1] = o OBVIOUS
<1> HIDE DEF t
<1>5. /\ Len(s \o t) = Len(s) + Len(t)
      /\ \A i \in 1 .. Len(s) + Len(t) :
            (s \o t)[i] = IF i <= Len(s) THEN s[i] ELSE t[i - Len(s)]
  BY <1>3, ConcatProperties, Zenon
<1>4. Len(s \o t) = 2 /\ (s \o t)[1] = s[1] /\ (s \o t)[2] = t[1]
  BY <1>3, <1>5
<1>1. Len(s \o <<o>>) = 2 /\ (s \o <<o>>)[1] = s[1] /\ (s \o <<o>>)[2] = o
  BY <1>3, <1>4 DEF t
<1>2. Len(<<>>) = 0 OBVIOUS
<1> QED BY <1>1, <1>2

\* HostInv without the frames on their way, as the drone keeps it.
DroneHosted == Waits /\ LockedWaits /\ Placed /\ drone.fallback_mode = 0

\* Nothing that matters to DroneHosted changes.
LEMMA IdleHost ==
    ASSUME DroneHosted, KeepsExchange, dtodo' = dtodo, dradio' = dradio,
           Goes(drone.st, drone.phase, drone.pp, drone.current)
    PROVE  DroneHosted'
BY DEF DroneHosted, Waits, LockedWaits, Placed, ProbeWaits, SwitchWaits, LateDrain,
   Asked, AskedRetune, KeepsExchange, Goes

\* A machine that waits for nothing, on the channel it believes in.
LEMMA RestHost ==
    ASSUME dtodo' = <<>>, drone'.fallback_mode = 0,
           \/ /\ drone'.st \in {"Stable", "Committed"}
              /\ MaxRetuneFails = 0 => drone'.current = dradio'
           \/ /\ drone'.st = "Verifying"
              /\ drone'.current = dradio' /\ dradio' = drone'.commit_target
    PROVE  DroneHosted'
BY DEF DroneHosted, Waits, LockedWaits, Placed

\* A machine that waits for the one operation the host is asked for.
LEMMA BusyHost ==
    ASSUME drone'.fallback_mode = 0, dtodo' # <<>>,
           \/ drone'.st = "Validating" /\ ProbeWaits'
           \/ drone'.st = "Switching" /\ SwitchWaits'
           \/ drone'.st = "Rollback" /\ AskedRetune(drone.commit_source)'
           \/ drone'.st = "Stable" /\ MaxRetuneFails # 0 /\ Asked("retune")'
    PROVE  DroneHosted'
BY DEF DroneHosted, Waits, LockedWaits, Placed

\* The frames the drone handles keep DroneHosted.
LEMMA FrameHost ==
    ASSUME TypeOK, Hosted, DroneHosted, SourceFallback, DroneFree, HandlesFrame
    PROVE  DroneHosted'
<1>0. dtodo \in Seq(HostOps) BY DEF TypeOK
<1>1. dtodo \o <<>> = dtodo BY <1>0, FirstOp
<1>2. PICK m \in dq :
          \/ m \in Proposals /\ (Strays(m) \/ Repeated(m) \/ Refuses(m) \/ Begins(m))
          \/ (Idles \/ Settles(m)) /\ Airs({}) /\ Asks(<<>>)
  BY DEF HandlesFrame
<1>3. CASE Idles /\ Asks(<<>>)
  BY <1>1, <1>3, IdleHost DEF Idles, Asks, KeepsAll
<1>4. CASE Settles(m) /\ Asks(<<>>)
  <2>1. /\ drone.st = "Verifying" /\ drone'.st = "Stable" /\ dtodo' = dtodo
        /\ drone'.current = drone.commit_target /\ dradio' = dradio
        /\ drone'.fallback_mode = drone.fallback_mode
    BY <1>1, <1>4 DEF Settles, ConfirmMatches, Goes, Asks, KeepsAll, KeepsExchange
  <2>2. dtodo = <<>> /\ dradio = drone.commit_target /\ drone.fallback_mode = 0
    BY <2>1 DEF DroneHosted, Waits, Placed
  <2> QED BY <2>1, <2>2, RestHost
<1>5. ASSUME m \in Proposals, Strays(m) \/ Repeated(m) \/ Refuses(m) \/ Begins(m)
      PROVE  DroneHosted'
  <2>1. m.type = "PROPOSAL" /\ m.fallback_mode = 0
    BY <1>5 DEF Proposals, SourceFallback
  <2>2. EpochChange(m) =>
          /\ HostLocked /\ dtodo = <<>>
          /\ drone.st = "Committed" \/ drone.st = "Verifying"
    <3>1. ~ HostLocked => ~ EpochChange(m) BY <1>5, SeenAll DEF Hosted
    <3> QED BY <3>1 DEF DroneFree, DroneHosted, LockedWaits, EpochChange
  <2>3. CASE Strays(m)
    <3>1. /\ dtodo = <<>> /\ drone'.st = "Rollback"
          /\ drone'.commit_source = drone.commit_source
          /\ drone'.fallback_mode = 0
          /\ dtodo' = dtodo \o RetuneThenSend(drone.commit_source,
                           status_reject(drone, m.generation, "Busy"))
      BY <2>2, <2>3 DEF Strays, Goes, KeepsExchange, Asks, DroneHosted
    <3>2. AskedRetune(drone.commit_source)' /\ dtodo' # <<>>
      BY <3>1, SoleRetune DEF AskedRetune, Asked
    <3> QED BY <3>1, <3>2, BusyHost
  <2>4. CASE Repeated(m) \/ Refuses(m)
    <3>1. /\ KeepsExchange /\ dtodo' = dtodo /\ dradio' = dradio
          /\ Goes(Found(m), FoundPhase(m), drone.pp, drone.current)
      BY <1>1, <2>4 DEF Repeated, Refuses, Asks
    <3>2. CASE ~ EpochChange(m)
      BY <3>1, <3>2, IdleHost DEF Found, FoundPhase
    <3>3. CASE EpochChange(m)
      <4>1. /\ drone'.st = "Stable" /\ drone'.current = drone.current
            /\ drone'.fallback_mode = 0
        BY <3>1, <3>3 DEF Found, Goes, KeepsExchange, DroneHosted
      <4>2. MaxRetuneFails = 0 => drone.current = dradio
        BY <2>2, <3>3 DEF DroneHosted, Placed
      <4> QED BY <2>2, <3>1, <3>3, <4>1, <4>2, RestHost
    <3> QED BY <3>2, <3>3
  <2>5. CASE Begins(m)
    <3>1. dtodo = <<>> /\ (MaxRetuneFails = 0 => drone.current = dradio)
      <4>1. CASE EpochChange(m) BY <2>2, <4>1 DEF DroneHosted, Placed
      <4>2. CASE ~ EpochChange(m)
        <5>1. drone.st = "Stable" BY <2>5, <4>2 DEF Begins, Found
        <5> QED BY <5>1 DEF DroneHosted, Placed, Waits, Hosted, DroneFree
      <4> QED BY <4>1, <4>2
    <3>2. drone'.fallback_mode = 0 BY <2>1, <2>5 DEF Begins
    <3>3. CASE Goes("Validating", FoundPhase(m), "Drain", drone.current) /\ Asks(StartDrain)
      <4>1. Asked("drain")' /\ dtodo' # <<>>
        BY <3>1, <3>3, SoleDrain DEF Asked, Asks
      <4> QED BY <3>2, <3>3, <4>1, BusyHost DEF Goes, ProbeWaits
    <3>4. CASE Goes("Committed", FoundPhase(m), drone.pp, drone.current) /\ Asks(<<>>)
      BY <1>1, <3>1, <3>2, <3>4, RestHost DEF Goes, Asks
    <3> QED BY <2>5, <3>3, <3>4 DEF Begins
  <2> QED BY <1>5, <2>3, <2>4, <2>5
<1> QED BY <1>2, <1>3, <1>4, <1>5

\* The ticks of the drone keep DroneHosted.
LEMMA TickHost ==
    ASSUME TypeOK, Hosted, DroneHosted, DroneFree, HandlesTick
    PROVE  DroneHosted'
<1>0. dtodo \in Seq(HostOps) BY DEF TypeOK
<1>1. dtodo \o <<>> = dtodo BY <1>0, FirstOp
<1>2. fallback_channel(drone) = drone.commit_source
  BY DEF DroneHosted, fallback_channel
<1>3. CASE Reports BY <1>1, <1>3, IdleHost DEF Reports, Idles, Asks, KeepsAll
<1>4. CASE GivesUp
  <2>1. dtodo = <<>> /\ (MaxRetuneFails = 0 => drone.current = dradio)
    BY <1>4 DEF GivesUp, DroneHosted, Waits, Placed
  <2> QED BY <1>1, <1>4, <2>1, RestHost DEF GivesUp, Goes, Asks, KeepsAll,
         KeepsExchange, DroneHosted
<1>5. CASE Leaves
  <2>1. dtodo = <<>> BY <1>5 DEF Leaves, DroneHosted, Waits
  <2>2. Asked("drain")' /\ dtodo' # <<>>
    BY <1>5, <2>1, SoleDrain DEF Leaves, Asked, Asks
  <2>3. SwitchWaits' BY <1>5, <2>2 DEF Leaves, Goes, SwitchWaits
  <2> QED BY <1>5, <2>2, <2>3, BusyHost DEF Leaves, Goes, KeepsAll,
         KeepsExchange, DroneHosted
<1>6. CASE TunesAnyway
  <2>1. dtodo = <<>> \/ Asked("drain")
    BY <1>6 DEF TunesAnyway, DroneHosted, Waits, SwitchWaits
  <2>2. /\ dtodo' = dtodo \o retune(drone.commit_target)
        /\ drone'.commit_target = drone.commit_target
        /\ drone'.st = "Switching" /\ drone'.phase = "Retuning"
        /\ drone'.fallback_mode = 0
    BY <1>6 DEF TunesAnyway, Goes, KeepsAll, KeepsExchange, Asks, DroneHosted
  <2>3. CASE dtodo = <<>>
    <3>1. AskedRetune(drone.commit_target)' /\ dtodo' # <<>>
      BY <2>2, <2>3, SoleRetune DEF AskedRetune, Asked
    <3> QED BY <2>2, <3>1, BusyHost DEF SwitchWaits
  <2>4. CASE Asked("drain")
    <3> DEFINE o == [op |-> "retune", ch |-> drone.commit_target, after |-> NoFrame]
    <3>1. dtodo' = dtodo \o <<o>> BY <2>2 DEF retune
    <3>2. o.op = "retune" /\ o.ch = drone.commit_target OBVIOUS
    <3>5. o \in HostOps BY DEF TypeOK, DroneType, HostOps
    <3> HIDE DEF o
    <3>3. /\ Len(dtodo') = 2 /\ dtodo'[1] = dtodo[1] /\ dtodo'[2] = o
          /\ dtodo' # <<>>
      BY <1>0, <2>4, <3>1, <3>5, OneMore DEF Asked
    <3>4. LateDrain' /\ dtodo' # <<>>
      BY <2>2, <2>4, <3>2, <3>3 DEF LateDrain, Asked
    <3> QED BY <2>2, <3>4, BusyHost DEF SwitchWaits
  <2> QED BY <2>1, <2>3, <2>4
<1>7. CASE GoesBack
  <2>1. dtodo = <<>> BY <1>7 DEF GoesBack, DroneHosted, Waits
  <2>2. /\ dtodo' = dtodo \o retune(drone.commit_source)
        /\ drone'.commit_source = drone.commit_source
        /\ drone'.st = "Rollback" /\ drone'.fallback_mode = 0
    BY <1>2, <1>7 DEF GoesBack, Goes, KeepsAll, KeepsExchange, Asks, DroneHosted
  <2>3. AskedRetune(drone.commit_source)' /\ dtodo' # <<>>
    BY <2>1, <2>2, SoleRetune DEF AskedRetune, Asked
  <2> QED BY <2>2, <2>3, BusyHost
<1> QED BY <1>3, <1>4, <1>5, <1>6, <1>7 DEF HandlesTick

\* What the machine waits for when the first operation is of this kind.
LEMMA FirstWaits ==
    ASSUME TypeOK, DroneHosted, dtodo # <<>>
    PROVE  /\ Head(dtodo).op = "drain" =>
                \/ /\ \/ drone.st = "Validating" /\ drone.pp = "Drain"
                      \/ drone.st = "Switching" /\ drone.phase = "Draining"
                   /\ Tail(dtodo) = <<>>
                \/ drone.st = "Switching" /\ drone.phase = "Retuning" /\ LateDrain
           /\ Head(dtodo).op = "sample" =>
                /\ drone.st = "Validating" /\ drone.pp = "Sampling"
                /\ Tail(dtodo) = <<>>
           /\ Head(dtodo).op = "retune" =>
                /\ Tail(dtodo) = <<>>
                /\ \/ drone.st = "Stable" /\ MaxRetuneFails # 0
                   \/ /\ drone.st = "Validating" /\ drone.pp = "Retune"
                      /\ Head(dtodo).ch = drone.commit_target
                   \/ /\ drone.st = "Validating" /\ drone.pp = "Return"
                      /\ Head(dtodo).ch = drone.commit_source
                   \/ /\ drone.st = "Switching" /\ drone.phase = "Retuning"
                      /\ Head(dtodo).ch = drone.commit_target
                   \/ /\ drone.st = "Switching" /\ drone.phase = "RollbackRetune"
                      /\ Head(dtodo).ch = drone.commit_source /\ MaxRetuneFails # 0
                   \/ /\ drone.st = "Rollback"
                      /\ Head(dtodo).ch = drone.commit_source
<1>0. dtodo \in Seq(HostOps) /\ drone.st \in DroneStates BY DEF TypeOK, DroneType
<1>1. Len(dtodo) = 1 => Tail(dtodo) = <<>> /\ Head(dtodo) = dtodo[1] BY <1>0, FirstOp
<1>2. Len(dtodo) = 2 => Head(dtodo) = dtodo[1] BY <1>0, FirstOp
<1>3. CASE drone.st = "Stable" BY <1>1, <1>3 DEF DroneHosted, Waits, Asked
<1>4. CASE drone.st = "Validating"
  BY <1>1, <1>4 DEF DroneHosted, Waits, ProbeWaits, Asked, AskedRetune
<1>5. CASE drone.st \in {"Committed", "Verifying"} BY <1>5 DEF DroneHosted, Waits
<1>6. CASE drone.st = "Switching"
  BY <1>1, <1>2, <1>6 DEF DroneHosted, Waits, SwitchWaits, Asked, AskedRetune, LateDrain
<1>7. CASE drone.st = "Rollback"
  BY <1>1, <1>7 DEF DroneHosted, Waits, Asked, AskedRetune
<1> QED BY <1>0, <1>3, <1>4, <1>5, <1>6, <1>7 DEF DroneStates

\* A late drain leaves the retune behind it.
LEMMA LateDrainEnds ==
    ASSUME TypeOK, DroneHosted, drone.st = "Switching", drone.phase = "Retuning",
           LateDrain, dtodo' = Tail(dtodo), dradio' = dradio, KeepsExchange,
           Goes(drone.st, drone.phase, drone.pp, drone.current)
    PROVE  DroneHosted'
<1>0. dtodo \in Seq(HostOps) BY DEF TypeOK
<1>1. Len(Tail(dtodo)) = 1 /\ Tail(dtodo)[1] = dtodo[2]
  BY <1>0, FirstOp DEF LateDrain
<1>2. AskedRetune(drone.commit_target)'
  BY <1>1 DEF AskedRetune, Asked, LateDrain, KeepsExchange
<1>3. Tail(dtodo) # <<>>
  <2> SUFFICES ASSUME Tail(dtodo) = <<>> PROVE FALSE OBVIOUS
  <2>1. Len(<<>>) = 1 BY <1>1
  <2> QED BY <2>1, EmptySeq
<1> QED BY <1>2, <1>3, BusyHost DEF SwitchWaits, Goes, KeepsExchange, DroneHosted

\* The drains and the samples keep DroneHosted.
LEMMA DrainHost ==
    ASSUME TypeOK, DroneHosted, HandlesDrain \/ HandlesSample \/ DrainStall
    PROVE  DroneHosted'
<1>0. dtodo \in Seq(HostOps) BY DEF TypeOK
<1>1. dtodo # <<>> BY DEF HandlesDrain, HandlesSample, DrainStall
<1>2. Tail(dtodo) \o <<>> = Tail(dtodo) BY <1>0, <1>1, FirstOp
<1>f. drone.fallback_mode = 0 BY DEF DroneHosted
<1>3. ASSUME HandlesDrain, DrainedToSwitch PROVE DroneHosted'
  <2>1. Tail(dtodo) = <<>>
    BY <1>1, <1>3, FirstWaits DEF HandlesDrain, DrainedToSwitch
  <2>2. /\ dtodo' = Tail(dtodo) \o retune(drone.commit_target)
        /\ drone'.commit_target = drone.commit_target /\ drone'.fallback_mode = 0
        /\ drone'.st = "Switching" /\ drone'.phase = "Retuning"
    BY <1>3, <1>f DEF DrainedToSwitch, Performs, Goes, KeepsAll, KeepsExchange
  <2>3. AskedRetune(drone.commit_target)' /\ dtodo' # <<>>
    BY <2>1, <2>2, SoleRetune DEF AskedRetune, Asked
  <2> QED BY <2>2, <2>3, BusyHost DEF SwitchWaits
<1>4. ASSUME HandlesDrain, DrainedToProbe PROVE DroneHosted'
  <2>1. Tail(dtodo) = <<>>
    BY <1>1, <1>4, FirstWaits DEF HandlesDrain, DrainedToProbe
  <2>2. /\ dtodo' = Tail(dtodo) \o retune(drone.commit_target)
        /\ drone'.commit_target = drone.commit_target /\ drone'.fallback_mode = 0
        /\ drone'.st = "Validating" /\ drone'.pp = "Retune"
    BY <1>4, <1>f DEF DrainedToProbe, Performs, Goes, KeepsAll, KeepsExchange
  <2>3. AskedRetune(drone.commit_target)' /\ dtodo' # <<>>
    BY <2>1, <2>2, SoleRetune DEF AskedRetune, Asked
  <2> QED BY <2>2, <2>3, BusyHost DEF ProbeWaits
<1>5. ASSUME HandlesDrain, DrainedForNothing PROVE DroneHosted'
  <2>1. drone.st = "Switching" /\ drone.phase = "Retuning" /\ LateDrain
    BY <1>1, <1>5, FirstWaits DEF HandlesDrain, DrainedForNothing
  <2> QED BY <1>2, <1>5, <2>1, LateDrainEnds DEF DrainedForNothing, Idles, KeepsAll,
         Performs
<1>6. ASSUME HandlesSample PROVE DroneHosted'
  <2>1. /\ Tail(dtodo) = <<>> /\ drone.st = "Validating" /\ drone.pp = "Sampling"
    BY <1>1, <1>6, FirstWaits DEF HandlesSample
  <2>2. Sampled BY <1>6, <2>1 DEF HandlesSample, SampledForNothing
  <2>3. /\ dtodo' = Tail(dtodo) \o retune(drone.commit_source)
        /\ drone'.commit_source = drone.commit_source /\ drone'.fallback_mode = 0
        /\ drone'.st = "Validating" /\ drone'.pp = "Return"
    BY <2>2, <1>f DEF Sampled, Performs, Goes, KeepsAll, KeepsExchange
  <2>4. AskedRetune(drone.commit_source)' /\ dtodo' # <<>>
    BY <2>1, <2>3, SoleRetune DEF AskedRetune, Asked
  <2> QED BY <2>3, <2>4, BusyHost DEF ProbeWaits
<1>7. ASSUME DrainStall PROVE DroneHosted'
  <2>1. /\ Head(dtodo).op = "drain" /\ ~ HostLocked /\ dtodo' = Tail(dtodo)
        /\ drone' = drone /\ dradio' = dradio
    BY <1>7 DEF DrainStall, medium
  <2>2. CASE drone.st = "Switching" /\ drone.phase = "Retuning" /\ LateDrain
    BY <2>1, <2>2, LateDrainEnds DEF KeepsExchange, Goes
  <2>3. CASE /\ \/ drone.st = "Validating" /\ drone.pp = "Drain"
                \/ drone.st = "Switching" /\ drone.phase = "Draining"
             /\ Tail(dtodo) = <<>>
    BY <2>1, <2>3, <1>f DEF DroneHosted, Waits, LockedWaits, Placed, ProbeWaits,
       SwitchWaits
  <2> QED BY <1>1, <2>1, <2>2, <2>3, FirstWaits
<1> QED BY <1>3, <1>4, <1>5, <1>6, <1>7 DEF HandlesDrain

\* The retunes keep DroneHosted; only a budget for it lets one throw.
LEMMA RetuneHost ==
    ASSUME TypeOK, DroneHosted, NEW ok \in BOOLEAN, HandlesRetune(ok),
           ~ ok => MaxRetuneFails # 0
    PROVE  DroneHosted'
<1>0. dtodo \in Seq(HostOps) BY DEF TypeOK
<1>1. dtodo # <<>> /\ Head(dtodo).op = "retune" BY DEF HandlesRetune
<1>2. Tail(dtodo) = <<>> BY <1>1, FirstWaits
<1>3. Tail(dtodo) \o <<>> = <<>> BY <1>2, SoleOp
<1>4. fallback_channel(drone) = drone.commit_source /\ drone.fallback_mode = 0
  BY DEF DroneHosted, fallback_channel
<1>5. ok => Tuned(ok) = Head(dtodo).ch BY DEF Tuned
<1> USE DEF KeepsAll, KeepsExchange, Goes, Performs
<1>6. CASE Arrives
  <2>1. Head(dtodo).ch = drone.commit_target BY <1>1, <1>6, FirstWaits DEF Arrives
  <2> QED BY <1>3, <1>4, <1>6, <2>1, RestHost DEF Arrives
<1>7. CASE FailsOver /\ ~ ok
  <2>1. /\ dtodo' = Tail(dtodo) \o retune(drone.commit_source)
        /\ drone'.commit_source = drone.commit_source /\ drone'.fallback_mode = 0
        /\ drone'.st = "Switching" /\ drone'.phase = "RollbackRetune"
    BY <1>4, <1>7 DEF FailsOver
  <2>2. AskedRetune(drone.commit_source)' /\ dtodo' # <<>>
    BY <1>2, <2>1, SoleRetune DEF AskedRetune, Asked
  <2> QED BY <1>7, <2>1, <2>2, BusyHost DEF SwitchWaits
<1>8. CASE FallsBack(ok)
  <2>1. /\ drone'.st = "Stable" /\ drone'.current = drone.commit_source
        /\ dtodo' = <<>> /\ drone'.fallback_mode = 0 /\ dradio' = Tuned(ok)
    BY <1>3, <1>4, <1>8 DEF FallsBack
  <2>2. Head(dtodo).ch = drone.commit_source
    BY <1>1, <1>8, FirstWaits DEF FallsBack
  <2> QED BY <1>5, <2>1, <2>2, RestHost
<1>9. CASE LastResort /\ ~ ok
  <2>1. /\ dtodo' = Tail(dtodo) \o RetuneThenSend(drone.commit_rescue, abort_msg(drone, 1))
        /\ drone'.fallback_mode = 0 /\ drone'.st = "Stable"
    BY <1>4, <1>9 DEF LastResort
  <2>2. Asked("retune")' /\ dtodo' # <<>> BY <1>2, <2>1, SoleRetune DEF Asked
  <2> QED BY <1>9, <2>1, <2>2, BusyHost
<1>10. CASE Probes(ok)
  <2>1. /\ drone'.commit_source = drone.commit_source /\ drone'.fallback_mode = 0
        /\ drone'.st = "Validating"
    BY <1>4, <1>10 DEF Probes
  <2>2. CASE drone'.pp = "Sampling" /\ dtodo' = Tail(dtodo) \o SampleNow
    BY <1>2, <2>1, <2>2, SoleSample, BusyHost DEF ProbeWaits, Asked
  <2>3. CASE drone'.pp = "Return" /\ dtodo' = Tail(dtodo) \o retune(drone.commit_source)
    <3>1. AskedRetune(drone.commit_source)' /\ dtodo' # <<>>
      BY <1>2, <2>1, <2>3, SoleRetune DEF AskedRetune, Asked
    <3> QED BY <2>1, <2>3, <3>1, BusyHost DEF ProbeWaits
  <2> QED BY <1>10, <2>2, <2>3 DEF Probes
<1>11. CASE ProbeEnds(ok) \/ (ok /\ ProbeCommits)
  <2>1. /\ drone'.st \in {"Stable", "Committed"} /\ dtodo' = <<>>
        /\ drone'.fallback_mode = 0
        /\ ok => drone'.current = drone.commit_source /\ dradio' = Head(dtodo).ch
    BY <1>3, <1>4, <1>5, <1>11 DEF ProbeEnds, ProbeCommits
  <2>2. Head(dtodo).ch = drone.commit_source
    BY <1>1, <1>11, FirstWaits DEF ProbeEnds, ProbeCommits
  <2> QED BY <2>1, <2>2, RestHost
<1>12. CASE RetunedForNothing(ok)
  <2>1. drone.st = "Stable" /\ MaxRetuneFails # 0
    BY <1>1, <1>12, FirstWaits DEF RetunedForNothing
  <2> QED BY <1>3, <1>4, <1>12, <2>1, RestHost DEF RetunedForNothing, Idles
<1> QED BY <1>6, <1>7, <1>8, <1>9, <1>10, <1>11, <1>12 DEF HandlesRetune

\* Every proposal the ground sends asks for the source as the fallback.
LEMMA NextFallback ==
    ASSUME TypeOK, SourceFallback, [Next]_vars
    PROVE  \A m \in dq' : m.type = "PROPOSAL" => m.fallback_mode = 0
<1>1. CASE dq' \subseteq dq BY <1>1 DEF SourceFallback
<1>2. CASE DroneRestart BY <1>2 DEF DroneRestart
<1>3. CASE Tick BY <1>1, <1>3, ElapseIdles
<1>4. CASE GroundRestart BY <1>1, <1>4 DEF GroundRestart, Ground_restart
<1>5. CASE GroundMoves
  <2>1. ASSUME NEW m \in dq', m \notin dq, m.type = "PROPOSAL"
        PROVE  m \in {make_proposal(ground), make_proposal(ground')}
    <3> USE DEF Sends
    <3>c. ASSUME NEW g PROVE make_confirm(g).type = "CONFIRM" BY DEF make_confirm
    <3>1. CASE Proposes \/ Reproposes \/ Ends \/ Passes \/ Scans \/ CountsFrame \/ Reconfirms
      BY <2>1, <3>1, <3>c DEF Proposes, Reproposes, Ends, Passes, Scans, CountsFrame,
         Reconfirms
    <3>2. CASE \E k \in gq : TakesCommit(k) \/ GoesAfter(k)
      BY <2>1, <3>2, <3>c DEF TakesCommit, GoesAfter
    <3>3. CASE Awaits BY <2>1, <3>3 DEF Awaits
    <3>4. CASE Retuned BY <2>1, <3>4 DEF Retuned
    <3> QED BY <1>5, <3>1, <3>2, <3>3, <3>4 DEF GroundMoves
  <2>2. ASSUME NEW g PROVE make_proposal(g).fallback_mode = 0 BY DEF make_proposal
  <2> QED BY <2>1, <2>2 DEF SourceFallback
<1> QED BY <1>1, <1>2, <1>3, <1>4, <1>5, StepMoves, GroundStepMoves

\* HostInv holds initially.
LEMMA InitHost == Init => HostInv
BY DEF Init, DroneInit, NewDrone, HostInv, Waits, LockedWaits, Placed, SourceFallback

\* HostInv is inductive where Hosted holds.
LEMMA NextHost ==
    ASSUME TypeOK, Hosted, HostInv, [Next]_vars
    PROVE  HostInv'
<1>1. DroneHosted /\ SourceFallback BY DEF HostInv, DroneHosted, SourceFallback
<1>2. DroneHosted'
  <2>1. CASE DroneRests
    <3>1. /\ KeepsExchange /\ Goes(drone.st, drone.phase, drone.pp, drone.current)
          /\ dtodo' = dtodo /\ dradio' = dradio
      BY <2>1 DEF DroneRests, KeepsExchange, Goes
    <3> QED BY <1>1, <3>1, IdleHost
  <2>2. CASE Tick BY <1>1, <2>2, ElapseIdles, IdleHost DEF Idles, KeepsAll
  <2>3. CASE DroneRestart
    <3>1. /\ dtodo' = <<>> /\ dradio' = Source /\ drone' = NewDrone(drone.epoch + 1)
      BY <2>3 DEF DroneRestart, Drone_restart
    <3>2. drone'.st = "Stable" /\ drone'.fallback_mode = 0 /\ drone'.current = Source
      BY <3>1 DEF NewDrone
    <3> QED BY <3>1, <3>2, RestHost
  <2>4. CASE DroneMoves
    <3>1. Spend("retune") => MaxRetuneFails # 0
      BY LinkAssumption DEF Spend, Limit, Faults, TypeOK
    <3>2. CASE HandlesRetune(TRUE) BY <1>1, <3>2, RetuneHost
    <3>3. CASE HandlesRetune(FALSE) /\ Spend("retune") BY <1>1, <3>1, <3>3, RetuneHost
    <3> QED BY <1>1, <2>4, <3>2, <3>3, FrameHost, TickHost, DrainHost DEF DroneMoves
  <2> QED BY <2>1, <2>2, <2>3, <2>4, StepMoves
<1> QED BY <1>1, <1>2, NextFallback DEF HostInv, DroneHosted, SourceFallback

(***************************************************************************)
(* A settled drone knows where its radio is, as long as no retune throws:  *)
(* a retune that throws is not always noticed (on_retune_done in Rollback  *)
(* does not ask, and ProbeReturned believes in the rescue channel), which  *)
(* is why MaxRetuneFails = 0.  It also takes a host that holds its lock    *)
(* over a handler's actions, as the demo does, or a ground that does not   *)
(* restart: otherwise a proposal of another epoch settles the drone under  *)
(* a retune that is still outstanding.                                     *)
(***************************************************************************)
THEOREM KnowsItsChannel ==
    ASSUME MaxRetuneFails = 0, HostLocked \/ MaxGroundRestarts = 0
    PROVE  Spec => []DroneKnowsItsChannel
<1> DEFINE One == MaxGroundRestarts = 0 => OneGround /\ WindowInv
           Inv == TypeOK /\ One /\ HostInv
<1>1. Init => Inv
  <2>1. Init => OneGround
    BY DEF Init, GroundInit, DroneInit, NewGround, NewDrone, OneGround, Engaged
  <2> QED BY <2>1, InitType, InitWindow, InitHost
<1>2. Inv /\ [Next]_vars => Inv'
  <2> SUFFICES ASSUME Inv, [Next]_vars PROVE Inv' OBVIOUS
  <2>1. Hosted BY DEF Hosted
  <2>2. TypeOK' BY NextType
  <2>3. HostInv' BY <2>1, NextHost
  <2>4. One' BY NextOneGround, NextWindow
  <2> QED BY <2>2, <2>3, <2>4
<1>3. Inv => DroneKnowsItsChannel BY DEF HostInv, Placed, DroneKnowsItsChannel
<1> QED BY <1>1, <1>2, <1>3, PTL DEF Spec

------------------------------------------------------------------------------
(***************************************************************************)
(* What the ground tunes for.  The operations the drone's host is asked    *)
(* for and the aborts the drone airs, first.                               *)
(***************************************************************************)

\* The operation asked for leaves the frames behind retunes as they are.
PlainOp(o) == o.after = NoFrame

\* The operation a straying drone asks for.
StrayOp(o) ==
    \E m \in dq : /\ m \in Proposals /\ EpochChange(m)
                  /\ o.after = status_reject(drone, m.generation, "Busy")

\* The operation a drone asks for when its fallback has thrown, too.
LastOp(o) == LastResort /\ Spend("retune") /\ o.after = abort_msg(drone, 1)

\* Where the operations are from that are outstanding after one more.
LEMMA OpsAfter ==
    ASSUME NEW s \in Seq(HostOps), NEW o \in HostOps, dtodo' = s \o <<o>>
    PROVE  \A i \in 1 .. Len(dtodo') :
              (\E j \in 1 .. Len(s) : dtodo'[i] = s[j]) \/ dtodo'[i] = o
<1> SUFFICES ASSUME NEW i \in 1 .. Len(dtodo')
             PROVE  (\E j \in 1 .. Len(s) : dtodo'[i] = s[j]) \/ dtodo'[i] = o
  OBVIOUS
<1> DEFINE t == <<o>>
<1>1. t \in Seq(HostOps) /\ Len(t) = 1 /\ t[1] = o OBVIOUS
<1>2. dtodo' = s \o t OBVIOUS
<1> HIDE DEF t
<1>3. /\ Len(s \o t) = Len(s) + Len(t)
      /\ \A k \in 1 .. Len(s) + Len(t) :
            (s \o t)[k] = IF k <= Len(s) THEN s[k] ELSE t[k - Len(s)]
  BY <1>1, ConcatProperties, Zenon
<1>4. Len(s) \in Nat OBVIOUS
<1>5. i \in 1 .. Len(s) + 1 BY <1>1, <1>2, <1>3
<1>6. CASE i <= Len(s) BY <1>1, <1>2, <1>3, <1>4, <1>5, <1>6
<1>7. CASE ~ i <= Len(s)
  <2>1. i = Len(s) + 1 /\ i - Len(s) = 1 BY <1>4, <1>5, <1>7
  <2>2. dtodo'[i] = t[i - Len(s)] BY <1>1, <1>2, <1>3, <1>5, <1>7
  <2> QED BY <1>1, <2>1, <2>2
<1> QED BY <1>6, <1>7

\* Operations of s, and one with no frame behind it.
LEMMA PlainAfter ==
    ASSUME NEW s \in Seq(HostOps), NEW c \in AnyChannel,
           \/ dtodo' = s \o <<>> \/ dtodo' = s \o StartDrain
           \/ dtodo' = s \o SampleNow \/ dtodo' = s \o retune(c)
    PROVE  \A i \in 1 .. Len(dtodo') :
              (\E j \in 1 .. Len(s) : dtodo'[i] = s[j]) \/ PlainOp(dtodo'[i])
<1>1. ASSUME NEW k \in {"drain", "retune", "sample"}, NEW ch \in AnyChannel,
             dtodo' = s \o <<[op |-> k, ch |-> ch, after |-> NoFrame]>>
      PROVE  \A i \in 1 .. Len(dtodo') :
                (\E j \in 1 .. Len(s) : dtodo'[i] = s[j]) \/ PlainOp(dtodo'[i])
  <2> DEFINE o == [op |-> k, ch |-> ch, after |-> NoFrame]
  <2>1. o \in HostOps /\ PlainOp(o) BY DEF HostOps, PlainOp
  <2>2. dtodo' = s \o <<o>> BY <1>1
  <2> HIDE DEF o
  <2> QED BY <2>1, <2>2, OpsAfter
<1>2. CASE dtodo' = s \o <<>>
  <2>1. s \o <<>> = s OBVIOUS
  <2> QED BY <1>2, <2>1
<1>3. NoChannel \in AnyChannel BY DEF AnyChannel
<1> QED BY <1>1, <1>2, <1>3 DEF StartDrain, SampleNow, retune

\* Operations of s, and one with a frame behind it.
LEMMA BehindAfter ==
    ASSUME NEW s \in Seq(HostOps), NEW c \in AnyChannel,
           NEW m \in Statuses \cup Aborts, dtodo' = s \o RetuneThenSend(c, m)
    PROVE  \A i \in 1 .. Len(dtodo') :
              (\E j \in 1 .. Len(s) : dtodo'[i] = s[j]) \/ dtodo'[i].after = m
<1> DEFINE o == [op |-> "retune", ch |-> c, after |-> m]
<1>1. o \in HostOps /\ o.after = m BY DEF HostOps
<1>2. dtodo' = s \o <<o>> BY DEF RetuneThenSend
<1> HIDE DEF o
<1> QED BY <1>1, <1>2, OpsAfter

\* The frames behind the operations outstanding after a step of the drone.
LEMMA DroneAsks ==
    ASSUME TypeOK, DroneMoves
    PROVE  \A i \in 1 .. Len(dtodo') :
              \/ \E j \in 1 .. Len(dtodo) : dtodo'[i] = dtodo[j]
              \/ PlainOp(dtodo'[i]) \/ StrayOp(dtodo'[i]) \/ LastOp(dtodo'[i])
<1> DEFINE From(o) == \E j \in 1 .. Len(dtodo) : o = dtodo[j]
<1>0. /\ dtodo \in Seq(HostOps) /\ drone \in DroneType
      /\ drone.commit_target \in AnyChannel /\ drone.commit_source \in AnyChannel
      /\ drone.commit_rescue \in AnyChannel
      /\ fallback_channel(drone) \in AnyChannel
  BY DEF TypeOK, DroneType, fallback_channel
<1>1. ASSUME NEW c \in AnyChannel, NEW ops \in {<<>>, StartDrain, SampleNow, retune(c)},
             Asks(ops)
      PROVE  \A i \in 1 .. Len(dtodo') : From(dtodo'[i]) \/ PlainOp(dtodo'[i])
  BY <1>0, <1>1, PlainAfter DEF Asks
<1>2. ASSUME dtodo # <<>>
      PROVE  /\ Tail(dtodo) \in Seq(HostOps)
             /\ \A j \in 1 .. Len(Tail(dtodo)) : From(Tail(dtodo)[j])
  BY <1>0, <1>2
<1>3. ASSUME NEW ch, NEW c \in AnyChannel,
             NEW ops \in {<<>>, StartDrain, SampleNow, retune(c)}, Performs(ch, ops)
      PROVE  \A i \in 1 .. Len(dtodo') : From(dtodo'[i]) \/ PlainOp(dtodo'[i])
  <2> DEFINE s == Tail(dtodo)
  <2>1. /\ s \in Seq(HostOps) /\ dtodo' = s \o ops
        /\ \A j \in 1 .. Len(s) : From(s[j])
    BY <1>2, <1>3 DEF Performs
  <2> HIDE DEF s, From
  <2>2. \A i \in 1 .. Len(dtodo') :
           (\E j \in 1 .. Len(s) : dtodo'[i] = s[j]) \/ PlainOp(dtodo'[i])
    BY <1>3, <2>1, PlainAfter
  <2> QED BY <2>1, <2>2
<1> HIDE DEF From
<1>4. CASE HandlesFrame
  <2>1. PICK m \in dq :
          \/ m \in Proposals /\ (Strays(m) \/ Repeated(m) \/ Refuses(m) \/ Begins(m))
          \/ (Idles \/ Settles(m)) /\ Airs({}) /\ Asks(<<>>)
    BY <1>4 DEF HandlesFrame
  <2>2. CASE m \in Proposals /\ Strays(m)
    <3> DEFINE r == status_reject(drone, m.generation, "Busy")
    <3>1. r \in Statuses
      <4>1. m.generation \in Gens /\ "Busy" \in Reasons BY <2>2 DEF Proposals, Reasons
      <4> QED BY <1>0, <4>1, DroneMessages, Zenon
    <3>2. dtodo' = dtodo \o RetuneThenSend(drone.commit_source, r) /\ EpochChange(m)
      BY <2>2 DEF Strays, Asks
    <3>3. \A o : o.after = r => StrayOp(o) BY <2>1, <2>2, <3>2 DEF StrayOp
    <3> HIDE DEF r
    <3>4. \A i \in 1 .. Len(dtodo') :
             (\E j \in 1 .. Len(dtodo) : dtodo'[i] = dtodo[j]) \/ dtodo'[i].after = r
      <4>1. /\ dtodo \in Seq(HostOps) /\ drone.commit_source \in AnyChannel
            /\ r \in Statuses \cup Aborts
        BY <1>0, <3>1
      <4> QED BY ONLY <3>2, <4>1, BehindAfter
    <3> QED BY <3>3, <3>4
  <2>3. CASE Asks(<<>>) \/ Asks(StartDrain) BY <1>0, <1>1, <2>3 DEF From
  <2> QED BY <2>1, <2>2, <2>3 DEF Repeated, Refuses, Begins
<1>5. CASE HandlesTick
  BY <1>0, <1>1, <1>5 DEF HandlesTick, GivesUp, Reports, Leaves, TunesAnyway, GoesBack,
     From
<1>6. CASE HandlesDrain
  BY <1>0, <1>3, <1>6 DEF HandlesDrain, DrainedToSwitch, DrainedToProbe,
     DrainedForNothing, From
<1>7. CASE HandlesSample
  BY <1>0, <1>3, <1>7 DEF HandlesSample, Sampled, SampledForNothing, From
<1>8. CASE LastResort /\ Spend("retune")
  <2> DEFINE s == Tail(dtodo)
             a == abort_msg(drone, 1)
             c == drone.commit_rescue
  <2>1. /\ s \in Seq(HostOps) /\ \A j \in 1 .. Len(s) : From(s[j])
        /\ dtodo' = s \o RetuneThenSend(c, a) /\ c \in AnyChannel
    BY <1>0, <1>2, <1>8 DEF LastResort, Performs
  <2>2. a \in Statuses \cup Aborts
    <3>1. drone.gen \in Gens /\ "Busy" \in Reasons BY <1>0 DEF DroneType, Reasons
    <3> QED BY <1>0, <3>1, DroneMessages, Zenon
  <2>3. \A o : o.after = a => LastOp(o) BY <1>8 DEF LastOp
  <2> HIDE DEF s, a, c
  <2>4. \A i \in 1 .. Len(dtodo') :
           (\E j \in 1 .. Len(s) : dtodo'[i] = s[j]) \/ dtodo'[i].after = a
    BY <2>1, <2>2, BehindAfter
  <2> QED BY ZenonT(60), <2>1, <2>3, <2>4 DEF From
<1>9. ASSUME NEW ok \in BOOLEAN, HandlesRetune(ok), ok \/ ~ LastResort
      PROVE  \A i \in 1 .. Len(dtodo') : From(dtodo'[i]) \/ PlainOp(dtodo'[i])
  BY <1>0, <1>3, <1>9 DEF HandlesRetune, Arrives, FailsOver, FallsBack, Probes,
     ProbeEnds, ProbeCommits, RetunedForNothing
<1>10. CASE DrainStall
  <2>1. dtodo # <<>> /\ dtodo' = Tail(dtodo) BY <1>10 DEF DrainStall
  <2> QED BY <1>2, <2>1 DEF From
<1>11. CASE HandlesRetune(TRUE) BY <1>9, <1>11 DEF From
<1>12. CASE HandlesRetune(FALSE) /\ Spend("retune") BY <1>8, <1>9, <1>12 DEF From
<1> QED BY <1>4, <1>5, <1>6, <1>7, <1>10, <1>11, <1>12 DEF DroneMoves

\* The aborts a step of the drone airs.
LEMMA DroneAborts ==
    ASSUME TypeOK, DroneMoves, NEW m \in gq', m \notin gq, m.type = "ABORT"
    PROVE  \/ m = abort_msg(drone, 0)
           \/ dtodo # <<>> /\ m = dtodo[1].after
<1>0. /\ dtodo \in Seq(HostOps) BY DEF TypeOK
<1>1. dtodo # <<>> => Head(dtodo) = dtodo[1] BY <1>0
<1>2. m \in Behind => m = Head(dtodo).after BY DEF Behind
<1>3. ASSUME NEW d PROVE /\ make_status(d).type = "STATUS" /\ make_commit(d).type = "COMMIT"
                         /\ \A n, w : status_reject(d, n, w).type = "STATUS"
  BY DEF make_status, make_commit, status_reject
<1>4. CASE HandlesFrame
  BY <1>3, <1>4 DEF HandlesFrame, Strays, Repeated, Refuses, Begins, Airs
<1>5. CASE HandlesTick
  <2>1. CASE Reports BY <1>3, <2>1 DEF Reports, Airs
  <2>2. CASE GivesUp BY <1>3, <2>2 DEF GivesUp, Airs
  <2>3. CASE Leaves \/ TunesAnyway \/ GoesBack
    BY <1>3, <2>3 DEF Leaves, TunesAnyway, GoesBack, Airs
  <2> QED BY <1>5, <2>1, <2>2, <2>3 DEF HandlesTick
<1>6. CASE HandlesDrain \/ HandlesSample
  BY <1>6 DEF HandlesDrain, HandlesSample, Airs
<1>7. ASSUME NEW ok \in BOOLEAN, HandlesRetune(ok)
      PROVE  dtodo # <<>> /\ m \in Behind
  <2>1. dtodo # <<>> BY <1>7 DEF HandlesRetune
  <2>2. CASE Airs(Behind) BY <2>1, <2>2 DEF Airs
  <2>3. CASE ProbeEnds(ok) BY <1>3, <2>1, <2>3 DEF ProbeEnds, Airs
  <2>4. CASE ProbeCommits BY <1>3, <2>1, <2>4 DEF ProbeCommits, Airs
  <2> QED BY <1>7, <2>1, <2>2, <2>3, <2>4 DEF HandlesRetune, Arrives, FailsOver,
         FallsBack, LastResort, Probes, RetunedForNothing
<1>8. CASE DrainStall BY <1>8 DEF DrainStall, medium
<1> QED BY <1>1, <1>2, <1>4, <1>5, <1>6, <1>7, <1>8 DEF DroneMoves

\* The budget of retunes that throw is only ever spent.
LEMMA UsedGrows ==
    ASSUME TypeOK, [Next]_vars
    PROVE  /\ used["retune"] \in Nat /\ used'["retune"] \in Nat
           /\ used'["retune"] >= used["retune"]
<1>1. used \in [Faults -> Nat] /\ "retune" \in Faults BY DEF TypeOK, Faults
<1>2. used["retune"] \in Nat /\ used'["retune"] \in Nat
  BY <1>1, NextType DEF TypeOK
<1>3. ASSUME NEW f \in Faults, Spend(f) PROVE used'["retune"] >= used["retune"]
  <2>1. used' = [used EXCEPT ![f] = used[f] + 1] BY <1>3 DEF Spend
  <2> QED BY <1>1, <1>2, <2>1
<1>4. UNCHANGED used \/ \E f \in Faults : Spend(f)
  BY DEF Next, vars, GroundStart, GroundReceive, GroundTick, GroundRetune, HearVideo,
     HearMarker, GroundRestart, DroneReceive, DroneTick, DroneHost, DrainStall,
     DroneRestart, Lose, Tick, Faults
<1> QED BY <1>2, <1>3, <1>4

(***************************************************************************)
(* What the ground tunes for, as long as no fallback of the drone throws,  *)
(* too (MaxRetuneFails <= 1): aborts say that the drone never left, and a  *)
(* ground that follows an exchange, or has a retune outstanding, has       *)
(* adopted the commit of the generation it is in.                          *)
(***************************************************************************)
AbortFree(m) == m.type = "ABORT" => m.effective = 0

NoAbortMoves ==
    /\ \A m \in gq : AbortFree(m)
    /\ \A i \in 1 .. Len(dtodo) : AbortFree(dtodo[i].after)
    /\ drone.phase = "RollbackRetune" => used["retune"] >= 1

Adopts ==
    \E x \in adopted : x.ground_epoch = ground.epoch /\ x.generation = ground.gen

TunesAdopted ==
    /\ ground.st \in {"Committed", "Switching", "Verifying", "Recovery"} => Adopts
    /\ gtodo # <<>> => Adopts
    /\ gtodo # <<>> \/ ground.st # "Stable" => ground.gen # 0

\* NoAbortMoves is inductive.
LEMMA NextAborts ==
    ASSUME TypeOK, NoAbortMoves, MaxRetuneFails \in {0, 1}, [Next]_vars
    PROVE  NoAbortMoves'
<1>0. /\ dtodo \in Seq(HostOps) BY DEF TypeOK
<1>1. /\ used["retune"] \in Nat /\ used'["retune"] \in Nat
      /\ used'["retune"] >= used["retune"]
  BY UsedGrows
<1>2. Limit["retune"] = MaxRetuneFails BY DEF Limit, Faults
<1>3. Spend("retune") => used["retune"] = 0 /\ used'["retune"] >= 1
  <2>1. used \in [Faults -> Nat] /\ "retune" \in Faults BY DEF TypeOK, Faults
  <2> QED BY <1>1, <1>2, <2>1 DEF Spend
<1>4. CASE DroneRests /\ (Airs({}) \/ Airs(Streams))
  <2>1. \A m \in Streams : AbortFree(m) BY DEF Streams, MarkerFrame, AbortFree
  <2> QED BY <1>1, <1>4, <2>1 DEF NoAbortMoves, DroneRests, Airs, TypeOK
<1>5. CASE DroneRests /\ GroundRestart
  BY <1>1, <1>5 DEF NoAbortMoves, DroneRests, GroundRestart
<1>6. CASE Tick
  BY <1>1, <1>6, ElapseIdles DEF NoAbortMoves, Idles, Goes
<1>7. CASE DroneRestart
  <2>1. drone'.phase = "None" /\ dtodo' = <<>> /\ gq' = gq
    BY <1>7 DEF DroneRestart, Drone_restart, NewDrone
  <2>2. Len(dtodo') = 0 BY <2>1, EmptySeq
  <2> QED BY <2>1, <2>2 DEF NoAbortMoves
<1>8. CASE DroneMoves
  <2>1. \A m \in gq' : AbortFree(m)
    <3> SUFFICES ASSUME NEW m \in gq', m \notin gq, m.type = "ABORT"
                 PROVE  m.effective = 0
      BY DEF NoAbortMoves, AbortFree
    <3>1. abort_msg(drone, 0).effective = 0 BY DEF abort_msg
    <3>2. dtodo # <<>> => 1 \in 1 .. Len(dtodo) BY <1>0, EmptySeq
    <3> QED BY <1>8, <3>1, <3>2, DroneAborts DEF NoAbortMoves, AbortFree
  <2>2. \A i \in 1 .. Len(dtodo') : AbortFree(dtodo'[i].after)
    <3> SUFFICES ASSUME NEW i \in 1 .. Len(dtodo') PROVE AbortFree(dtodo'[i].after)
      OBVIOUS
    <3>1. ASSUME NEW o, PlainOp(o) PROVE AbortFree(o.after)
      BY <3>1 DEF PlainOp, AbortFree, NoFrame
    <3>2. ASSUME NEW o, StrayOp(o) PROVE AbortFree(o.after)
      BY <3>2 DEF StrayOp, AbortFree, status_reject
    <3>3. ASSUME NEW o PROVE ~ LastOp(o)
      BY <1>3, <1>1 DEF LastOp, LastResort, NoAbortMoves
    <3> QED BY <1>8, <3>1, <3>2, <3>3, DroneAsks DEF NoAbortMoves
  <2>3. drone'.phase = "RollbackRetune" =>
          drone.phase = "RollbackRetune" \/ Spend("retune")
    <3> USE DEF Goes
    <3>1. CASE HandlesFrame
      BY <3>1 DEF HandlesFrame, Strays, Repeated, Refuses, Begins, FoundPhase, Idles,
         Settles
    <3>2. CASE HandlesTick
      BY <3>2 DEF HandlesTick, GivesUp, Reports, Leaves, TunesAnyway, GoesBack, Idles
    <3>3. CASE HandlesDrain \/ HandlesSample
      BY <3>3 DEF HandlesDrain, HandlesSample, DrainedToSwitch, DrainedToProbe,
         DrainedForNothing, Sampled, SampledForNothing, Idles
    <3>4. CASE HandlesRetune(TRUE)
      BY <3>4 DEF HandlesRetune, Arrives, FallsBack, Probes, ProbeEnds, ProbeCommits,
         RetunedForNothing, Idles
    <3>5. CASE DrainStall BY <3>5 DEF DrainStall
    <3> QED BY <1>8, <3>1, <3>2, <3>3, <3>4, <3>5 DEF DroneMoves
  <2> QED BY <1>1, <1>3, <2>1, <2>2, <2>3 DEF NoAbortMoves
<1> QED BY <1>4, <1>5, <1>6, <1>7, <1>8, StepMoves, GroundStepMoves

\* Time passing changes no member of the ground but its deadlines.
LEMMA ElapseGround ==
    ASSUME TypeOK, Tick
    PROVE  StaysAll /\ ground'.st = ground.st /\ gtodo' = gtodo /\ adopted' = adopted
BY DEF TypeOK, Tick, GroundElapse, GroundType, StaysAll, StaysInExchange,
   KeepsFollowing, KeepsProof, history

\* Asking for no retune leaves the outstanding ones.
LEMMA TunesMore ==
    ASSUME gtodo \in Seq(AnyChannel)
    PROVE  gtodo \o <<>> = gtodo
OBVIOUS

\* The steps of the ground keep TunesAdopted.
LEMMA GroundTunesAdopted ==
    ASSUME TypeOK, TunesAdopted, NoAbortMoves, HostLocked \/ MaxGen \in {0, 1},
           GroundMoves, Record
    PROVE  TunesAdopted'
<1>0. /\ gtodo \in Seq(AnyChannel) /\ ground \in GroundType /\ ground.gen \in Nat
  BY DEF TypeOK, GroundType, Gens
<1>1. gtodo \o <<>> = gtodo BY <1>0, TunesMore
<1>2. adopted \subseteq adopted' BY DEF Record
<1>3. ASSUME ground'.epoch = ground.epoch, ground'.gen = ground.gen, Adopts PROVE Adopts'
  BY <1>2, <1>3 DEF Adopts
<1>4. CASE Proposes /\ GroundFree
  <2>1. gtodo = <<>>
    <3>1. CASE HostLocked BY <1>4, <3>1 DEF GroundFree
    <3>2. CASE MaxGen \in {0, 1}
      BY <1>0, <1>4, <3>2 DEF Proposes, TunesAdopted
    <3> QED BY <3>1, <3>2
  <2>2. gtodo' = <<>> BY <1>1, <1>4, <2>1 DEF Proposes, Tunes
  <2> QED BY <1>0, <1>4, <2>2 DEF Proposes, TunesAdopted
<1>5. CASE Reproposes \/ Passes \/ Ends
  <2>1. /\ gtodo' = gtodo /\ ground'.epoch = ground.epoch /\ ground'.gen = ground.gen
        /\ ground'.st = ground.st \/ ground'.st = "Stable"
    BY <1>1, <1>5 DEF Reproposes, Passes, Ends, Tunes, StaysAll, StaysInExchange
  <2> QED BY <1>3, <2>1 DEF TunesAdopted
<1>6. CASE \E m \in gq : TakesCommit(m)
  <2>1. /\ ground.st = "Proposed" /\ ground'.st \in {"Committed", "Switching"}
        /\ ground'.epoch = ground.epoch /\ ground'.gen = ground.gen
    BY <1>6 DEF TakesCommit
  <2>2. GroundExchange(ground') \in adopted' BY <2>1 DEF Record
  <2>3. Adopts' BY <2>2 DEF Adopts, GroundExchange
  <2> QED BY <2>1, <2>3 DEF TunesAdopted
<1>7. ASSUME ground.st \in {"Committed", "Switching", "Verifying", "Recovery"},
             ground'.epoch = ground.epoch, ground'.gen = ground.gen
      PROVE  TunesAdopted'
  BY <1>3, <1>7 DEF TunesAdopted
<1>8. CASE \E m \in gq : GoesAfter(m)
  BY <1>7, <1>8 DEF GoesAfter, FollowsStatus, StaysInExchange
<1>9. CASE Awaits \/ CountsFrame \/ Reconfirms
  BY <1>7, <1>9 DEF Awaits, CountsFrame, Reconfirms, StaysAll, StaysInExchange
<1>10. CASE Scans
  <2>1. ground.st = "Recovery" BY <1>10 DEF Scans, NoAbortMoves, AbortFree
  <2> QED BY <1>7, <1>10, <2>1 DEF Scans, StaysAll, StaysInExchange
<1>11. CASE Retuned
  <2>1. /\ gtodo # <<>> /\ ground'.epoch = ground.epoch /\ ground'.gen = ground.gen
    BY <1>11 DEF Retuned, StaysInExchange
  <2> QED BY <1>3, <2>1 DEF TunesAdopted
<1> QED BY <1>4, <1>5, <1>6, <1>8, <1>9, <1>10, <1>11 DEF GroundMoves

\* TunesAdopted is inductive.
LEMMA NextTunes ==
    ASSUME TypeOK, TunesAdopted, NoAbortMoves, HostLocked \/ MaxGen \in {0, 1},
           [Next]_vars
    PROVE  TunesAdopted'
<1>1. CASE UNCHANGED <<groundVars, history>>
  BY <1>1 DEF groundVars, history, TunesAdopted, Adopts
<1>2. CASE Tick
  BY <1>2, ElapseGround DEF TunesAdopted, Adopts, StaysAll, StaysInExchange
<1>3. CASE DroneRestart BY <1>1, <1>3 DEF DroneRestart
<1>4. CASE GroundRestart
  BY <1>4 DEF GroundRestart, Ground_restart, NewGround, TunesAdopted
<1>5. CASE GroundMoves /\ Record BY <1>5, GroundTunesAdopted
<1> QED BY <1>1, <1>2, <1>3, <1>4, <1>5, StepMoves, GroundStepMoves

(***************************************************************************)
(* The proposer's I1 for every number of channels, losses, duplicates and  *)
(* restarts: no retune of the ground is outstanding in an exchange whose   *)
(* commit this ground process has not adopted.  Both hypotheses are        *)
(* needed.  A drone whose fallback throws after its activation threw       *)
(* (MaxRetuneFails > 1) airs an abort that sends any ground on a scan,     *)
(* whatever it has adopted; and without the host's lock a second migration *)
(* may be started while a retune of the first one is outstanding.          *)
(***************************************************************************)
THEOREM RetunesAdopted ==
    ASSUME MaxRetuneFails \in {0, 1}, HostLocked \/ MaxGen \in {0, 1}
    PROVE  Spec => []NoRetuneUnadopted
<1> DEFINE Inv == TypeOK /\ NoAbortMoves /\ TunesAdopted
<1>1. Init => Inv
  <2>1. Len(<<>>) = 0 BY EmptySeq
  <2>2. Init => NoAbortMoves
    BY <2>1 DEF Init, DroneInit, NewDrone, NoAbortMoves
  <2>3. Init => TunesAdopted BY DEF Init, GroundInit, NewGround, TunesAdopted
  <2> QED BY <2>2, <2>3, InitType
<1>2. Inv /\ [Next]_vars => Inv' BY NextType, NextAborts, NextTunes
<1>3. Inv => NoRetuneUnadopted BY DEF TunesAdopted, Adopts, NoRetuneUnadopted
<1> QED BY <1>1, <1>2, <1>3, PTL DEF Spec

------------------------------------------------------------------------------
(***************************************************************************)
(* Settling on the target, in a link whose processes do not restart and    *)
(* whose hosts hold their lock.  The generations put the past in order: an *)
(* exchange the drone's window has seen, and that is not under way, never  *)
(* gets under way again.                                                   *)
(***************************************************************************)
InProgress == drone.st \in {"Validating", "Committed", "Switching"}

\* Exchange g got as far as the target, or ended before.
Past(g) == g <= drone.rw.max_gen /\ ~ (drone.gen = g /\ InProgress)

\* Exchange g ended, or its target has been proved.
Done(g) ==
    /\ Past(g)
    /\ drone.gen = g /\ drone.st = "Verifying" => DroneExchange(drone) \in proved

\* What the drone holds between its handlers.
DroneSteady ==
    /\ drone.epoch = 1
    /\ drone.markers_on => drone.st = "Verifying"
    /\ drone.st \in {"Committed", "Switching", "Verifying"}
         => drone.drone_nonce = DroneNonce(1, drone.gen)
    /\ \A i \in 1 .. Len(dtodo) : dtodo[i].after.type # "STATUS"

\* A step within an exchange: it goes forward.
GoesOn ==
    /\ drone'.gen = drone.gen /\ drone'.commit_target = drone.commit_target
    /\ drone'.rw.max_gen >= drone.rw.max_gen
    /\ InProgress' => InProgress
    /\ Engaged' => Engaged
    /\ drone'.st = "Verifying" =>
          \/ drone.st = "Switching"
          \/ drone.st = "Verifying" /\ DroneExchange(drone') = DroneExchange(drone)

\* A step into a new exchange.
StartsNew ==
    /\ drone'.gen > drone.rw.max_gen /\ drone'.rw.max_gen >= drone'.gen
    /\ InProgress'

\* What a step of the drone does within these bounds.
Steady ==
    /\ drone'.epoch = drone.epoch
    /\ drone'.markers_on =>
          \/ drone'.st = "Verifying"
          \/ drone.markers_on /\ drone.st # "Verifying"
    /\ drone'.st \in {"Committed", "Switching", "Verifying"} =>
          \/ drone'.drone_nonce = DroneNonce(drone.epoch, drone'.gen)
          \/ /\ drone'.drone_nonce = drone.drone_nonce /\ drone'.gen = drone.gen
             /\ drone.st \in {"Committed", "Switching", "Verifying"}

\* Every step of the drone goes on or starts anew.
LEMMA DroneGoesOn ==
    ASSUME TypeOK, OneGround, WindowInv, DroneMoves
    PROVE  (GoesOn \/ StartsNew) /\ Steady
<1>0. /\ drone.rw.max_gen \in Nat /\ drone.gen \in Nat
  BY DEF TypeOK, DroneType, ReplayWindow, Gens
<1> USE DEF InProgress, Engaged, Goes
<1>1. ASSUME KeepsExchange, KeepsNonce, drone'.rw.max_gen >= drone.rw.max_gen,
             \/ drone'.st = drone.st /\ drone'.markers_on = drone.markers_on
             \/ drone'.st \in {"Stable", "Rollback"} /\ drone'.markers_on = FALSE
             \/ /\ drone'.st = "Stable" /\ drone.st # "Verifying"
                /\ drone'.markers_on = drone.markers_on
             \/ /\ drone'.st = "Switching" /\ drone.st = "Committed"
                /\ drone'.markers_on = drone.markers_on
             \/ drone'.st = "Verifying" /\ drone.st = "Switching"
      PROVE  GoesOn /\ Steady
  BY <1>1 DEF KeepsExchange, KeepsNonce, GoesOn, Steady, DroneExchange
<1>2. ASSUME KeepsWindow PROVE drone'.rw.max_gen >= drone.rw.max_gen
  BY <1>0, <1>2 DEF KeepsWindow
<1>3. CASE HandlesFrame
  <2>1. PICK m \in dq :
          \/ m \in Proposals /\ (Strays(m) \/ Repeated(m) \/ Refuses(m) \/ Begins(m))
          \/ (Idles \/ Settles(m)) /\ Airs({}) /\ Asks(<<>>)
    BY <1>3 DEF HandlesFrame
  <2>2. CASE Idles \/ Settles(m)
    BY <1>1, <1>2, <2>2 DEF Idles, Settles, KeepsAll, KeepsMarkers
  <2>3. ASSUME m \in Proposals, Strays(m) \/ Repeated(m) \/ Refuses(m) \/ Begins(m)
        PROVE  (GoesOn \/ StartsNew) /\ Steady
    <3>1. SeenBefore(m) = drone.rw.max_gen /\ ~ EpochChange(m) BY <2>3, SeenAll
    <3>2. m.generation \in Nat BY <2>3 DEF Proposals, Gens
    <3>3. ~ Strays(m) BY <3>1 DEF Strays
    <3>4. CASE Repeated(m) \/ Refuses(m)
      <4>1. drone'.rw.max_gen >= drone.rw.max_gen
        BY <1>0, <3>1, <3>2, <3>4 DEF Repeated, Refuses, Window
      <4>2. /\ KeepsExchange /\ KeepsNonce /\ drone'.st = drone.st
            /\ drone'.markers_on = drone.markers_on
        BY <3>1, <3>4 DEF Repeated, Refuses, Found, KeepsMarkers
      <4> QED BY <1>1, <4>1, <4>2
    <3>5. CASE Begins(m)
      <4>1. Found(m) = "Stable" /\ drone.st = "Stable"
        BY <3>1, <3>5 DEF Begins, Found
      <4>2. StartsNew BY <1>0, <3>1, <3>2, <3>5 DEF Begins, Window, StartsNew
      <4>3. Steady BY <3>5, <4>1 DEF Begins, Steady, KeepsMarkers
      <4> QED BY <4>2, <4>3
    <3> QED BY <2>3, <3>3, <3>4, <3>5
  <2> QED BY <2>1, <2>2, <2>3
<1>4. CASE HandlesTick
  BY <1>1, <1>2, <1>4 DEF HandlesTick, GivesUp, Reports, Leaves, TunesAnyway, GoesBack,
     Idles, KeepsAll, KeepsMarkers
<1>5. CASE HandlesDrain
  BY <1>1, <1>2, <1>5 DEF HandlesDrain, DrainedToSwitch, DrainedToProbe,
     DrainedForNothing, Idles, KeepsAll, KeepsMarkers
<1>6. CASE HandlesSample
  BY <1>1, <1>2, <1>6 DEF HandlesSample, Sampled, SampledForNothing, Idles, KeepsAll,
     KeepsMarkers
<1>7. ASSUME NEW ok \in BOOLEAN, HandlesRetune(ok) PROVE GoesOn /\ Steady
  <2>1. CASE ProbeCommits
    BY <1>2, <2>1 DEF ProbeCommits, GoesOn, Steady, KeepsExchange, KeepsMarkers
  <2>2. CASE FallsBack(ok) BY <1>1, <1>2, <2>2 DEF FallsBack, KeepsAll
  <2>3. CASE Arrives BY <1>1, <1>2, <2>3 DEF Arrives, KeepsAll
  <2>4. CASE FailsOver \/ LastResort \/ Probes(ok) \/ ProbeEnds(ok)
    BY <1>1, <1>2, <2>4 DEF FailsOver, LastResort, Probes, ProbeEnds, KeepsAll,
       KeepsMarkers
  <2>5. CASE RetunedForNothing(ok)
    BY <1>1, <1>2, <2>5 DEF RetunedForNothing, Idles, KeepsAll, KeepsMarkers
  <2> QED BY <1>7, <2>1, <2>2, <2>3, <2>4, <2>5 DEF HandlesRetune
<1>8. CASE DrainStall
  BY <1>0, <1>1, <1>8 DEF DrainStall, KeepsExchange, KeepsNonce
<1> QED BY <1>3, <1>4, <1>5, <1>6, <1>7, <1>8 DEF DroneMoves

\* So does every step of the link, short of a restart of the drone.
LEMMA NextGoesOn ==
    ASSUME TypeOK, OneGround, WindowInv, [Next]_vars, ~ DroneRestart
    PROVE  (GoesOn \/ StartsNew) /\ Steady
<1>0. drone.rw.max_gen \in Nat BY DEF TypeOK, DroneType, ReplayWindow, Gens
<1>1. CASE DroneRests
  BY <1>0, <1>1 DEF DroneRests, GoesOn, Steady, InProgress, Engaged
<1>2. CASE Tick
  <2>1. Idles BY <1>2, ElapseIdles
  <2> QED BY <1>0, <2>1 DEF Idles, KeepsAll, KeepsExchange, KeepsWindow, KeepsNonce,
         KeepsMarkers, Goes, GoesOn, Steady, InProgress, Engaged, DroneExchange
<1> QED BY <1>1, <1>2, DroneGoesOn, StepMoves

\* What is past stays past, and what is done stays done.
LEMMA PastStays ==
    ASSUME TypeOK, TypeOK', OneGround, WindowInv, [Next]_vars, ~ DroneRestart,
           NEW g \in Nat
    PROVE  /\ Past(g) => Past(g)'
           /\ Done(g) => Done(g)'
<1>0. /\ drone.rw.max_gen \in Nat /\ drone.gen \in Nat
      /\ drone'.rw.max_gen \in Nat /\ drone'.gen \in Nat
  BY DEF TypeOK, DroneType, ReplayWindow, Gens
<1>1. (GoesOn \/ StartsNew) /\ Steady BY NextGoesOn
<1>2. Past(g) => Past(g)' BY <1>0, <1>1 DEF Past, GoesOn, StartsNew
<1>3. proved \subseteq proved'
  <2>1. CASE UNCHANGED history BY <2>1 DEF history
  <2>2. CASE Record BY <2>2 DEF Record
  <2> QED BY <2>1, <2>2, StepMoves, GroundStepMoves, ElapseIdles DEF GroundRestart
<1>4. ASSUME Done(g), drone'.gen = g, drone'.st = "Verifying"
      PROVE  DroneExchange(drone') \in proved'
  <2>1. GoesOn BY <1>0, <1>1, <1>4 DEF Done, Past, StartsNew
  <2>2. drone.st = "Verifying" /\ DroneExchange(drone') = DroneExchange(drone)
    BY <1>4, <2>1 DEF Done, Past, GoesOn, InProgress
  <2> QED BY <1>3, <1>4, <2>1, <2>2 DEF Done, GoesOn
<1> QED BY <1>2, <1>4 DEF Done

\* DroneSteady is inductive without restarts.
LEMMA NextSteady ==
    ASSUME TypeOK, OneGround, WindowInv, DroneSteady, [Next]_vars, ~ DroneRestart
    PROVE  DroneSteady'
<1>1. Steady BY NextGoesOn
<1>2. \A i \in 1 .. Len(dtodo') : dtodo'[i].after.type # "STATUS"
  <2>1. CASE dtodo' = dtodo BY <2>1 DEF DroneSteady
  <2>2. CASE DroneMoves
    <3> SUFFICES ASSUME NEW i \in 1 .. Len(dtodo')
                 PROVE  dtodo'[i].after.type # "STATUS"
      OBVIOUS
    <3>1. ASSUME NEW o, PlainOp(o) PROVE o.after.type # "STATUS"
      BY <3>1 DEF PlainOp, NoFrame
    <3>2. ASSUME NEW o, LastOp(o) PROVE o.after.type # "STATUS"
      BY <3>2 DEF LastOp, abort_msg
    <3>3. ASSUME NEW o PROVE ~ StrayOp(o) BY SeenAll DEF StrayOp
    <3> QED BY <2>2, <3>1, <3>2, <3>3, DroneAsks DEF DroneSteady
  <2> QED BY <2>1, <2>2, StepMoves, ElapseIdles DEF DroneRests
<1>3. drone'.epoch = 1 BY <1>1 DEF Steady, DroneSteady
<1>4. drone'.markers_on => drone'.st = "Verifying" BY <1>1 DEF Steady, DroneSteady
<1>5. drone'.st \in {"Committed", "Switching", "Verifying"}
        => drone'.drone_nonce = DroneNonce(1, drone'.gen)
  BY <1>1 DEF Steady, DroneSteady
<1> QED BY <1>2, <1>3, <1>4, <1>5 DEF DroneSteady

\* A commit of the drone, whenever it is read.
CommitHolds(m) ==
    /\ m.drone_nonce = DroneNonce(1, m.generation)
    /\ m.generation <= drone.rw.max_gen
    /\ drone.gen = m.generation => m.target = drone.commit_target

\* A status of a settled drone, whenever it is read.
StatusHolds(m) ==
    /\ m.generation <= drone.rw.max_gen
    /\ ~ (drone.gen = m.generation /\ Engaged)

AirInv ==
    /\ \A m \in gq : m.type = "COMMIT" => CommitHolds(m)
    /\ \A m \in gq : m.type = "STATUS" /\ m.state = "Stable" => StatusHolds(m)
    /\ \A m \in gq : m.type = "MARKER" => Past(m.generation)

\* The commits the drone airs.
LEMMA DroneCommits ==
    ASSUME TypeOK, DroneMoves, NEW m \in gq', m \notin gq, m.type = "COMMIT"
    PROVE  \/ m = make_commit(drone) /\ drone.st = "Committed"
           \/ m = make_commit(drone') /\ drone'.st = "Committed"
<1>0. ASSUME NEW d PROVE /\ make_status(d).type = "STATUS"
                         /\ \A e : abort_msg(d, e).type = "ABORT"
                         /\ \A n, w : status_reject(d, n, w).type = "STATUS"
  BY DEF make_status, abort_msg, status_reject
<1>1. dtodo # <<>> => Head(dtodo).after.type # "COMMIT"
  <2>1. dtodo \in Seq(HostOps) BY DEF TypeOK
  <2>2. dtodo # <<>> => Head(dtodo) \in HostOps BY <2>1
  <2> QED BY <2>2 DEF HostOps, Statuses, Aborts, NoFrame
<1>2. dtodo # <<>> => m \notin Behind BY <1>1 DEF Behind
<1> USE DEF Airs
<1>3. CASE HandlesFrame
  <2>1. PICK k \in dq :
          \/ k \in Proposals /\ (Strays(k) \/ Repeated(k) \/ Refuses(k) \/ Begins(k))
          \/ (Idles \/ Settles(k)) /\ Airs({}) /\ Asks(<<>>)
    BY <1>3 DEF HandlesFrame
  <2>2. CASE Strays(k) \/ Refuses(k) \/ Airs({}) BY <1>0, <2>2 DEF Strays, Refuses
  <2>3. CASE Repeated(k) BY <2>3 DEF Repeated
  <2>4. CASE Begins(k) BY <2>4 DEF Begins, Goes
  <2> QED BY <2>1, <2>2, <2>3, <2>4
<1>4. CASE HandlesTick
  <2>1. CASE Reports BY <1>0, <2>1 DEF Reports
  <2>2. CASE GivesUp BY <1>0, <2>2 DEF GivesUp
  <2>3. CASE Leaves BY <1>0, <2>3 DEF Leaves
  <2>4. CASE TunesAnyway \/ GoesBack BY <1>0, <2>4 DEF TunesAnyway, GoesBack
  <2> QED BY <1>4, <2>1, <2>2, <2>3, <2>4 DEF HandlesTick
<1>5. CASE HandlesDrain \/ HandlesSample BY <1>5 DEF HandlesDrain, HandlesSample
<1>6. ASSUME NEW ok \in BOOLEAN, HandlesRetune(ok)
      PROVE  m = make_commit(drone') /\ drone'.st = "Committed"
  <2>1. m \notin Behind BY <1>2, <1>6 DEF HandlesRetune
  <2>2. CASE Airs(Behind) BY <2>1, <2>2
  <2>3. CASE ProbeEnds(ok) BY <1>0, <2>1, <2>3 DEF ProbeEnds
  <2>4. CASE ProbeCommits BY <2>1, <2>4 DEF ProbeCommits, Goes
  <2> QED BY <1>6, <2>2, <2>3, <2>4 DEF HandlesRetune, Arrives, FailsOver, FallsBack,
         LastResort, Probes, RetunedForNothing
<1>7. CASE DrainStall BY <1>7 DEF DrainStall, medium
<1> QED BY <1>3, <1>4, <1>5, <1>6, <1>7 DEF DroneMoves

\* The settled statuses the drone airs hold.
LEMMA DroneStatuses ==
    ASSUME TypeOK, TypeOK', OneGround, WindowInv, WindowInv', DroneSteady, DroneMoves,
           NEW m \in gq', m \notin gq, m.type = "STATUS", m.state = "Stable"
    PROVE  StatusHolds(m)'
<1>0. /\ drone.rw.max_gen \in Nat /\ drone.gen \in Nat
      /\ drone'.rw.max_gen \in Nat /\ drone'.gen \in Nat
      /\ drone'.gen <= drone'.rw.max_gen /\ drone.gen <= drone.rw.max_gen
  BY DEF TypeOK, DroneType, ReplayWindow, Gens, WindowInv
<1>1. ASSUME NEW d PROVE /\ make_commit(d).type = "COMMIT"
                         /\ \A e : abort_msg(d, e).type = "ABORT"
                         /\ make_status(d).state = d.st
                         /\ make_status(d).generation = d.gen
                         /\ \A n, w : status_reject(d, n, w).generation = n
  BY DEF make_status, abort_msg, make_commit, status_reject
<1>2. dtodo # <<>> => m \notin Behind
  <2>1. dtodo \in Seq(HostOps) BY DEF TypeOK
  <2>2. dtodo # <<>> => 1 \in 1 .. Len(dtodo) /\ Head(dtodo) = dtodo[1]
    BY <2>1, EmptySeq
  <2> QED BY <2>2 DEF Behind, DroneSteady
<1>3. ASSUME m = make_status(drone), drone'.st = drone.st, KeepsExchange
      PROVE  StatusHolds(m)'
  BY <1>0, <1>1, <1>3 DEF StatusHolds, Engaged, KeepsExchange
<1> USE DEF Airs
<1>4. CASE HandlesFrame
  <2>1. PICK k \in dq :
          \/ k \in Proposals /\ (Strays(k) \/ Repeated(k) \/ Refuses(k) \/ Begins(k))
          \/ (Idles \/ Settles(k)) /\ Airs({}) /\ Asks(<<>>)
    BY <1>4 DEF HandlesFrame
  <2>2. CASE Airs({}) BY <2>2
  <2>3. CASE k \in Proposals /\ Refuses(k)
    <3>1. SeenBefore(k) = drone.rw.max_gen /\ k.generation \in Nat
      BY <2>3, SeenAll DEF Proposals, Gens
    <3>2. m.generation = k.generation
      <4>1. PICK why \in Reasons : Airs({status_reject(drone, k.generation, why)})
        BY <2>3 DEF Refuses
      <4>2. m = status_reject(drone, k.generation, why) BY <4>1
      <4> QED BY <4>2 DEF status_reject
    <3>3. /\ drone'.gen = drone.gen /\ k.generation > drone.rw.max_gen
          /\ drone'.rw.max_gen = k.generation
      BY <2>3, <3>1 DEF Refuses, KeepsExchange, Window
    <3> QED BY <1>0, <3>1, <3>2, <3>3 DEF StatusHolds
  <2>4. CASE Strays(k) BY <2>4 DEF Strays
  <2>5. CASE Repeated(k) BY <1>1, <2>5 DEF Repeated
  <2>6. CASE Begins(k) BY <1>1, <2>6 DEF Begins
  <2> QED BY <2>1, <2>2, <2>3, <2>4, <2>5, <2>6
<1>5. CASE HandlesTick
  <2>1. CASE Reports
    <3>1. m = make_status(drone) BY <1>1, <2>1 DEF Reports
    <3> QED BY <1>3, <2>1, <3>1 DEF Reports, Idles, KeepsAll, Goes
  <2>2. CASE GivesUp BY <1>1, <2>2 DEF GivesUp
  <2>3. CASE Leaves BY <1>1, <2>3 DEF Leaves
  <2>4. CASE TunesAnyway \/ GoesBack BY <1>1, <2>4 DEF TunesAnyway, GoesBack
  <2> QED BY <1>5, <2>1, <2>2, <2>3, <2>4 DEF HandlesTick
<1>6. CASE HandlesDrain \/ HandlesSample BY <1>6 DEF HandlesDrain, HandlesSample
<1>7. ASSUME NEW ok \in BOOLEAN, HandlesRetune(ok) PROVE StatusHolds(m)'
  <2>1. m \notin Behind BY <1>2, <1>7 DEF HandlesRetune
  <2>2. CASE Airs(Behind) BY <2>1, <2>2
  <2>3. CASE ProbeEnds(ok)
    <3>1. m.generation = drone.gen
      <4>1. PICK why \in Reasons :
              Airs(Behind \cup {status_reject(drone', drone.gen, why)})
        BY <2>3 DEF ProbeEnds
      <4>2. m = status_reject(drone', drone.gen, why) BY <2>1, <4>1
      <4> QED BY <4>2 DEF status_reject
    <3> QED BY <1>0, <2>3, <3>1 DEF ProbeEnds, KeepsAll, KeepsExchange, Goes,
           StatusHolds, Engaged
  <2>4. CASE ProbeCommits BY <1>1, <2>1, <2>4 DEF ProbeCommits
  <2> QED BY <1>7, <2>2, <2>3, <2>4 DEF HandlesRetune, Arrives, FailsOver, FallsBack,
         LastResort, Probes, RetunedForNothing
<1>8. CASE DrainStall BY <1>8 DEF DrainStall, medium
<1> QED BY <1>4, <1>5, <1>6, <1>7, <1>8 DEF DroneMoves

\* The markers on their way are the only ones the drone's steps leave.
LEMMA DroneMarkers ==
    ASSUME TypeOK, DroneMoves, NEW m \in gq', m \notin gq
    PROVE  m.type # "MARKER"
<1>1. ASSUME NEW d PROVE /\ make_commit(d).type = "COMMIT"
                         /\ make_status(d).type = "STATUS"
                         /\ \A e : abort_msg(d, e).type = "ABORT"
                         /\ \A n, w : status_reject(d, n, w).type = "STATUS"
  BY DEF make_status, abort_msg, make_commit, status_reject
<1>2. dtodo # <<>> => \A k \in Behind : k.type # "MARKER"
  <2>1. dtodo \in Seq(HostOps) BY DEF TypeOK
  <2>2. dtodo # <<>> => Head(dtodo) \in HostOps BY <2>1
  <2> QED BY <2>2 DEF HostOps, Statuses, Aborts, NoFrame, Behind
<1> USE DEF Airs
<1>3. CASE HandlesFrame
  <2>1. PICK k \in dq :
          \/ k \in Proposals /\ (Strays(k) \/ Repeated(k) \/ Refuses(k) \/ Begins(k))
          \/ (Idles \/ Settles(k)) /\ Airs({}) /\ Asks(<<>>)
    BY <1>3 DEF HandlesFrame
  <2>2. CASE Strays(k) \/ Refuses(k) \/ Airs({}) BY <1>1, <2>2 DEF Strays, Refuses
  <2>3. CASE Repeated(k) BY <1>1, <2>3 DEF Repeated
  <2>4. CASE Begins(k) BY <1>1, <2>4 DEF Begins
  <2> QED BY <2>1, <2>2, <2>3, <2>4
<1>4. CASE HandlesTick
  <2>1. CASE Reports BY <1>1, <2>1 DEF Reports
  <2>2. CASE GivesUp \/ Leaves BY <1>1, <2>2 DEF GivesUp, Leaves
  <2>3. CASE TunesAnyway \/ GoesBack BY <1>1, <2>3 DEF TunesAnyway, GoesBack
  <2> QED BY <1>4, <2>1, <2>2, <2>3 DEF HandlesTick
<1>5. CASE HandlesDrain \/ HandlesSample BY <1>5 DEF HandlesDrain, HandlesSample
<1>6. ASSUME NEW ok \in BOOLEAN, HandlesRetune(ok) PROVE m.type # "MARKER"
  <2>1. \A k \in Behind : k.type # "MARKER" BY <1>2, <1>6 DEF HandlesRetune
  <2>2. CASE Airs(Behind) BY <2>1, <2>2
  <2>3. CASE ProbeEnds(ok) BY <1>1, <2>1, <2>3 DEF ProbeEnds
  <2>4. CASE ProbeCommits BY <1>1, <2>1, <2>4 DEF ProbeCommits
  <2> QED BY <1>6, <2>2, <2>3, <2>4 DEF HandlesRetune, Arrives, FailsOver, FallsBack,
         LastResort, Probes, RetunedForNothing
<1>7. CASE DrainStall BY <1>7 DEF DrainStall, medium
<1> QED BY <1>3, <1>4, <1>5, <1>6, <1>7 DEF DroneMoves

\* AirInv is inductive without restarts.
LEMMA NextAir ==
    ASSUME TypeOK, TypeOK', OneGround, WindowInv, WindowInv', DroneSteady, DroneSteady',
           AirInv, [Next]_vars, ~ DroneRestart
    PROVE  AirInv'
<1>0. /\ drone.rw.max_gen \in Nat /\ drone.gen \in Nat
      /\ drone'.rw.max_gen \in Nat /\ drone'.gen \in Nat
      /\ drone'.gen <= drone'.rw.max_gen /\ drone.gen <= drone.rw.max_gen
  BY DEF TypeOK, DroneType, ReplayWindow, Gens, WindowInv
<1>1. (GoesOn \/ StartsNew) /\ Steady BY NextGoesOn
<1>2. ASSUME NEW m \in gq', m.type = "COMMIT" \/ m.type = "STATUS" \/ m.type = "MARKER"
      PROVE  m.generation \in Nat
  <2>1. m \in ToGround BY <1>2 DEF TypeOK
  <2> QED BY <1>2, <2>1, GroundKinds DEF Commits, Statuses, Markers, Gens
<1>3. ASSUME NEW m \in gq', m.type = "COMMIT" PROVE CommitHolds(m)'
  <2>1. m.generation \in Nat BY <1>2, <1>3
  <2>2. ASSUME CommitHolds(m) PROVE CommitHolds(m)'
    BY <1>0, <1>1, <2>1, <2>2 DEF CommitHolds, GoesOn, StartsNew
  <2>3. ASSUME DroneMoves, m \notin gq PROVE CommitHolds(m)'
    <3>1. CASE m = make_commit(drone) /\ drone.st = "Committed"
      <4>1. CommitHolds(m)
        BY <1>0, <3>1 DEF CommitHolds, make_commit, DroneSteady
      <4> QED BY <2>2, <4>1
    <3>2. CASE m = make_commit(drone') /\ drone'.st = "Committed"
      BY <1>0, <3>2 DEF CommitHolds, make_commit, DroneSteady
    <3> QED BY <1>3, <2>3, <3>1, <3>2, DroneCommits
  <2>4. CASE m \in gq BY <1>3, <2>2, <2>4 DEF AirInv
  <2>5. m \notin gq => DroneMoves
    <3>1. ASSUME Airs(Streams) PROVE m \in gq
      BY <1>3, <3>1 DEF Airs, Streams, MarkerFrame
    <3> QED BY <3>1, StepMoves, GroundStepMoves, ElapseIdles DEF Airs, GroundRestart
  <2> QED BY <2>3, <2>4, <2>5
<1>4. ASSUME NEW m \in gq', m.type = "STATUS", m.state = "Stable" PROVE StatusHolds(m)'
  <2>1. m.generation \in Nat BY <1>2, <1>4
  <2>2. ASSUME StatusHolds(m) PROVE StatusHolds(m)'
    BY <1>0, <1>1, <2>1, <2>2 DEF StatusHolds, GoesOn, StartsNew
  <2>3. ASSUME DroneMoves, m \notin gq PROVE StatusHolds(m)'
    BY <1>4, <2>3, DroneStatuses
  <2>4. CASE m \in gq BY <1>4, <2>2, <2>4 DEF AirInv
  <2>5. m \notin gq => DroneMoves
    <3>1. ASSUME Airs(Streams) PROVE m \in gq
      BY <1>4, <3>1 DEF Airs, Streams, MarkerFrame
    <3> QED BY <3>1, StepMoves, GroundStepMoves, ElapseIdles DEF Airs, GroundRestart
  <2> QED BY <2>3, <2>4, <2>5
<1>5. ASSUME NEW m \in gq', m.type = "MARKER" PROVE Past(m.generation)'
  <2>1. m.generation \in Nat BY <1>2, <1>5
  <2>2. Past(m.generation)
    <3>1. CASE m \in gq BY <1>5, <3>1 DEF AirInv
    <3>2. CASE m \notin gq
      <4>1. Airs(Streams)
        BY <1>5, <3>2, StepMoves, GroundStepMoves, ElapseIdles, DroneMarkers
           DEF Airs, GroundRestart
      <4>2. m = MarkerFrame /\ drone.markers_on
        BY <1>5, <3>2, <4>1 DEF Airs, Streams
      <4>3. m.generation = drone.gen /\ drone.st = "Verifying"
        BY <4>2 DEF MarkerFrame, DroneSteady
      <4> QED BY <1>0, <4>3 DEF Past, InProgress
    <3> QED BY <3>1, <3>2
  <2> QED BY <2>1, <2>2, PastStays
<1> QED BY <1>3, <1>4, <1>5 DEF AirInv

\* What the ground and its host hold between their steps.
GroundSteady ==
    /\ ground.st = "Switching" =>
          /\ Len(gtodo) = 1
          /\ ~ ground.follow_pending => gtodo[1] = ground.commit_target
    /\ ground.st \notin {"Switching", "Recovery"} => gtodo = <<>>
    /\ ground.follow_pending => ground.st = "Switching"
    /\ ground.st = "Verifying" => gradio = ground.commit_target

\* What the ground knows of the exchange it follows.
FollowHolds ==
    /\ ground.drone_nonce = DroneNonce(1, ground.gen)
    /\ ground.gen <= drone.rw.max_gen
    /\ drone.gen = ground.gen => ground.commit_target = drone.commit_target

GroundMatches ==
    /\ ground.st \in {"Committed", "Switching", "Verifying"} => FollowHolds
    /\ ground.st = "Verifying" /\ ground.got_gen_marker => Past(ground.gen)
    /\ ground.st = "Verifying" /\ ground.verified => Done(ground.gen)

ConfirmsDone == \A m \in dq : m.type = "CONFIRM" => Done(m.generation)

\* The steps of the ground keep GroundSteady, if its host holds its lock.
LEMMA GroundKeepsSteady ==
    ASSUME TypeOK, HostLocked, GroundSteady, GroundMoves
    PROVE  GroundSteady'
<1>0. gtodo \in Seq(AnyChannel) BY DEF TypeOK
<1>1. gtodo \o <<>> = gtodo BY <1>0, TunesMore
<1>2. ASSUME NEW c, gtodo = <<>>, gtodo' = gtodo \o <<c>>
      PROVE  Len(gtodo') = 1 /\ gtodo'[1] = c
  BY <1>2, SoleOp
<1>3. ASSUME GroundFree PROVE gtodo = <<>> /\ ground.st # "Switching" /\ ~ ground.follow_pending
  <2>1. gtodo = <<>> BY <1>3 DEF GroundFree
  <2>2. Len(gtodo) = 0 BY <2>1, EmptySeq
  <2> QED BY <2>1, <2>2 DEF GroundSteady
<1> USE DEF Tunes, StaysAll, StaysInExchange, KeepsFollowing
<1>4. CASE GroundFree /\ (Proposes \/ Reproposes \/ Ends \/ Passes \/ CountsFrame)
  BY <1>1, <1>3, <1>4 DEF GroundSteady, Proposes, Reproposes, Ends, Passes, CountsFrame
<1>5. CASE GroundFree /\ \E m \in gq : TakesCommit(m)
  <2>1. PICK m \in gq : TakesCommit(m) BY <1>5
  <2>2. CASE ground'.st = "Switching"
    <3>1. gtodo' = gtodo \o <<m.target>> BY <2>1, <2>2 DEF TakesCommit
    <3>2. Len(gtodo') = 1 /\ gtodo'[1] = m.target BY <1>2, <1>3, <1>5, <3>1
    <3> QED BY <2>1, <2>2, <3>2 DEF TakesCommit, GroundSteady
  <2>3. CASE ground'.st = "Committed"
    BY <1>1, <1>3, <1>5, <2>1, <2>3 DEF TakesCommit, GroundSteady
  <2> QED BY <2>1, <2>2, <2>3 DEF TakesCommit
<1>6. CASE GroundFree /\ Awaits
  <2>2. CASE ground'.st = "Switching"
    <3> DEFINE c == ground.commit_target
    <3>1. gtodo' = gtodo \o <<c>> BY <1>6, <2>2 DEF Awaits
    <3> HIDE DEF c
    <3>2. Len(gtodo') = 1 /\ gtodo'[1] = c BY <1>2, <1>3, <1>6, <3>1
    <3> QED BY <1>6, <2>2, <3>2 DEF Awaits, GroundSteady, c
  <2>3. CASE ground'.st = "Committed"
    BY <1>1, <1>3, <1>6, <2>3 DEF Awaits, GroundSteady
  <2> QED BY <1>6, <2>2, <2>3 DEF Awaits
<1>7. CASE GroundFree /\ \E m \in gq : GoesAfter(m)
  <2>1. PICK m \in gq : GoesAfter(m) BY <1>7
  <2>2. CASE ground'.st = "Switching"
    <3> DEFINE c == m.current
    <3>1. gtodo' = gtodo \o <<c>> /\ ground'.follow_pending = TRUE
      BY <2>1, <2>2 DEF GoesAfter
    <3> HIDE DEF c
    <3>2. Len(gtodo') = 1 BY <1>2, <1>3, <1>7, <3>1
    <3> QED BY <2>2, <3>1, <3>2 DEF GroundSteady
  <2>3. CASE ground'.st = "Stable"
    BY <1>1, <1>3, <1>7, <2>1, <2>3 DEF GoesAfter, GroundSteady
  <2> QED BY <2>1, <2>2, <2>3 DEF GoesAfter
<1>8. CASE GroundFree /\ (Reconfirms \/ Scans)
  BY <1>1, <1>3, <1>8 DEF GroundSteady, Reconfirms, Scans
<1>9. CASE Retuned
  <2>1. gtodo # <<>> BY <1>9 DEF Retuned
  <2>2. CASE ground.st # "Switching"
    BY <1>9, <2>1, <2>2 DEF Retuned, GroundSteady
  <2>3. CASE ground.st = "Switching"
    <3>1. Tail(gtodo) = <<>> /\ Head(gtodo) = gtodo[1]
      <4>1. Len(gtodo) = 1 BY <2>3 DEF GroundSteady
      <4>2. Tail(gtodo) \in Seq(AnyChannel) /\ Len(Tail(gtodo)) = 0
        BY <1>0, <2>1, <4>1
      <4>3. Tail(gtodo) = <<>> BY <4>2, EmptySeq
      <4>4. Head(gtodo) = gtodo[1] BY <1>0, <2>1
      <4> QED BY <4>3, <4>4
    <3> QED BY <1>9, <2>3, <3>1 DEF Retuned, GroundSteady
  <2> QED BY <2>2, <2>3
<1> QED BY <1>4, <1>5, <1>6, <1>7, <1>8, <1>9 DEF GroundMoves

\* GroundSteady is inductive without restarts.
LEMMA NextGroundSteady ==
    ASSUME TypeOK, HostLocked, GroundSteady, [Next]_vars, ~ GroundRestart
    PROVE  GroundSteady'
<1>1. CASE UNCHANGED <<groundVars, gradio>>
  BY <1>1 DEF groundVars, GroundSteady
<1>2. CASE Tick
  <2>1. StaysAll /\ ground'.st = ground.st /\ gtodo' = gtodo /\ gradio' = gradio
    BY <1>2, ElapseGround, ElapseIdles
  <2> QED BY <2>1 DEF GroundSteady, StaysAll, StaysInExchange, KeepsFollowing
<1>3. CASE DroneRestart BY <1>1, <1>3 DEF DroneRestart, Drone_restart
<1>4. CASE GroundMoves BY <1>4, GroundKeepsSteady
<1> QED BY <1>1, <1>2, <1>3, <1>4, StepMoves, GroundStepMoves

\* The first proof of the target is recorded for the exchange of the drone.
LEMMA ProofRecorded ==
    ASSUME TypeOK, OneGround, DroneSteady, HostInv, GroundSteady, GroundMatches,
           CountsFrame, ~ ground.verified, ground'.verified = TRUE, Record,
           drone.gen = ground.gen, drone.st = "Verifying"
    PROVE  DroneExchange(drone) \in proved'
<1>1. ground.st = "Verifying" /\ StaysInExchange BY DEF CountsFrame
<1>2. gradio = ground.commit_target BY <1>1 DEF GroundSteady
<1>3. FollowHolds BY <1>1 DEF GroundMatches
<1>4. dradio = drone.commit_target BY DEF HostInv, Placed
<1>5. gradio = dradio BY <1>2, <1>3, <1>4 DEF FollowHolds
<1>6. GroundExchange(ground') \in proved' BY <1>2, <1>5 DEF Record
<1>7. GroundExchange(ground') = DroneExchange(drone)
  BY <1>1, <1>3 DEF GroundExchange, DroneExchange, StaysInExchange, FollowHolds,
     OneGround, Engaged, DroneSteady
<1> QED BY <1>6, <1>7

\* The confirms a step of the ground sends, and what stands behind them.
LEMMA GroundConfirms ==
    ASSUME GroundMoves, NEW m \in dq', m \notin dq, m.type = "CONFIRM"
    PROVE  /\ m.generation = ground.gen
           /\ \/ CountsFrame /\ ~ ground.verified /\ ground'.verified = TRUE
              \/ Reconfirms /\ ground.verified
              \/ \E k \in gq : GoesAfter(k)
<1>1. ASSUME NEW g PROVE /\ make_proposal(g).type = "PROPOSAL"
                         /\ make_confirm(g).generation = g.gen
  BY DEF make_proposal, make_confirm
<1> USE DEF Sends
<1>2. CASE Proposes \/ Reproposes \/ Ends \/ Passes \/ Scans
  BY <1>1, <1>2 DEF Proposes, Reproposes, Ends, Passes, Scans
<1>3. CASE \E k \in gq : TakesCommit(k) BY <1>3 DEF TakesCommit
<1>4. CASE Awaits BY <1>4 DEF Awaits
<1>5. CASE CountsFrame BY <1>1, <1>5 DEF CountsFrame
<1>6. CASE Reconfirms BY <1>1, <1>6 DEF Reconfirms
<1>7. CASE \E k \in gq : GoesAfter(k) BY <1>1, <1>7 DEF GoesAfter
<1>8. CASE Retuned BY <1>8 DEF Retuned
<1> QED BY <1>2, <1>3, <1>4, <1>5, <1>6, <1>7, <1>8 DEF GroundMoves

\* The steps of the ground keep GroundMatches and ConfirmsDone.
LEMMA GroundKeepsMatches ==
    ASSUME TypeOK, OneGround, WindowInv, HostInv, DroneSteady, AirInv, GroundSteady,
           GroundMatches, ConfirmsDone, GroundMoves, Record, DroneRests
    PROVE  GroundMatches' /\ ConfirmsDone'
<1>0. /\ ground.gen \in Nat /\ drone.gen \in Nat /\ drone.rw.max_gen \in Nat
      /\ drone' = drone /\ proved \subseteq proved'
  BY DEF TypeOK, GroundType, DroneType, ReplayWindow, Gens, DroneRests, Record
<1>1. \A g : (Past(g) => Past(g)') /\ (Done(g) => Done(g)')
  BY <1>0 DEF Past, Done, InProgress, DroneExchange
<1>2. ASSUME StaysInExchange, FollowHolds PROVE FollowHolds'
  BY <1>0, <1>2 DEF StaysInExchange, FollowHolds
<1>3. ASSUME CountsFrame PROVE Past(ground.gen)
  <2>1. CASE ground.got_gen_marker BY <1>3, <2>1 DEF CountsFrame, GroundMatches
  <2>2. CASE \E m \in gq : m.type = "MARKER" /\ m.generation = ground.gen
    BY <2>2 DEF AirInv
  <2>3. CASE drone.markers_on /\ drone.gen = ground.gen
    BY <1>0, <2>3 DEF DroneSteady, Past, InProgress, WindowInv
  <2> QED BY <1>3, <2>1, <2>2, <2>3 DEF CountsFrame, SeesMarker
<1>4. ASSUME CountsFrame, ~ ground.verified, ground'.verified = TRUE
      PROVE  Done(ground.gen)'
  <2>2. ground'.gen = ground.gen BY <1>4 DEF CountsFrame, StaysInExchange
  <2>1. Past(ground.gen)' BY <1>1, <1>3, <1>4, <2>2
  <2>3. drone.gen = ground.gen /\ drone.st = "Verifying"
          => DroneExchange(drone) \in proved'
    BY <1>4, ProofRecorded
  <2> QED BY <1>0, <2>1, <2>2, <2>3 DEF Done
<1>5. GroundMatches'
  <2> USE DEF StaysAll, KeepsProof
  <2>1. CASE Proposes \/ Ends \/ Scans
    BY <2>1 DEF Proposes, Ends, Scans, GroundMatches
  <2>2. CASE Reproposes \/ Passes
    <3>1. ground'.st = ground.st /\ StaysAll BY <2>2 DEF Reproposes, Passes
    <3>2. ground'.gen = ground.gen BY <3>1 DEF StaysInExchange
    <3> QED BY <1>1, <1>2, <3>1, <3>2 DEF GroundMatches
  <2>3. CASE \E m \in gq : TakesCommit(m)
    <3>1. PICK m \in gq : TakesCommit(m) BY <2>3
    <3>2. CommitHolds(m) BY <3>1 DEF TakesCommit, AirInv
    <3>3. FollowHolds'
      BY <1>0, <3>1, <3>2 DEF TakesCommit, CommitMatches, CommitHolds, FollowHolds
    <3> QED BY <3>1, <3>3 DEF TakesCommit, GroundMatches
  <2>4. CASE Awaits BY <1>2, <2>4 DEF Awaits, GroundMatches
  <2>5. CASE \E m \in gq : GoesAfter(m)
    BY <1>2, <2>5 DEF GoesAfter, FollowsStatus, GroundMatches
  <2>6. CASE CountsFrame
    <3>1. ground'.gen = ground.gen BY <2>6 DEF CountsFrame, StaysInExchange
    <3>2. FollowHolds' BY <1>2, <2>6 DEF CountsFrame, GroundMatches
    <3>3. Past(ground.gen)' BY <1>1, <1>3, <2>6, <3>1
    <3>4. ground'.verified => Done(ground.gen)'
      BY <1>1, <1>4, <2>6, <3>1 DEF CountsFrame, GroundMatches
    <3> QED BY <2>6, <3>2, <3>3, <3>4 DEF CountsFrame, GroundMatches
  <2>7. CASE Reconfirms
    <3>1. ground'.gen = ground.gen BY <2>7 DEF Reconfirms, StaysInExchange
    <3> QED BY <1>1, <1>2, <2>7, <3>1 DEF Reconfirms, GroundMatches
  <2>8. CASE Retuned
    <3>1. CASE ground' = ground BY <1>1, <1>2, <2>8, <3>1 DEF Retuned, GroundMatches
    <3>2. CASE ground.st = "Switching"
      BY <1>2, <2>8, <3>2 DEF Retuned, GroundMatches
    <3> QED BY <2>8, <3>1, <3>2 DEF Retuned
  <2> QED BY <2>1, <2>2, <2>3, <2>4, <2>5, <2>6, <2>7, <2>8 DEF GroundMoves
<1>6. ConfirmsDone'
  <2> SUFFICES ASSUME NEW m \in dq', m.type = "CONFIRM" PROVE Done(m.generation)'
    BY DEF ConfirmsDone
  <2>1. CASE m \in dq BY <1>1, <2>1 DEF ConfirmsDone
  <2>2. CASE m \notin dq
    <3>1. m.generation = ground.gen BY <2>2, GroundConfirms
    <3>2. CASE CountsFrame /\ ~ ground.verified /\ ground'.verified = TRUE
      <4>1. ground'.gen = ground.gen BY <3>2 DEF CountsFrame, StaysInExchange
      <4> QED BY <1>4, <3>1, <3>2, <4>1
    <3>3. CASE Reconfirms /\ ground.verified
      BY <1>1, <3>1, <3>3 DEF Reconfirms, GroundMatches
    <3>4. CASE \E k \in gq : GoesAfter(k)
      <4>1. PICK k \in gq : GoesAfter(k) BY <3>4
      <4>2. /\ k.type = "STATUS" /\ k.state = "Stable" /\ k.generation = ground.gen
        BY <4>1 DEF GoesAfter, FollowsStatus
      <4>3. StatusHolds(k) BY <4>2 DEF AirInv
      <4>4. Done(ground.gen)
        BY <4>2, <4>3 DEF StatusHolds, Done, Past, InProgress, Engaged
      <4> QED BY <1>1, <3>1, <4>4
    <3> QED BY <2>2, <3>2, <3>3, <3>4, GroundConfirms
  <2> QED BY <2>1, <2>2
<1> QED BY <1>5, <1>6

\* The steps of the drone keep GroundMatches and ConfirmsDone.
LEMMA NextMatches ==
    ASSUME TypeOK, TypeOK', OneGround, WindowInv, HostInv, DroneSteady, AirInv,
           GroundSteady, GroundMatches, ConfirmsDone, [Next]_vars,
           ~ DroneRestart, ~ GroundRestart
    PROVE  GroundMatches' /\ ConfirmsDone'
<1>0. /\ ground.gen \in Nat /\ drone.gen \in Nat /\ drone.rw.max_gen \in Nat
      /\ drone'.gen \in Nat /\ drone'.rw.max_gen \in Nat
  BY DEF TypeOK, GroundType, DroneType, ReplayWindow, Gens
<1>1. \A g \in Nat : (Past(g) => Past(g)') /\ (Done(g) => Done(g)') BY PastStays
<1>2. GoesOn \/ StartsNew BY NextGoesOn
<1>3. CASE /\ StaysAll /\ ground'.st = ground.st /\ dq' \subseteq dq
  <2>1. ground'.gen = ground.gen /\ ground'.commit_target = ground.commit_target
    BY <1>3 DEF StaysAll, StaysInExchange
  <2>2. FollowHolds => FollowHolds'
    BY <1>0, <1>2, <1>3, <2>1 DEF StaysAll, StaysInExchange, FollowHolds, GoesOn, StartsNew
  <2>3. GroundMatches'
    BY <1>0, <1>1, <1>3, <2>1, <2>2 DEF GroundMatches, StaysAll, KeepsProof
  <2>4. \A m \in dq : m.type = "CONFIRM" => m.generation \in Nat
    BY DEF TypeOK, ToDrone, Proposals, Statuses, Confirms, Gens
  <2>5. ConfirmsDone' BY <1>1, <1>3, <2>4 DEF ConfirmsDone
  <2> QED BY <2>3, <2>5
<1>4. CASE GroundMoves /\ Record /\ DroneRests BY <1>4, GroundKeepsMatches
<1>5. CASE Tick BY <1>3, <1>5, ElapseGround, ElapseIdles
<1>6. CASE UNCHANGED groundVars /\ dq' \subseteq dq
  BY <1>3, <1>6 DEF groundVars, StaysAll, StaysInExchange, KeepsFollowing, KeepsProof
<1> QED BY <1>4, <1>5, <1>6, StepMoves, GroundStepMoves

\* A process that has no budget for it does not restart.
LEMMA NoRestarts ==
    ASSUME TypeOK
    PROVE  /\ MaxGroundRestarts = 0 => ~ GroundRestart
           /\ MaxDroneRestarts = 0 => ~ DroneRestart
<1>1. "ground" \in Faults /\ "drone" \in Faults BY DEF Faults
<1>2. used["ground"] \in Nat /\ used["drone"] \in Nat BY <1>1 DEF TypeOK
<1>3. Limit["ground"] = MaxGroundRestarts /\ Limit["drone"] = MaxDroneRestarts
  BY <1>1 DEF Limit
<1> QED BY <1>2, <1>3 DEF GroundRestart, DroneRestart, Spend

\* A drone that verifies the target settles only by a confirm of its exchange.
LEMMA OnlyConfirmSettles ==
    ASSUME TypeOK, OneGround, WindowInv, [Next]_vars, ~ DroneRestart,
           drone.st = "Verifying", drone'.st = "Stable"
    PROVE  \E m \in dq : m.type = "CONFIRM" /\ ConfirmMatches(m)
<1>1. drone'.st # drone.st OBVIOUS
<1>2. ~ DroneRests BY <1>1 DEF DroneRests
<1>3. ~ Tick BY <1>1, ElapseIdles DEF Idles, Goes
<1>4. DroneMoves BY <1>2, <1>3, StepMoves
<1>5. CASE HandlesFrame
  <2>1. PICK m \in dq :
          \/ m \in Proposals /\ (Strays(m) \/ Repeated(m) \/ Refuses(m) \/ Begins(m))
          \/ (Idles \/ Settles(m)) /\ Airs({}) /\ Asks(<<>>)
    BY <1>5 DEF HandlesFrame
  <2>2. m \in Proposals => ~ EpochChange(m) BY SeenAll
  <2>3. m \in Proposals => ~ (Strays(m) \/ Repeated(m) \/ Refuses(m) \/ Begins(m))
    BY <1>1, <2>2 DEF Strays, Repeated, Refuses, Begins, Goes, Found
  <2>4. ~ Idles BY <1>1 DEF Idles, Goes
  <2>5. Settles(m) BY <2>1, <2>3, <2>4
  <2> QED BY <2>5 DEF Settles
<1>6. ~ HandlesTick
  BY <1>1 DEF HandlesTick, GivesUp, Reports, Leaves, TunesAnyway, GoesBack, Idles, Goes
<1>7. ~ HandlesDrain /\ ~ HandlesSample
  BY <1>1 DEF HandlesDrain, DrainedToSwitch, DrainedToProbe, DrainedForNothing,
     HandlesSample, Sampled, SampledForNothing, Idles, Goes
<1>8. ASSUME NEW ok \in BOOLEAN, HandlesRetune(ok) PROVE FALSE
  BY <1>1, <1>8 DEF HandlesRetune, Arrives, FailsOver, FallsBack, LastResort,
     Probes, ProbeEnds, ProbeCommits, RetunedForNothing, Idles, Goes
<1>9. ~ DrainStall BY <1>1 DEF DrainStall
<1> QED BY <1>4, <1>5, <1>6, <1>7, <1>8, <1>9 DEF DroneMoves

(***************************************************************************)
(* The drone settles on a target only after the ground has verified it     *)
(* with both radios on it, whatever frames are lost, repeated, late or     *)
(* left over from another channel, and whatever retunes throw, in a link   *)
(* whose processes do not restart and whose hosts hold their lock over a   *)
(* handler's actions (on_confirm, on_marker, on_video, maybe_confirm).     *)
(***************************************************************************)
THEOREM SettlesProved ==
    ASSUME HostLocked, MaxGroundRestarts = 0, MaxDroneRestarts = 0
    PROVE  Spec => SettlesOnlyIfProved
<1> DEFINE Inv == /\ TypeOK /\ OneGround /\ WindowInv /\ HostInv
                  /\ DroneSteady /\ AirInv /\ GroundSteady /\ GroundMatches
                  /\ ConfirmsDone
<1>1. Init => Inv
  <2> SUFFICES ASSUME Init PROVE Inv OBVIOUS
  <2>1. OneGround
    BY DEF Init, GroundInit, DroneInit, NewGround, NewDrone, OneGround, Engaged
  <2>2. Len(<<>>) = 0 BY EmptySeq
  <2>3. DroneSteady BY <2>2 DEF Init, DroneInit, NewDrone, DroneSteady
  <2>4. AirInv /\ ConfirmsDone BY DEF Init, AirInv, ConfirmsDone
  <2>5. GroundSteady /\ GroundMatches
    BY DEF Init, GroundInit, NewGround, GroundSteady, GroundMatches
  <2> QED BY <2>1, <2>3, <2>4, <2>5, InitType, InitWindow, InitHost
<1>2. Inv /\ [Next]_vars => Inv'
  <2> SUFFICES ASSUME Inv, [Next]_vars PROVE Inv' OBVIOUS
  <2>1. ~ GroundRestart /\ ~ DroneRestart BY NoRestarts
  <2>2. TypeOK' /\ OneGround' /\ WindowInv' BY NextType, NextOneGround, NextWindow
  <2>3. HostInv' BY NextHost DEF Hosted
  <2>4. DroneSteady' BY <2>1, NextSteady
  <2>5. AirInv' BY <2>1, <2>2, <2>4, NextAir
  <2>6. GroundSteady' BY <2>1, NextGroundSteady
  <2>7. GroundMatches' /\ ConfirmsDone' BY <2>1, <2>2, NextMatches
  <2> QED BY <2>2, <2>3, <2>4, <2>5, <2>6, <2>7
<1>3. Inv /\ [Next]_vars =>
        [ (/\ drone.st = "Verifying" /\ drone'.st = "Stable"
           /\ drone'.epoch = drone.epoch)
            => DroneExchange(drone) \in proved ]_vars
  <2> SUFFICES ASSUME Inv, [Next]_vars, drone.st = "Verifying", drone'.st = "Stable"
               PROVE  DroneExchange(drone) \in proved
    OBVIOUS
  <2>1. PICK m \in dq : m.type = "CONFIRM" /\ ConfirmMatches(m)
    BY NoRestarts, OnlyConfirmSettles
  <2> QED BY <2>1 DEF ConfirmsDone, Done, ConfirmMatches
<1> QED BY <1>1, <1>2, <1>3, PTL DEF Spec, SettlesOnlyIfProved
==============================================================================
