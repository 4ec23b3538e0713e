------------------------------ MODULE MigConfig ------------------------------
(***************************************************************************)
(* The timing and bound parameters of the channel-migration protocol       *)
(* (struct MigParams and the two literals the machines add to it).  The    *)
(* code counts milliseconds; here one unit is the resolution of the model  *)
(* and a deadline is kept as the time REMAINING until it is due, 0 meaning *)
(* due.  That keeps the state space finite without bounding the clock.     *)
(***************************************************************************)
EXTENDS Integers

CONSTANTS
    ProposalInterval,   \* proposal_interval_ms
    ProposalMaxTries,   \* proposal_max_tries
    CommitInterval,     \* commit_interval_ms: commit repeats, acks, confirms
    StatusInterval,     \* status_interval_ms
    AckTimeout,         \* ack_timeout_ms
    Countdown,          \* countdown_ms
    Lead,               \* lead_ms
    DrainDeadline,      \* drain_deadline_ms
    BlankWindow,        \* blank_window_ms
    VerifyMarkers,      \* verify_markers
    VerifyVideo,        \* verify_video
    RollbackTime,       \* rollback_ms
    FollowSlack,        \* the 2000 ms MigProposer adds to the rollback time
    RecoveryDwell,      \* recovery_dwell_ms
    HoldDown,           \* proposal_hold_down_ms
    SettleStatus        \* kSettleStatusMs

ASSUME ParamsAssumption ==
    /\ {ProposalInterval, ProposalMaxTries, CommitInterval, StatusInterval,
        VerifyMarkers, VerifyVideo, RecoveryDwell} \subseteq Nat \ {0}
    /\ {AckTimeout, Countdown, Lead, DrainDeadline, BlankWindow, RollbackTime,
        FollowSlack, HoldDown, SettleStatus} \subseteq Nat

(***************************************************************************)
(* A deadline no clock of the session reaches: what an unsigned            *)
(* subtraction that wraps (about 2^64 microseconds) leaves behind.         *)
(***************************************************************************)
Never == -1

Timers == Nat \cup {Never}

\* Remaining time after one unit has passed.
Elapse(t) == IF t \in {0, Never} THEN t ELSE t - 1

\* The remaining time of a deadline set d units after one already running.
Later(t, d) == IF t = Never THEN Never ELSE t + d
==============================================================================
