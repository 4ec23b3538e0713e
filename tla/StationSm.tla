------------------------------ MODULE StationSm ------------------------------
(***************************************************************************)
(* The station's association state machine (StationSm.h) with its          *)
(* supplicant: handlers as functions of the machine's state.  Time is kept *)
(* as the age of last_tx_ms_ and last_heard_ms_, in units; an AP is its    *)
(* BSSID.  What is kept only for the caller to read (the reason and status *)
(* of a failure, the AID, the counters) is left out.                       *)
(***************************************************************************)
EXTENDS Supplicant, Sequences

CONSTANTS
    Aps,                \* BSSIDs
    NoAp,
    MaxTries, MaxTxQueue,
    MgmtTimeout, HandshakeTimeout, BeaconLoss

\* The static_assert of StationSm.h, and timeouts that can pass.
ASSUME StationAssumption ==
    /\ NoAp \notin Aps
    /\ MaxTries \in Nat \ {0} /\ MaxTxQueue \in Nat
    /\ 2 * MaxTries + 1 <= MaxTxQueue
    /\ MgmtTimeout \in Nat \ {0} /\ HandshakeTimeout \in Nat \ {0}
    /\ BeaconLoss \in Nat \ {0}

\* born is the join a frame was built for.
Frames == [type : {"Auth", "Assoc", "Deauth", "Eapol"}, to : Aps,
           born : Nat, body : Replies]

\* An age is not told apart beyond the longest deadline it is read for.
MaxTxAge == IF MgmtTimeout > HandshakeTimeout THEN MgmtTimeout ELSE HandshakeTimeout

StaType == [state : {"Idle", "Authenticating", "Associating", "FourWay",
                     "Connected", "Failed"},
            configured : BOOLEAN, have_pmk : BOOLEAN,
            security : {"Open", "Wpa2Psk"}, bssid : Aps \cup {NoAp},
            joins : Nat, rsn : Rsns, authenticated : BOOLEAN,
            tries : Nat, since_tx : 0..MaxTxAge, since_heard : 0..BeaconLoss,
            sup : SupType, tx : Seq(Frames)]

NewStation ==
    [state |-> "Idle", configured |-> FALSE, have_pmk |-> FALSE,
     security |-> "Wpa2Psk", bssid |-> NoAp, joins |-> 0, rsn |-> "real",
     authenticated |-> FALSE, tries |-> 0, since_tx |-> 0,
     since_heard |-> 0, sup |-> NewSup, tx |-> <<>>]

------------------------------------------------------------------------------
(* The transmit queue. *)

Frame(s, type, body) == [type |-> type, to |-> s.bssid, born |-> s.joins, body |-> body]

\* Mutant: the bound is one too high.
Full_Over(s) == Len(s.tx) > MaxTxQueue

\* queue() drops what does not fit.
Full(s) == Len(s.tx) >= MaxTxQueue
queue(s, m) == IF Full(s) THEN s ELSE [s EXCEPT !.tx = Append(@, m)]

\* A try and its deadline count only for a frame that was queued.
send_request(s, type) ==
    IF Full(s) THEN s
    ELSE [queue(s, Frame(s, type, NoReply)) EXCEPT !.since_tx = 0, !.tries = @ + 1]
send_auth(s) == send_request(s, "Auth")
send_assoc(s) == send_request(s, "Assoc")

\* The goodbye to an AP that holds state for this station.
goodbye(s) == IF s.authenticated THEN queue(s, Frame(s, "Deauth", NoReply)) ELSE s

\* Mutant: what is queued for the association is still sent.
fail_KeepsQueue(s) == [s EXCEPT !.sup = forget(@), !.state = "Failed"]

fail(s) == [s EXCEPT !.tx = <<>>, !.sup = forget(@), !.state = "Failed"]

------------------------------------------------------------------------------
(* What the caller asks for. *)

drop_association_keys(s) ==
    [s EXCEPT !.sup = forget(@), !.tx = <<>>, !.authenticated = FALSE,
              !.state = IF @ = "Failed" THEN @ ELSE "Idle"]

\* psk_ok: pmk_from_psk accepted the passphrase.
configure(s, psk_ok) ==
    [drop_association_keys(s) EXCEPT !.have_pmk = psk_ok, !.security = "Wpa2Psk",
                                     !.configured = TRUE]
configure_open(s) ==
    [drop_association_keys(s) EXCEPT !.have_pmk = FALSE, !.security = "Open",
                                     !.configured = TRUE]

\* An entry of the BSS table: usable stands for SSID, channel and mode;
\* wpa2 for an RSN element this station can use, else the BSS is open.
Entries == [ap : Aps, usable : BOOLEAN, wpa2 : BOOLEAN, rsn : Rsns]

\* Why join refuses an entry.
Refused(s, e) ==
    \/ ~ s.configured
    \/ ~ e.usable
    \/ s.security = "Wpa2Psk" /\ ~ s.have_pmk
    \/ (s.security = "Wpa2Psk") # e.wpa2

\* Mutant: join leaves what is queued for the BSS that was given up.
Cleared_Kept(s) == s

Cleared(s) == [s EXCEPT !.tx = <<>>]

join(s, e) ==
    IF Refused(s, e) THEN fail(s)
    ELSE send_auth([goodbye(Cleared(s)) EXCEPT
                      !.bssid = e.ap, !.joins = @ + 1, !.rsn = e.rsn,
                      !.sup = forget(@), !.authenticated = FALSE, !.state = "Authenticating",
                      !.tries = 0, !.since_heard = 0])

leave(s) ==
    [goodbye([s EXCEPT !.tx = <<>>]) EXCEPT
        !.sup = forget(@), !.state = "Idle", !.authenticated = FALSE]

link_lost(s) == IF s.state = "Connected" THEN fail(s) ELSE s

pop_tx(s) == [s EXCEPT !.tx = Tail(@)]

------------------------------------------------------------------------------
(* Received frames.  on_rx has dropped what is not from bssid, not for this *)
(* station, or comes while the machine is Idle or Failed.                   *)

Listening(s) == s.state \notin {"Idle", "Failed"}

\* A beacon, or any data frame of the AP.
heard(s) == [s EXCEPT !.since_heard = 0]

on_auth(s, ok) ==
    IF s.state # "Authenticating" THEN s
    ELSE IF ~ ok THEN fail(s)
    ELSE send_assoc([s EXCEPT !.authenticated = TRUE, !.state = "Associating", !.tries = 0])

on_assoc_resp(s, ok) ==
    IF s.state # "Associating" THEN s
    ELSE IF ~ ok THEN fail(s)
    ELSE LET a == [s EXCEPT !.since_tx = 0, !.since_heard = 0]
         IN  IF s.security = "Open" THEN [a EXCEPT !.state = "Connected"]
             ELSE [a EXCEPT !.state = "FourWay", !.sup = start(@, s.joins, s.rsn)]

on_deauth(s) == [fail(s) EXCEPT !.authenticated = FALSE]

cleartext_eapol_allowed(s, k) ==
    /\ k.kind # "Group1"
    /\ ptk_valid(s.sup) => is_installed_msg3(s.sup, k)

\* What the supplicant makes of k, and the machine around it.
eapol_reply(s, k) ==
    IF s.security # "Wpa2Psk" \/ s.state \notin {"FourWay", "Connected"}
    THEN note("Ignored", s.sup) ELSE on_eapol(s.sup, k)

promote_if_keyed(s) ==
    IF s.state = "FourWay" /\ s.sup.st = "Done" /\ ptk_valid(s.sup)
    THEN [s EXCEPT !.state = "Connected", !.since_heard = 0] ELSE s

\* Associated and able to carry data.
connected(s) == s.state = "Connected" /\ (s.security = "Open" \/ ptk_valid(s.sup))

\* The deadline moves, and the machine is promoted, once a reply has left.
Sent(s, v) ==
    promote_if_keyed([s EXCEPT !.since_tx = IF v = "Reply" THEN 0 ELSE @])

\* Mutant: promoted although the reply was dropped.
on_cleartext_Dropped(s, k) ==
    LET r == eapol_reply(s, k)
        t == [s EXCEPT !.sup = r.s, !.since_heard = 0]
    IN  IF ~ cleartext_eapol_allowed(s, k) THEN heard(s)
        ELSE IF r.out = NoReply THEN t
        ELSE Sent(queue(t, Frame(t, "Eapol", r.out)), r.v)

on_cleartext(s, k) ==
    LET r == eapol_reply(s, k)
        t == [s EXCEPT !.sup = r.s, !.since_heard = 0]
    IN  IF ~ cleartext_eapol_allowed(s, k) THEN heard(s)
        ELSE IF r.out = NoReply \/ Full(t) THEN t
        ELSE Sent(queue(t, Frame(t, "Eapol", r.out)), r.v)

\* The reply to a decrypted message is the caller's to encrypt and send.
on_decrypted_msdu(s, k) ==
    LET r == eapol_reply(s, k)
        t == [s EXCEPT !.sup = r.s, !.since_heard = 0]
    IN  IF r.out = NoReply THEN t ELSE Sent(t, r.v)

------------------------------------------------------------------------------
\* Mutants: a give-up that is missing.
HandshakeOver_Never(s) == FALSE
ApLost_Never(s) == FALSE

HandshakeOver(s) == s.state = "FourWay" /\ s.since_tx >= HandshakeTimeout
ApLost(s) == s.state = "Connected" /\ s.since_heard >= BeaconLoss

tick(s) ==
    CASE s.state = "Authenticating" /\ s.since_tx >= MgmtTimeout ->
           IF s.tries >= MaxTries THEN fail(s) ELSE send_auth(s)
      [] s.state = "Associating" /\ s.since_tx >= MgmtTimeout ->
           IF s.tries >= MaxTries THEN fail(s) ELSE send_assoc(s)
      [] HandshakeOver(s) -> fail(s)
      [] ApLost(s) -> fail(s)
      [] OTHER -> s

\* A deadline has passed and tick has not been called since.
Due(s) == tick(s) # s

\* Time passes for the deadline of the state; the other one is set again
\* before it is read.
Older(age, max) == IF age < max THEN age + 1 ELSE age
elapse(s) ==
    IF s.state = "Connected" THEN [s EXCEPT !.since_heard = Older(@, BeaconLoss)]
    ELSE [s EXCEPT !.since_tx = Older(@, MaxTxAge)]
==============================================================================
