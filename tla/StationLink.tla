----------------------------- MODULE StationLink -----------------------------
(***************************************************************************)
(* The station with what it lives among: access points that authenticate,  *)
(* key and rekey it (external: hostapd), the caller (tests/sta_client.cpp) *)
(* that sends its frames and decrypts what is protected, and a radio that  *)
(* loses, delays, reorders and repeats the APs' frames.  A PTK is [ANonce, *)
(* SNonce]; a GTK is [number, 0].                                          *)
(***************************************************************************)
EXTENDS StationSm, CcmpReplay, FiniteSets

CONSTANTS
    Secured,        \* the APs of the configured SSID that use WPA2-PSK
    MaxJoins,       \* bound: calls of join that are not refused
    ApTries,        \* bound: retransmissions per message of an AP
    MaxRekeys,      \* bound: rekeys by APs
    MaxStrays,      \* bound: messages 1 that no AP sent
    MaxRepeats,     \* bound: frames the radio delivers again
    MaxPn,          \* bound: protected frames per key
    MaxAir          \* bound: frames that are under way

ASSUME LinkAssumption ==
    /\ Secured \subseteq Aps /\ IsFiniteSet(Secured)
    /\ \A n \in {MaxJoins, ApTries, MaxRekeys, MaxStrays, MaxRepeats, MaxPn, MaxAir} : n \in Nat

VARIABLES
    sta,        \* the station
    ap,         \* what each AP holds for the station
    air,        \* the APs' frames that are under way
    fresh,      \* the next ANonce or GTK nobody has used
    win,        \* the data plane's replay windows: under the PTK, under the GTK
    got,        \* the protected frames the data plane has accepted ...
    twice,      \* ... and whether it accepted one again
    left        \* what is left of the bounds

vars == <<sta, ap, air, fresh, win, got, twice, left>>

Tid == CHOOSE t \in Tids : TRUE
GroupKey(gtk) == [anonce |-> gtk, snonce |-> 0]
NoBody == [kind |-> "None", replay |-> 0, anonce |-> 0, mic |-> NoKey, gtk |-> 0,
           rsc |-> 0, rsn |-> "real"]

\* key is NoKey for a frame in the clear; ok is the status of a response.
AirFrames == [type : {"Auth", "Assoc", "Deauth", "Data"}, from : Aps, ok : BOOLEAN,
              key : Keys, pn : Nat, body : EapolKeys]
Air(type, a, ok) == [type |-> type, from |-> a, ok |-> ok, key |-> NoKey, pn |-> 0,
                     body |-> NoBody]

\* wait is the message an AP waits for; key the PTK it has installed, ptk the
\* one of the handshake under way.
ApType == [st : {"Off", "None", "Auth", "Assoc"}, wait : {"None", "Msg2", "Msg4", "Group2"},
           key : Keys, ptk : Keys, anonce : Nat, replay : Nat, tries : Nat,
           pn : Nat, gtk : Nat, gpn : Nat]
NewAp == [st |-> "None", wait |-> "None", key |-> NoKey, ptk |-> NoKey, anonce |-> 0,
          replay |-> 0, tries |-> 0, pn |-> 0, gtk |-> 0, gpn |-> 0]

\* A PTK is forgotten with the association; the GTK is the AP's.
Released(p) == [NewAp EXCEPT !.gtk = p.gtk, !.gpn = p.gpn]

\* Every secured AP has started with a GTK of its own.
FirstGtks == {f \in [Secured -> 1..Cardinality(Secured)] :
                \A a, b \in Secured : f[a] = f[b] => a = b}

Init ==
    /\ sta = NewStation /\ air = {} /\ got = {} /\ twice = FALSE
    /\ \E f \in FirstGtks :
         ap = [a \in Aps |-> [NewAp EXCEPT !.gtk = IF a \in Secured THEN f[a] ELSE 0]]
    /\ fresh = Cardinality(Secured) + 1
    /\ win = [pair |-> reset, group |-> reset]
    /\ left = [rekeys |-> MaxRekeys, strays |-> MaxStrays, repeats |-> MaxRepeats]

------------------------------------------------------------------------------
(* The access points. *)

\* The message an AP sends while it waits for an answer: in the clear until
\* it has installed a PTK, protected after.
KeyMessage(a, p) ==
    [Air("Data", a, TRUE) EXCEPT
        !.key = p.key, !.pn = p.pn,
        !.body = [kind |-> [Msg2 |-> "Msg1", Msg4 |-> "Msg3", Group2 |-> "Group1"][p.wait],
                  replay |-> p.replay,
                  anonce |-> IF p.wait = "Group2" THEN 0 ELSE p.anonce,
                  mic |-> [Msg2 |-> NoKey, Msg4 |-> p.ptk, Group2 |-> p.key][p.wait],
                  gtk |-> IF p.wait = "Msg2" THEN 0 ELSE p.gtk,
                  rsc |-> IF p.wait = "Msg2" THEN 0 ELSE p.gpn,
                  rsn |-> "real"]]

\* Every protected frame has a packet number of its own.
NextPn(p) == [p EXCEPT !.pn = IF p.key = NoKey THEN 0 ELSE @ + 1]

\* The AP p starts or goes on with an exchange.
Asks(p, wait) == NextPn([p EXCEPT !.wait = wait, !.replay = @ + 1, !.tries = 0])

\* Frames that find the receiver full are lost.
Aired(sky, ms) == IF Cardinality(sky \cup ms) <= MaxAir THEN sky \cup ms ELSE sky

\* AP a is p from now on and has sent ms.
ApBecomes(a, p, sky, ms) == ap' = [ap EXCEPT ![a] = p] /\ air' = Aired(sky, ms)

\* A reply quotes a counter of the message the AP waits to see answered.
Quotes(p, b) == b.replay \in p.replay - p.tries..p.replay

\* An AP receives frame f of the station.
ApHears(f, sky) ==
    LET a == f.to
        p == ap[a]
        b == f.body
    IN  \/ /\ f.type = "Auth" /\ p.st # "Off"
           /\ \E ok \in BOOLEAN :
                ApBecomes(a, [Released(p) EXCEPT !.st = IF ok THEN "Auth" ELSE "None"],
                          sky, {Air("Auth", a, ok)})
           /\ fresh' = fresh
        \/ /\ f.type = "Assoc" /\ p.st \in {"Auth", "Assoc"}
           /\ IF a \in Secured
              THEN LET q == Asks([Released(p) EXCEPT !.st = "Assoc", !.anonce = fresh], "Msg2")
                   IN  ApBecomes(a, q, sky, {Air("Assoc", a, TRUE), KeyMessage(a, q)})
                       /\ fresh' = fresh + 1
              ELSE ApBecomes(a, [p EXCEPT !.st = "Assoc"], sky, {Air("Assoc", a, TRUE)})
                   /\ fresh' = fresh
        \/ /\ f.type = "Assoc" /\ p.st # "Off"
           /\ ApBecomes(a, Released(p), sky, {Air("Assoc", a, FALSE)}) /\ fresh' = fresh
        \/ /\ f.type = "Deauth" /\ p.st # "Off"
           /\ ApBecomes(a, Released(p), sky, {}) /\ fresh' = fresh
        \/ /\ b.kind = "Msg2" /\ p.wait = "Msg2"
           /\ Quotes(p, b) /\ b.mic.anonce = p.anonce
           /\ LET q == Asks([p EXCEPT !.ptk = b.mic], "Msg4")
              IN  ApBecomes(a, q, sky, {KeyMessage(a, q)})
           /\ fresh' = fresh
        \/ /\ b.kind = "Msg4" /\ p.wait = "Msg4" /\ Quotes(p, b) /\ b.mic = p.ptk
           /\ ApBecomes(a, [p EXCEPT !.key = p.ptk, !.wait = "None", !.pn = 0], sky, {})
           /\ fresh' = fresh
        \/ /\ b.kind = "Group2" /\ p.wait = "Group2" /\ Quotes(p, b) /\ b.mic = p.key
           /\ ApBecomes(a, [p EXCEPT !.wait = "None"], sky, {}) /\ fresh' = fresh

\* A frame on its way to an AP arrives or is lost.
Uplink(f) ==
    \/ UNCHANGED <<ap, air, fresh>>
    \/ ApHears(f, air)

\* An AP asks again, with the counter it used or with the next.
ApRetransmit(a) ==
    LET p == [NextPn(ap[a]) EXCEPT !.tries = @ + 1]
    IN  /\ ap[a].wait # "None" /\ ap[a].tries < ApTries /\ p.pn <= MaxPn
        /\ \E r \in {p.replay, p.replay + 1} :
             LET q == [p EXCEPT !.replay = r] IN ApBecomes(a, q, air, {KeyMessage(a, q)})
        /\ UNCHANGED <<sta, fresh, win, got, twice, left>>

\* An AP gives the exchange up, or lets the station go.
ApDeauth(a) ==
    /\ ap[a].st = "Assoc"
    /\ ApBecomes(a, Released(ap[a]), air, {Air("Deauth", a, TRUE)})
    /\ UNCHANGED <<sta, fresh, win, got, twice, left>>

ApRekey(a) ==
    /\ ap[a].key # NoKey /\ ap[a].wait = "None" /\ ap[a].pn < MaxPn /\ left.rekeys > 0
    /\ \E q \in {Asks([ap[a] EXCEPT !.gtk = fresh, !.gpn = 0], "Group2"),
                 Asks([ap[a] EXCEPT !.anonce = fresh], "Msg2")} :
         ApBecomes(a, q, air, {KeyMessage(a, q)})
    /\ fresh' = fresh + 1
    /\ left' = [left EXCEPT !.rekeys = @ - 1]
    /\ UNCHANGED <<sta, win, got, twice>>

\* A data frame for the station, or one for the group.
ApData(a) ==
    /\ ap[a].key # NoKey
    /\ \/ /\ ap[a].pn < MaxPn
          /\ LET q == NextPn(ap[a])
             IN  ApBecomes(a, q, air, {[Air("Data", a, TRUE) EXCEPT !.key = q.key, !.pn = q.pn]})
       \/ /\ ap[a].gpn < MaxPn
          /\ LET q == [ap[a] EXCEPT !.gpn = @ + 1]
             IN  ApBecomes(a, q, air, {[Air("Data", a, TRUE) EXCEPT !.key = GroupKey(q.gtk),
                                                               !.pn = q.gpn]})
    /\ UNCHANGED <<sta, fresh, win, got, twice, left>>

ApOff(a) ==
    /\ ap[a].st # "Off"
    /\ ApBecomes(a, [Released(ap[a]) EXCEPT !.st = "Off"], air, {})
    /\ UNCHANGED <<sta, fresh, win, got, twice, left>>

------------------------------------------------------------------------------
(* The station and the data plane around it. *)

\* note_keys: the windows follow the generations of the keys.
Rekeyed(w, old, new) ==
    [pair  |-> IF new.ptk_gen # old.ptk_gen THEN reset ELSE w.pair,
     group |-> IF new.gtk_gen # old.gtk_gen THEN seed(new.gtk_rsc) ELSE w.group]

\* The station is s from now on, having heard nothing.
StationBecomes(s) == sta' = s /\ win' = Rekeyed(win, sta.sup, s.sup)

Configure ==
    /\ sta.joins < MaxJoins
    /\ \E s \in {configure(sta, TRUE), configure(sta, FALSE), configure_open(sta)} :
         StationBecomes(s)
    /\ UNCHANGED <<ap, air, fresh, got, twice, left>>

\* The BSS table's entry for an AP: what it advertised, or what someone else
\* advertised in its name.
Join(e) ==
    /\ sta.joins < MaxJoins
    /\ e.wpa2 = (e.ap \in Secured)
    /\ StationBecomes(join(sta, e))
    /\ UNCHANGED <<ap, air, fresh, got, twice, left>>

Leave ==
    /\ sta.state # "Idle"
    /\ StationBecomes(leave(sta))
    /\ UNCHANGED <<ap, air, fresh, got, twice, left>>

\* The caller's own check of the link failed.
LinkLost ==
    /\ sta.state = "Connected"
    /\ StationBecomes(link_lost(sta))
    /\ UNCHANGED <<ap, air, fresh, got, twice, left>>

Transmit ==
    /\ sta.tx # <<>>
    /\ StationBecomes(pop_tx(sta))
    /\ Uplink(Head(sta.tx))
    /\ UNCHANGED <<got, twice, left>>

Tick ==
    /\ Due(sta)
    /\ StationBecomes(tick(sta))
    /\ UNCHANGED <<ap, air, fresh, got, twice, left>>

\* tick is called often: no unit passes while a deadline is due.
Elapse ==
    /\ Listening(sta) /\ ~ Due(sta)
    /\ StationBecomes(elapse(sta))
    /\ UNCHANGED <<ap, air, fresh, got, twice, left>>

Beacon(a) ==
    /\ ap[a].st # "Off" /\ sta.bssid = a /\ Listening(sta)
    /\ StationBecomes(heard(sta))
    /\ UNCHANGED <<ap, air, fresh, got, twice, left>>

\* A message 1 no AP sent: with the counter of the real one, or far ahead.
Stray(a) ==
    /\ left.strays > 0 /\ sta.bssid = a /\ Listening(sta)
    /\ \E r \in {ap[a].replay, ap[a].replay + ApTries + 2} :
         StationBecomes(on_cleartext(sta, [NoBody EXCEPT !.kind = "Msg1", !.replay = r]))
    /\ left' = [left EXCEPT !.strays = @ - 1]
    /\ UNCHANGED <<ap, air, fresh, got, twice>>

\* What the machine makes of a frame in the clear.
OnRx(s, m) ==
    CASE m.type = "Auth"   -> on_auth(s, m.ok)
      [] m.type = "Assoc"  -> on_assoc_resp(s, m.ok)
      [] m.type = "Deauth" -> on_deauth(s)
      [] m.type = "Data"   -> on_cleartext(s, m.body)

\* The radio gives a frame to the station once, or keeps it for another time.
Delivered(m) ==
    /\ sta.bssid = m.from /\ Listening(sta)
    /\ \/ left' = left
       \/ left.repeats > 0 /\ left' = [left EXCEPT !.repeats = @ - 1]

Taken(m) == IF left' = left THEN air \ {m} ELSE air

Receive(m) ==
    /\ m \in air /\ m.key = NoKey /\ Delivered(m)
    /\ StationBecomes(OnRx(sta, m))
    /\ air' = Taken(m)
    /\ UNCHANGED <<ap, fresh, got, twice>>

\* A protected frame that decrypts and passes the window w of its key.  The
\* data plane runs only on a live association.
Accepts(w, m) ==
    /\ connected(sta)
    /\ Acceptable(win[w][Tid], m.pn)
    /\ got' = got \cup {[key |-> m.key, pn |-> m.pn]}
    /\ twice' = (twice \/ [key |-> m.key, pn |-> m.pn] \in got)

Accepted1(w, m) == [win EXCEPT ![w][Tid] = Accepted(@, m.pn)]

ReceiveGroup(m) ==
    /\ m \in air /\ m.key # NoKey /\ m.key = GroupKey(sta.sup.gtk) /\ Delivered(m)
    /\ Accepts("group", m)
    /\ win' = Accepted1("group", m)
    /\ air' = Taken(m)
    /\ UNCHANGED <<sta, ap, fresh>>

\* The reply is the caller's to encrypt and send; it arrives or is lost.
ReceiveProtected(m) ==
    LET s == on_decrypted_msdu(sta, m.body)
        reply == Frame(sta, "Eapol", eapol_reply(sta, m.body).out)
    IN  /\ m \in air /\ m.key # NoKey /\ m.key = sta.sup.ptk /\ Delivered(m)
        /\ Accepts("pair", m)
        /\ sta' = s
        /\ win' = Rekeyed(Accepted1("pair", m), sta.sup, s.sup)
        /\ \/ air' = Taken(m) /\ UNCHANGED <<ap, fresh>>
           \/ /\ reply.body # NoReply /\ left' = left
              /\ ApHears(reply, air \ {m})

\* A protected frame to the station that the data plane cannot read or refuses
\* still shows that the AP is there.
ReceiveUnread(m) ==
    /\ m \in air /\ m.key # NoKey /\ m.key.snonce # 0 /\ Delivered(m)
    /\ ~ (connected(sta) /\ m.key = sta.sup.ptk /\ Acceptable(win.pair[Tid], m.pn))
    /\ StationBecomes(heard(sta))
    /\ air' = Taken(m)
    /\ UNCHANGED <<ap, fresh, got, twice>>

Lose(m) ==
    /\ m \in air
    /\ air' = air \ {m}
    /\ UNCHANGED <<sta, ap, fresh, win, got, twice, left>>

------------------------------------------------------------------------------
\* bound: nothing is followed beyond the end of the last join.
Watched == Listening(sta) \/ sta.joins < MaxJoins

ApStep(a) ==
    \/ ApRetransmit(a) \/ ApDeauth(a) \/ ApRekey(a) \/ ApData(a) \/ ApOff(a)
    \/ Beacon(a) \/ Stray(a)

CallerStep ==
    \/ Configure \/ Leave \/ LinkLost \/ Transmit
    \/ \E e \in Entries : Join(e)

RadioStep ==
    \E m \in air :
        Receive(m) \/ ReceiveGroup(m) \/ ReceiveProtected(m) \/ ReceiveUnread(m) \/ Lose(m)

Clock == Tick \/ Elapse

Next ==
    \/ CallerStep
    \/ Clock
    \/ Watched /\ (RadioStep \/ \E a \in Aps : ApStep(a))

Spec == Init /\ [][Next]_vars

\* The caller polls: time passes and tick is called.
FairSpec == Spec /\ WF_vars(Clock)

------------------------------------------------------------------------------
(* Properties *)

\* Types; the transmit queue of StationSm stays within kMaxTxQueue.
TypeOK ==
    /\ sta \in StaType /\ Len(sta.tx) <= MaxTxQueue
    /\ ap \in [Aps -> ApType]
    /\ air \subseteq AirFrames /\ fresh \in Nat
    /\ win \in [pair : Windows, group : Windows]
    /\ got \subseteq [key : Keys, pn : Nat] /\ twice \in BOOLEAN
    /\ left \in [rekeys : Nat, strays : Nat, repeats : Nat]

\* A management request is never the frame queue() drops (the comment at the
\* static_assert of StationSm.h): whenever send_auth or send_assoc may run
\* there is room, whatever replies and goodbyes are still queued.
RequestsFit ==
    /\ sta.state = "Authenticating" => ~ Full(sta) /\ sta.tries > 0
    /\ sta.state = "Associating" => sta.tries > 0 /\ (sta.tries < MaxTries => ~ Full(sta))

\* Nothing airs for an association that has ended: what is queued belongs to
\* the join under way, but for the goodbye to the AP before, which is first.
QueueIsCurrent ==
    \A i \in 1..Len(sta.tx) :
        IF sta.tx[i].type = "Deauth" THEN i = 1
        ELSE Listening(sta) /\ sta.tx[i].to = sta.bssid /\ sta.tx[i].born = sta.joins

\* No protected frame is accepted twice, through lost messages 4, rekeys,
\* repeated frames and new associations: a key in use is never installed
\* again, so its window is never reopened.
NoFrameTwice == ~ twice

\* A station with a PTK holds the key its AP has installed or is about to
\* install, and chose the AP by the AP's own advertisement.
KeysAgree ==
    ptk_valid(sta.sup) /\ ap[sta.bssid].key # NoKey =>
        /\ \/ sta.sup.ptk = ap[sta.bssid].key
           \/ sta.sup.ptk = ap[sta.bssid].ptk /\ ap[sta.bssid].wait = "Msg4"
        /\ sta.rsn = "real"

\* What an AP asks in the first handshake gets an answer, whatever the
\* station received before, unless a message 1 of someone else took the
\* place of the AP's own.
AskedIsAnswered ==
    \A a \in Aps :
        LET k == KeyMessage(a, ap[a]).body
        IN  /\ ap[a].wait # "None" /\ ap[a].key = NoKey /\ sta.bssid = a
            /\ sta.security = "Wpa2Psk" /\ sta.state \in {"FourWay", "Connected"}
            /\ sta.rsn = "real" /\ ap[a].ptk.snonce \in {0, sta.joins}
            /\ k.kind = "Msg3" => k.anonce \in {sta.sup.cand.anonce, sta.sup.ptk.anonce}
            => /\ cleartext_eapol_allowed(sta, k)
               /\ on_eapol(sta.sup, k).v \in {"Reply", "Retransmit"}

\* The step that makes a WPA2 station Connected sends a message 4 for the
\* key it installed: no traffic before the AP can key.
PromotedWithMsg4 ==
    [][sta.state = "FourWay" /\ sta'.state = "Connected" =>
         LET n == Len(sta'.tx)
         IN  /\ n = Len(sta.tx) + 1
             /\ sta'.tx[n].body.kind = "Msg4" /\ sta'.tx[n].body.mic = sta'.sup.ptk]_vars

\* Every join ends: connected, failed or given up by the caller.
JoinEnds ==
    sta.state \in {"Authenticating", "Associating", "FourWay"}
        ~> sta.state \in {"Connected", "Failed", "Idle"}

\* An AP that is gone is noticed.
GoneApNoticed ==
    \A a \in Aps :
        (sta.state = "Connected" /\ sta.bssid = a /\ ap[a].st = "Off") ~> sta.state # "Connected"
==============================================================================
