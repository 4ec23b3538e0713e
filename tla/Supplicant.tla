------------------------------ MODULE Supplicant -----------------------------
(***************************************************************************)
(* The supplicant of a WPA2-PSK association (Supplicant.h) as functions of *)
(* its state: on_eapol takes an EAPOL-Key message and gives the new state, *)
(* the verdict and the reply.  A PTK is named by the nonces it is derived  *)
(* from (there is one PMK), a MIC by the PTK whose KCK made it, a GTK by a *)
(* number.  Frames that do not parse, and a CryptoOps that fails, change   *)
(* counters only: they are frames that are lost.                           *)
(***************************************************************************)
EXTENDS Integers

Keys == [anonce : Nat, snonce : Nat]
NoKey == [anonce |-> 0, snonce |-> 0]
derive_ptk(anonce, snonce) == [anonce |-> anonce, snonce |-> snonce]

\* What the AP advertised, or someone else in its name.
Rsns == {"real", "other"}

\* "None" is an EAPOL-Key message that is no part of a supplicant's exchange.
EapolKeys == [kind : {"None", "Msg1", "Msg3", "Group1"}, replay : Nat,
              anonce : Nat, mic : Keys, gtk : Nat, rsc : Nat, rsn : Rsns]
Replies == [kind : {"None", "Msg2", "Msg4", "Group2"}, replay : Nat, mic : Keys]
NoReply == [kind |-> "None", replay |-> 0, mic |-> NoKey]

Verdicts == {"Ignored", "Malformed", "MicFailed", "Replayed", "Retransmit",
             "OutOfState", "Reply"}

\* rx_replay is -1 while no message has been authenticated; last and m1 are
\* the two caches of answers.
SupType == [st : {"Idle", "WaitMsg1", "WaitMsg3", "Done"}, snonce : Nat, rsn : Rsns,
            cand : Keys, ptk : Keys, ptk_gen : Nat,
            gtk : Nat, gtk_rsc : Nat, gtk_gen : Nat,
            rx_replay : Int, last : Replies, m1 : Replies]

NewSup == [st |-> "Idle", snonce |-> 0, rsn |-> "real", cand |-> NoKey, ptk |-> NoKey,
           ptk_gen |-> 0, gtk |-> 0, gtk_rsc |-> 0, gtk_gen |-> 0,
           rx_replay |-> -1, last |-> NoReply, m1 |-> NoReply]

ptk_valid(s) == s.ptk # NoKey

\* The generations outlive the keys: the data plane watches them.
forget(s) == [NewSup EXCEPT !.ptk_gen = s.ptk_gen, !.gtk_gen = s.gtk_gen]

start(s, snonce, rsn) ==
    [forget(s) EXCEPT !.st = "WaitMsg1", !.snonce = snonce, !.rsn = rsn]

------------------------------------------------------------------------------
Result(v, s, out) == [v |-> v, s |-> s, out |-> out]
note(v, s) == Result(v, s, NoReply)

\* The reply that is owed to this kind of message.
AnswerKind == [Msg1 |-> "Msg2", Msg3 |-> "Msg4", Group1 |-> "Group2"]

\* An equal counter is answered from the cache, and installs nothing.
retransmit_or_replay(s, k) ==
    IF k.replay = s.rx_replay /\ s.last.replay = k.replay
         /\ s.last.kind = AnswerKind[k.kind]
    THEN Result("Retransmit", s, s.last)
    ELSE note("Replayed", s)

\* Mutant: message 1 moves the authenticated replay counter.
on_msg1_Counts(s, k) ==
    LET e == [kind |-> "Msg2", replay |-> k.replay, mic |-> derive_ptk(k.anonce, s.snonce)]
    IN  Result("Reply",
               [s EXCEPT !.cand = e.mic, !.m1 = e, !.rx_replay = k.replay,
                         !.st = IF @ = "WaitMsg1" THEN "WaitMsg3" ELSE @], e)

\* Mutant: the PTK of message 1 is live at once.
on_msg1_Installs(s, k) ==
    LET e == [kind |-> "Msg2", replay |-> k.replay, mic |-> derive_ptk(k.anonce, s.snonce)]
    IN  Result("Reply",
               [s EXCEPT !.cand = e.mic, !.m1 = e, !.ptk = e.mic, !.ptk_gen = @ + 1,
                         !.st = IF @ = "WaitMsg1" THEN "WaitMsg3" ELSE @], e)

\* Message 1 only makes a candidate; nothing installed is touched.
on_msg1(s, k) ==
    LET e == [kind |-> "Msg2", replay |-> k.replay, mic |-> derive_ptk(k.anonce, s.snonce)]
    IN  Result("Reply",
               [s EXCEPT !.cand = e.mic, !.m1 = e,
                         !.st = IF @ = "WaitMsg1" THEN "WaitMsg3" ELSE @], e)

\* The PTK that a message 3 belongs to, by its ANonce.
PtkOf(s, k) ==
    IF s.cand # NoKey /\ s.cand.anonce = k.anonce THEN s.cand
    ELSE IF ptk_valid(s) /\ s.ptk.anonce = k.anonce THEN s.ptk
    ELSE NoKey

\* Mutant: a key that is in use is installed again.
install_ptk_Again(s, key) == [s EXCEPT !.ptk = key, !.ptk_gen = @ + 1]

\* "Never reinstall": the comparison is on the key.
install_ptk(s, key) ==
    IF s.ptk = key THEN s ELSE [s EXCEPT !.ptk = key, !.ptk_gen = @ + 1]

install_gtk(s, k) ==
    IF s.gtk = k.gtk THEN s
    ELSE [s EXCEPT !.gtk = k.gtk, !.gtk_rsc = k.rsc, !.gtk_gen = @ + 1]

\* authenticated() and answer(): the counter moves with the verified message.
Answered(s, e) == [s EXCEPT !.rx_replay = e.replay, !.last = e]

MicOk(key, k) == k.mic = key

on_msg3(s, k) ==
    LET kptk == PtkOf(s, k)
        e == [kind |-> "Msg4", replay |-> k.replay, mic |-> kptk]
        installed == Answered(install_gtk(install_ptk(s, kptk), k), e)
    IN  IF kptk = NoKey
        THEN note(IF s.cand = NoKey /\ ~ ptk_valid(s) THEN "OutOfState" ELSE "Malformed", s)
        ELSE IF ~ MicOk(kptk, k) THEN note("MicFailed", s)
        ELSE IF k.rsn # s.rsn THEN note("Malformed", s)
        ELSE Result("Reply",
                    [installed EXCEPT !.st = "Done",
                                      !.cand = IF @ = kptk THEN NoKey ELSE @], e)

on_group1(s, k) ==
    LET e == [kind |-> "Group2", replay |-> k.replay, mic |-> s.ptk]
    IN  IF s.st # "Done" \/ ~ ptk_valid(s) THEN note("OutOfState", s)
        ELSE IF ~ MicOk(s.ptk, k) THEN note("MicFailed", s)
        ELSE Result("Reply", Answered(install_gtk(s, k), e), e)

\* The replay gate.
Stale(s, k) == k.replay <= s.rx_replay

\* A message 1 that has been answered: the same counter and the same ANonce.
Repeated1(s, k) ==
    /\ k.kind = "Msg1" /\ s.m1 # NoReply
    /\ k.replay = s.m1.replay /\ k.anonce = s.m1.mic.anonce

on_eapol(s, k) ==
    CASE s.st = "Idle"     -> note("OutOfState", s)
      [] s.st # "Idle" /\ k.kind = "None" -> note("Ignored", s)
      [] s.st # "Idle" /\ k.kind # "None" ->
           IF Stale(s, k) THEN retransmit_or_replay(s, k)
           ELSE IF Repeated1(s, k) THEN Result("Retransmit", s, s.m1)
           ELSE CASE k.kind = "Msg1"   -> on_msg1(s, k)
                  [] k.kind = "Msg3"   -> on_msg3(s, k)
                  [] k.kind = "Group1" -> on_group1(s, k)

\* A message 3 of the handshake that is installed already.
is_installed_msg3(s, k) == ptk_valid(s) /\ k.kind = "Msg3" /\ k.anonce = s.ptk.anonce
==============================================================================
