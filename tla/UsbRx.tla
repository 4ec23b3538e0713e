-------------------------------- MODULE UsbRx --------------------------------
(***************************************************************************)
(* The receive ring of UsbTransport: rx_loop, its completion callback      *)
(* devourer_rx_cb and the consumer thread of the SpscFat mode, in the three *)
(* asynchronous modes and both policies for an exhausted pool.  libusb     *)
(* runs one callback at a time, on the thread that pumps: rx_loop's own,   *)
(* or the one of a co-running sender.  A step is what happens under one    *)
(* lock or between two accesses to shared state.                           *)
(***************************************************************************)
EXTENDS Naturals, Sequences, FiniteSets

CONSTANTS
    Urbs,           \* the transfers of the ring; each has a buffer of its name
    Spares,         \* pool_spare more buffers
    NoBuf,
    Modes,          \* the modes explored, of "Async", "ReorderPool", "SpscFat"
    Policies,       \* ... and policies, of "Backpressure", "Drop"
    CoRunning,      \* whether another thread pumps, the cases explored
    Faulty          \* ... a device that is there fails transfers or ends them empty

ASSUME RxAssumption ==
    /\ Urbs # {} /\ IsFiniteSet(Urbs) /\ Urbs \cap Spares = {}
    /\ NoBuf \notin Urbs \cup Spares
    /\ Modes \subseteq {"Async", "ReorderPool", "SpscFat"}
    /\ Policies \subseteq {"Backpressure", "Drop"} /\ CoRunning \subseteq BOOLEAN
    /\ Faulty \subseteq BOOLEAN

Bufs == Urbs \cup Spares

VARIABLES
    cfg,        \* how the transport was built, and the ring it could post
    urb,        \* each transfer: where it is, and its buffer
    sh,         \* AsyncRxShared
    cb,         \* the callback that is running
    con,        \* the consumer thread
    pc,         \* where rx_loop is
    stop,       \* should_stop()
    plugged     \* the device is there

vars == <<cfg, urb, sh, cb, con, pc, stop, plugged>>

\* "Out": not libusb's.  A completed transfer waits for its callback.
Completions == {"Data", "Empty", "Error", "Cancelled", "Gone"}
CfgType == [mode : Modes, policy : Policies, co : CoRunning, faulty : Faulty,
            ring : SUBSET Urbs]
UrbType == [st : {"Out", "Armed"} \cup Completions, buf : Bufs \cup {NoBuf}]
ShType == [active : 0 .. Cardinality(Urbs), dead : BOOLEAN, free : SUBSET Bufs, queue : Seq(Bufs),
           parked : Seq(Urbs), closed : BOOLEAN, consumer_stop : BOOLEAN]
CbType == [pc : {"Idle", "Take", "SubmitFresh", "Consume", "ConsumeReceived", "Return",
                 "Resubmit", "Enqueue", "Exhausted", "Park"},
           on : {"rx", "tx"}, urb : Urbs, resubmit : BOOLEAN, full : BOOLEAN,
           buf : Bufs \cup {NoBuf}, fresh : Bufs \cup {NoBuf}]
ConType == [pc : {"Wait", "Consume", "Return", "Stopped"}, buf : Bufs \cup {NoBuf}]

NoCb == [pc |-> "Idle", on |-> "rx", urb |-> CHOOSE u \in Urbs : TRUE, resubmit |-> FALSE,
         full |-> FALSE, buf |-> NoBuf, fresh |-> NoBuf]

spsc == cfg.mode = "SpscFat"
bp == cfg.policy = "Backpressure"

\* Transfers that cannot be allocated or submitted are no part of the ring.
Init ==
    /\ cfg \in CfgType
    /\ urb = [u \in Urbs |-> IF u \in cfg.ring THEN [st |-> "Armed", buf |-> u]
                             ELSE [st |-> "Out", buf |-> NoBuf]]
    /\ sh = [active |-> Cardinality(cfg.ring), dead |-> FALSE,
             free |-> IF cfg.mode = "Async" THEN {} ELSE Spares,
             queue |-> <<>>, parked |-> <<>>, closed |-> FALSE, consumer_stop |-> FALSE]
    /\ cb = NoCb
    /\ con = [pc |-> IF spsc THEN "Wait" ELSE "Stopped", buf |-> NoBuf]
    /\ pc = "Loop" /\ stop = FALSE /\ plugged = TRUE

------------------------------------------------------------------------------
(* The device and the caller. *)

\* A frame arrives, or the transfer ends with nothing in it, or fails.
Complete(u) ==
    /\ urb[u].st = "Armed" /\ plugged
    /\ \E st \in {"Data", "Empty", "Error"} :
          /\ st # "Data" => cfg.faulty
          /\ urb' = [urb EXCEPT ![u].st = st]
    /\ UNCHANGED <<cfg, sh, cb, con, pc, stop, plugged>>

Unplug ==
    /\ plugged /\ plugged' = FALSE
    /\ UNCHANGED <<cfg, urb, sh, cb, con, pc, stop>>

\* Every transfer of a device that is gone ends.
Vanish(u) ==
    /\ urb[u].st = "Armed" /\ ~ plugged
    /\ urb' = [urb EXCEPT ![u].st = "Gone"]
    /\ UNCHANGED <<cfg, sh, cb, con, pc, stop, plugged>>

Stop ==
    /\ ~ stop /\ stop' = TRUE
    /\ UNCHANGED <<cfg, urb, sh, cb, con, pc, plugged>>

Environment == Unplug \/ Stop \/ \E u \in Urbs : Complete(u)

------------------------------------------------------------------------------
(* devourer_rx_cb *)

Running(p) == cb.pc = p
Goto(p) == cb' = [cb EXCEPT !.pc = p]
Ends == cb' = NoCb

\* libusb_submit_transfer of u with buffer b: it may fail, and does once the
\* device is gone.
Submitted(u, b) == plugged /\ urb' = [urb EXCEPT ![u] = [st |-> "Armed", buf |-> b]]
SubmitFails == cfg.faulty \/ ~ plugged

\* A pumping thread runs the callback of a completed transfer.
CbEnter(u, thread) ==
    /\ Running("Idle") /\ urb[u].st \in Completions
    /\ IF thread = "rx" THEN pc \in {"Loop", "Drain"} ELSE cfg.co
    /\ sh' = [sh EXCEPT !.dead = @ \/ urb[u].st = "Gone"]
    /\ cb' = [pc |-> IF cfg.mode = "Async" THEN "Consume" ELSE "Take", on |-> thread,
              urb |-> u, resubmit |-> ~ stop /\ urb[u].st \in {"Data", "Empty"},
              full |-> urb[u].st = "Data", buf |-> urb[u].buf, fresh |-> NoBuf]
    /\ urb' = [urb EXCEPT ![u].st = "Out"]
    /\ UNCHANGED <<cfg, con, pc, stop, plugged>>

\* What a mode does when it has no fresh buffer on the wire.
Degraded == IF spsc THEN "Exhausted" ELSE "Consume"

CbTake ==
    /\ Running("Take")
    /\ \/ \E b \in sh.free :
            /\ cb.resubmit
            /\ sh' = [sh EXCEPT !.free = @ \ {b}]
            /\ cb' = [cb EXCEPT !.pc = "SubmitFresh", !.fresh = b]
       \/ /\ ~ cb.resubmit \/ sh.free = {}
          /\ sh' = sh /\ Goto(Degraded)
    /\ UNCHANGED <<cfg, urb, con, pc, stop, plugged>>

\* The ring is armed with the fresh buffer before the other one is read.
CbSubmitFresh ==
    /\ Running("SubmitFresh")
    /\ \/ /\ Submitted(cb.urb, cb.fresh) /\ sh' = sh
          /\ cb' = [cb EXCEPT !.pc = IF spsc THEN "Enqueue" ELSE "ConsumeReceived",
                              !.fresh = NoBuf]
       \/ /\ SubmitFails /\ urb' = urb
          /\ sh' = [sh EXCEPT !.free = @ \cup {cb.fresh}]
          /\ cb' = [cb EXCEPT !.pc = Degraded, !.fresh = NoBuf]
    /\ UNCHANGED <<cfg, con, pc, stop, plugged>>

\* on_data runs on the pump.
CbConsume ==
    /\ cb.pc \in {"Consume", "ConsumeReceived"}
    /\ Goto(IF Running("Consume") THEN "Resubmit" ELSE "Return")
    /\ UNCHANGED <<cfg, urb, sh, con, pc, stop, plugged>>

CbReturn ==
    /\ Running("Return")
    /\ sh' = [sh EXCEPT !.free = @ \cup {cb.buf}] /\ Ends
    /\ UNCHANGED <<cfg, urb, con, pc, stop, plugged>>

\* The transfer goes back with the buffer it had, or is retired: the last
\* thing the callback does.
AgainOrRetire ==
    \/ cb.resubmit /\ Submitted(cb.urb, cb.buf) /\ sh' = sh
    \/ (cb.resubmit => SubmitFails) /\ urb' = urb /\ sh' = [sh EXCEPT !.active = @ - 1]

CbResubmit ==
    /\ Running("Resubmit")
    /\ AgainOrRetire /\ Ends
    /\ UNCHANGED <<cfg, con, pc, stop, plugged>>

CbEnqueue ==
    /\ Running("Enqueue")
    /\ sh' = IF cb.full THEN [sh EXCEPT !.queue = Append(@, cb.buf)]
             ELSE [sh EXCEPT !.free = @ \cup {cb.buf}]
    /\ Ends
    /\ UNCHANGED <<cfg, urb, con, pc, stop, plugged>>

\* Mutant: the transfer is parked before its frame is queued.
CbExhausted_ParkFirst ==
    /\ Running("Exhausted")
    /\ IF bp /\ cb.resubmit /\ cb.full /\ ~ sh.closed
       THEN /\ urb' = [urb EXCEPT ![cb.urb].buf = NoBuf]
            /\ sh' = [sh EXCEPT !.parked = Append(@, cb.urb)]
            /\ cb' = [cb EXCEPT !.pc = "Enqueue"]
       ELSE AgainOrRetire /\ Ends
    /\ UNCHANGED <<cfg, con, pc, stop, plugged>>

\* SpscFat without a fresh buffer: the frame is queued and the transfer is
\* parked, or the frame is dropped.
CbExhausted ==
    /\ Running("Exhausted")
    /\ IF bp /\ cb.resubmit /\ cb.full
       THEN /\ urb' = [urb EXCEPT ![cb.urb].buf = NoBuf]
            /\ sh' = [sh EXCEPT !.queue = Append(@, cb.buf)]
            /\ cb' = [cb EXCEPT !.pc = "Park", !.buf = NoBuf]
       ELSE AgainOrRetire /\ Ends
    /\ UNCHANGED <<cfg, con, pc, stop, plugged>>

CbPark ==
    /\ Running("Park")
    /\ sh' = IF sh.closed THEN [sh EXCEPT !.active = @ - 1]
             ELSE [sh EXCEPT !.parked = Append(@, cb.urb)]
    /\ Ends
    /\ UNCHANGED <<cfg, urb, con, pc, stop, plugged>>

CbStep ==
    \/ CbTake \/ CbSubmitFresh \/ CbConsume \/ CbReturn \/ CbResubmit
    \/ CbEnqueue \/ CbExhausted \/ CbPark

------------------------------------------------------------------------------
(* The consumer thread. *)

ConTake ==
    /\ con.pc = "Wait" /\ sh.queue # <<>>
    /\ con' = [pc |-> "Consume", buf |-> Head(sh.queue)]
    /\ sh' = [sh EXCEPT !.queue = Tail(@)]
    /\ UNCHANGED <<cfg, urb, cb, pc, stop, plugged>>

ConConsume ==
    /\ con.pc = "Consume"
    /\ con' = [con EXCEPT !.pc = "Return"]
    /\ UNCHANGED <<cfg, urb, sh, cb, pc, stop, plugged>>

\* Mutant: a returned buffer always goes to the pool.
Rearming_Never == FALSE

\* A parked transfer gets the buffer, else the pool does.
Rearming == bp /\ ~ sh.closed /\ sh.parked # <<>>

\* Mutant: the buffer of a transfer that is armed again is pooled too.
ConReturn_Pools ==
    /\ con.pc = "Return"
    /\ \/ LET t == sh.parked[Len(sh.parked)]
          IN  /\ Rearming /\ Submitted(t, con.buf)
              /\ sh' = [sh EXCEPT !.parked = SubSeq(@, 1, Len(@) - 1),
                                  !.free = @ \cup {con.buf}]
       \/ /\ (Rearming => SubmitFails) /\ urb' = urb
          /\ sh' = [sh EXCEPT !.free = @ \cup {con.buf}]
    /\ con' = [pc |-> "Wait", buf |-> NoBuf]
    /\ UNCHANGED <<cfg, cb, pc, stop, plugged>>

\* Mutant: a submission the device did not take is not remembered.
ConReturn_NoLatch ==
    /\ con.pc = "Return"
    /\ \/ LET t == sh.parked[Len(sh.parked)]
          IN  /\ Rearming /\ Submitted(t, con.buf)
              /\ sh' = [sh EXCEPT !.parked = SubSeq(@, 1, Len(@) - 1)]
       \/ /\ (Rearming => SubmitFails) /\ urb' = urb
          /\ sh' = [sh EXCEPT !.free = @ \cup {con.buf}]
    /\ con' = [pc |-> "Wait", buf |-> NoBuf]
    /\ UNCHANGED <<cfg, cb, pc, stop, plugged>>

ConReturn ==
    /\ con.pc = "Return"
    /\ \/ LET t == sh.parked[Len(sh.parked)]
          IN  /\ Rearming /\ Submitted(t, con.buf)
              /\ sh' = [sh EXCEPT !.parked = SubSeq(@, 1, Len(@) - 1)]
       \/ /\ (Rearming => SubmitFails) /\ urb' = urb
          /\ sh' = [sh EXCEPT !.free = @ \cup {con.buf},
                              !.dead = @ \/ (Rearming /\ ~ plugged)]
    /\ con' = [pc |-> "Wait", buf |-> NoBuf]
    /\ UNCHANGED <<cfg, cb, pc, stop, plugged>>

ConStop ==
    /\ con.pc = "Wait" /\ sh.queue = <<>> /\ sh.consumer_stop
    /\ con' = [con EXCEPT !.pc = "Stopped"]
    /\ UNCHANGED <<cfg, urb, sh, cb, pc, stop, plugged>>

Consumer == ConTake \/ ConConsume \/ ConReturn \/ ConStop

------------------------------------------------------------------------------
(* rx_loop, which waits while it runs a callback itself. *)

At(p) == pc = p /\ ~ (cb.pc # "Idle" /\ cb.on = "rx")

LoopEnds ==
    /\ At("Loop") /\ (stop \/ sh.active <= 0 \/ sh.dead)
    /\ pc' = "Close"
    /\ UNCHANGED <<cfg, urb, sh, cb, con, stop, plugged>>

\* Mutant: the parked transfers stay counted.
Close_Counted ==
    /\ At("Close") /\ pc' = "Cancel"
    /\ sh' = [sh EXCEPT !.closed = TRUE, !.parked = <<>>]
    /\ UNCHANGED <<cfg, urb, cb, con, stop, plugged>>

\* No transfer is parked, or armed by the consumer, from here on.
Close ==
    /\ At("Close") /\ pc' = "Cancel"
    /\ sh' = [sh EXCEPT !.closed = TRUE, !.active = @ - Len(sh.parked), !.parked = <<>>]
    /\ UNCHANGED <<cfg, urb, cb, con, stop, plugged>>

Cancel ==
    /\ At("Cancel") /\ pc' = "Drain"
    /\ urb' = [u \in Urbs |-> IF urb[u].st = "Armed" THEN [urb[u] EXCEPT !.st = "Cancelled"]
                              ELSE urb[u]]
    /\ UNCHANGED <<cfg, sh, cb, con, stop, plugged>>

\* The transfers are freed, then the consumer is told to stop.
Drained ==
    /\ At("Drain") /\ sh.active <= 0
    /\ pc' = "Join" /\ sh' = [sh EXCEPT !.consumer_stop = TRUE]
    /\ UNCHANGED <<cfg, urb, cb, con, stop, plugged>>

\* The consumer is joined and the buffers are freed.
Joined ==
    /\ At("Join") /\ con.pc = "Stopped"
    /\ pc' = "Done"
    /\ UNCHANGED <<cfg, urb, sh, cb, con, stop, plugged>>

Main == LoopEnds \/ Close \/ Cancel \/ Drained \/ Joined

------------------------------------------------------------------------------
Pump == \E u \in Urbs : CbEnter(u, "rx")
CoPump == \E u \in Urbs : CbEnter(u, "tx")
Gone == \E u \in Urbs : Vanish(u)

Next == Environment \/ Gone \/ Pump \/ CoPump \/ CbStep \/ Consumer \/ Main

Spec == Init /\ [][Next]_vars

\* The threads run: rx_loop pumps, a callback goes on, the consumer takes what
\* is queued.  Nothing says that frames arrive, or that a sender pumps.
FairSpec ==
    /\ Spec
    /\ WF_vars(Gone) /\ WF_vars(Pump) /\ WF_vars(CbStep)
    /\ WF_vars(Consumer) /\ WF_vars(Main)

------------------------------------------------------------------------------
(* Properties *)

\* Types; the count of transfers that are not retired stays within the ring.
TypeOK ==
    /\ cfg \in CfgType /\ urb \in [Urbs -> UrbType] /\ sh \in ShType
    /\ cb \in CbType /\ con \in ConType
    /\ pc \in {"Loop", "Close", "Cancel", "Drain", "Join", "Done"}
    /\ stop \in BOOLEAN /\ plugged \in BOOLEAN

Holders(b) ==
    {<<"urb", u>> : u \in {v \in Urbs : urb[v].st # "Out" /\ urb[v].buf = b}}
        \cup {<<"queue", i>> : i \in {j \in DOMAIN sh.queue : sh.queue[j] = b}}
        \cup {<<h>> : h \in {x \in {"free", "consumer", "received", "fresh"} :
                  \/ x = "free" /\ b \in sh.free
                  \/ x = "consumer" /\ con.buf = b
                  \/ x = "received" /\ cb.buf = b
                  \/ x = "fresh" /\ cb.fresh = b}}

\* A buffer has one holder in every mode: the controller never writes into a buffer that is
\* being read, queued or pooled, and no buffer is pooled twice.
OneHolder ==
    /\ TypeOK
    /\ \A b \in Bufs : Cardinality(Holders(b)) <= 1

\* When rx_loop frees the transfers no callback is running and libusb holds
\* none of them; when it frees the buffers every queued frame was consumed.
TeardownSafe ==
    /\ pc \in {"Join", "Done"} => cb.pc = "Idle" /\ \A u \in Urbs : urb[u].st = "Out"
    /\ pc = "Done" => con.pc = "Stopped" /\ sh.queue = <<>>

Parked(u) == \E i \in DOMAIN sh.parked : sh.parked[i] = u

\* Back-pressure never parks the last transfers for good: when the consumer
\* has nothing left to return, some transfer of a ring of two or more is posted.
RingStaysArmed ==
    (/\ Cardinality(cfg.ring) >= 2 /\ ~ cfg.faulty /\ plugged /\ pc = "Loop"
     /\ sh.queue = <<>> /\ con.pc = "Wait" /\ cb.pc = "Idle")
        => \E u \in cfg.ring : ~ Parked(u)

\* rx_loop returns after should_stop(), with no other thread pumping.
StopEndsAlone == (stop /\ ~ cfg.co) ~> (pc = "Done")

\* A device that is gone ends rx_loop without a stop.
UnplugEnds == (~ plugged /\ ~ cfg.faulty /\ Cardinality(cfg.ring) >= 2) ~> (pc = "Done")
==============================================================================
