------------------------------- MODULE UsbCtrl -------------------------------
(***************************************************************************)
(* The control plane of UsbTransport: the pool of transfer slots behind    *)
(* the bring-up write batch and behind ctrl_batch, the drain that cancels  *)
(* and retires, and the destructor.  One thread calls; another one pumps   *)
(* the same libusb context, so a completion callback may run at any time,  *)
(* and may send, which drains the pool first.  A register access is a      *)
(* number: what matters is which access a transfer, an answer or a verdict *)
(* belongs to.                                                             *)
(***************************************************************************)
EXTENDS Integers, Sequences, FiniteSets

CONSTANTS
    Slots,          \* kAsyncWriteDepth of them
    NoSlot,
    MaxOps,         \* register accesses of the whole session
    MaxGroup,       \* ... and of one ctrl_batch
    MaxSends,       \* sends of the other thread
    MaxTurns        \* ... and write_batch_begin calls, together

ASSUME CtrlAssumption ==
    /\ IsFiniteSet(Slots) /\ Slots # {} /\ NoSlot \notin Slots
    /\ MaxOps \in Nat \ {0} /\ MaxGroup \in Nat /\ MaxSends \in Nat /\ MaxTurns \in Nat

Ops == 1 .. MaxOps

VARIABLES
    pool,       \* AsyncPool, and whether a drain gave up on it
    slot,       \* AsyncWrite of each slot
    ep0,        \* the slots submitted and not completed, in order
    reap,       \* the slots completed whose callback has not run
    cb,         \* the callback that is running
    batch,      \* the bring-up batch
    me,         \* the calling thread
    drain,      \* flush_writes on each thread
    sends,
    seen        \* what happened: the accesses made, performed and given up on

vars == <<pool, slot, ep0, reap, cb, batch, me, drain, sends, seen>>

Threads == {"caller", "sender"}
PoolType == [free : Seq(Slots), inflight : Nat, write_errors : Nat, generation : Nat,
             abandoned : BOOLEAN, built : BOOLEAN]
\* answer is the access whose answer is in the buffer; 0 is none.
SlotType == [op : Ops \cup {0}, is_read : BOOLEAN, gen : Nat, inflight : BOOLEAN,
             done : BOOLEAN, cb_busy : BOOLEAN, ok : BOOLEAN, answer : Ops \cup {0},
             memory : {"Live", "Freed", "Leaked"}]
BatchType == [pipelined : BOOLEAN, depth : 0 .. 2, ops : SUBSET Ops]
OpType == [id : Ops, read : BOOLEAN]
MeType == [pc : {"Idle", "Acquire", "Take", "TakeDrained", "Fill", "Submit", "Await",
                 "AwaitDrained", "Sync", "End", "Destroy", "Reap", "Free", "Gone"},
           group : BOOLEAN, ops : Seq(OpType), taken : Seq(Slots), i : Nat,
           used : Seq([op : OpType, slot : Slots]), ok : BOOLEAN, first : Ops]
SeenType == [next : 1 .. MaxOps + 1, begun : 0 .. MaxTurns, done : SUBSET Ops,
             broken : BOOLEAN, retired : SUBSET Ops]

NoCall == [pc |-> "Idle", group |-> FALSE, ops |-> <<>>, taken |-> <<>>, i |-> 1,
           used |-> <<>>, ok |-> TRUE, first |-> 1]
NewSlot == [op |-> 0, is_read |-> FALSE, gen |-> 0, inflight |-> FALSE, done |-> FALSE,
            cb_busy |-> FALSE, ok |-> FALSE, answer |-> 0, memory |-> "Live"]
NoCb == [pc |-> "Idle", slot |-> NoSlot]

Orders == {s \in [1 .. Cardinality(Slots) -> Slots] : \A i, j \in DOMAIN s : s[i] = s[j] => i = j}

\* ensure_async_slots builds the whole pool, or nothing.
Init ==
    /\ \E built \in BOOLEAN :
         pool = [free |-> IF built THEN CHOOSE s \in Orders : TRUE ELSE <<>>, inflight |-> 0,
                 write_errors |-> 0, generation |-> 0, abandoned |-> FALSE, built |-> built]
    /\ slot = [w \in Slots |-> NewSlot]
    /\ ep0 = <<>> /\ reap = <<>> /\ cb = NoCb
    /\ batch = [pipelined |-> FALSE, depth |-> 0, ops |-> {}]
    /\ me = NoCall /\ drain = [t \in Threads |-> "No"] /\ sends = 0
    /\ seen = [next |-> 1, begun |-> 0, done |-> {}, broken |-> FALSE, retired |-> {}]

------------------------------------------------------------------------------
(* The device: endpoint 0 runs the transfers in order. *)

\* The device performs an access: after a later one, or a write again, the
\* order of the calls is broken.  A read may be repeated, its answer lost.
Performed(id, read) ==
    [seen EXCEPT !.done = @ \cup {id},
                 !.broken = @ \/ \E o \in seen.done : o > id \/ (o = id /\ ~ read)]

\* A transfer that fails on the host was not performed by the device.
Complete ==
    /\ ep0 # <<>> /\ ep0' = Tail(ep0)
    /\ LET w == Head(ep0)
       IN  \/ /\ reap' = Append(reap, [slot |-> w, ok |-> TRUE])
              /\ seen' = Performed(slot[w].op, slot[w].is_read)
              /\ slot' = [slot EXCEPT ![w].answer = slot[w].op]
           \/ /\ reap' = Append(reap, [slot |-> w, ok |-> FALSE])
              /\ UNCHANGED <<seen, slot>>
    /\ UNCHANGED <<pool, cb, batch, me, drain, sends>>

------------------------------------------------------------------------------
(* async_write_cb: the result, then the flags and counters, then the free   *)
(* list.                                                                    *)

CbEnter ==
    /\ cb.pc = "Idle" /\ reap # <<>>
    /\ LET w == Head(reap).slot
           ok == Head(reap).ok
       IN  /\ cb' = [pc |-> "Publish", slot |-> w]
           /\ slot' = [slot EXCEPT ![w].cb_busy = TRUE, ![w].ok = ok]
           /\ pool' = [pool EXCEPT !.write_errors =
                         IF ~ slot[w].is_read /\ slot[w].gen = pool.generation /\ ~ ok
                         THEN @ + 1 ELSE @]
    /\ reap' = Tail(reap)
    /\ UNCHANGED <<ep0, batch, me, drain, sends, seen>>

\* The flags of the slot and the counter of the pool, stored one after the
\* other in the code, are one step here.
CbPublish ==
    /\ cb.pc = "Publish"
    /\ slot' = [slot EXCEPT ![cb.slot].inflight = FALSE, ![cb.slot].done = TRUE]
    /\ pool' = [pool EXCEPT !.inflight = @ - 1]
    /\ cb' = [cb EXCEPT !.pc = "Release"]
    /\ UNCHANGED <<ep0, reap, batch, me, drain, sends, seen>>

CbRelease ==
    /\ cb.pc = "Release"
    /\ slot' = [slot EXCEPT ![cb.slot].cb_busy = FALSE]
    /\ pool' = [pool EXCEPT !.free = Append(@, cb.slot)]
    /\ cb' = NoCb
    /\ UNCHANGED <<ep0, reap, batch, me, drain, sends, seen>>

Callback == CbEnter \/ CbPublish \/ CbRelease

------------------------------------------------------------------------------
(* flush_writes on thread t. *)

InFlight == {w \in Slots : slot[w].inflight}

\* libusb_cancel_transfer of every slot in flight, which all those on
\* endpoint 0 are (PoolIsSound); it does nothing to the others.
CancelAll ==
    /\ reap' = reap \o [i \in DOMAIN ep0 |-> [slot |-> ep0[i], ok |-> FALSE]]
    /\ ep0' = <<>>

\* A pool that a drain gave up on is not drained again; only the entry asks.
Entered == IF pool.abandoned THEN "No" ELSE "Wait"

FlushEnter ==
    /\ drain["caller"] = "Enter"
    /\ drain' = [drain EXCEPT !["caller"] = Entered]
    /\ UNCHANGED <<pool, slot, ep0, reap, cb, batch, me, sends, seen>>

Drained(t) ==
    /\ drain[t] \in {"Wait", "Cancelled"} /\ pool.inflight = 0
    /\ drain' = [drain EXCEPT ![t] = "No"]
    /\ UNCHANGED <<pool, slot, ep0, reap, cb, batch, me, sends, seen>>

\* No completion for two seconds, or the event loop fails.
DrainTimeout(t) ==
    /\ drain[t] = "Wait"
    /\ CancelAll
    /\ drain' = [drain EXCEPT ![t] = "Cancelled"]
    /\ UNCHANGED <<pool, slot, cb, batch, me, sends, seen>>

\* Mutant: the slots that were given up on go back to the free list.
GiveUp_Recycles(t) ==
    /\ drain[t] = "Cancelled" /\ pool.inflight > 0
    /\ \E w \in InFlight : pool' = [pool EXCEPT !.free = Append(@, w)]
    /\ drain' = [drain EXCEPT ![t] = "No"]
    /\ UNCHANGED <<slot, ep0, reap, cb, batch, me, sends, seen>>

\* The cancellations are not reaped either: the slots are retired.
GiveUp(t) ==
    /\ drain[t] = "Cancelled" /\ pool.inflight > 0
    /\ pool' = [pool EXCEPT !.abandoned = TRUE,
                  !.write_errors = @ + Cardinality({w \in InFlight : ~ slot[w].is_read})]
    /\ batch' = [batch EXCEPT !.pipelined = FALSE]
    /\ seen' = [seen EXCEPT !.retired = @ \cup {slot[w].op : w \in InFlight}]
    /\ drain' = [drain EXCEPT ![t] = "No"]
    /\ UNCHANGED <<slot, ep0, reap, cb, me, sends>>

Flush(t) == Drained(t) \/ DrainTimeout(t) \/ GiveUp(t)

\* The other thread sends: its drain is not serialized with a ctrl_batch.
\* Nobody sends during the bring-up, or once the transport is destroyed.
Send ==
    /\ sends < MaxSends /\ seen.begun + sends < MaxTurns /\ drain["sender"] = "No"
    /\ batch.depth = 0 /\ me.pc \notin {"Destroy", "Reap", "Free", "Gone"}
    /\ sends' = sends + 1 /\ drain' = [drain EXCEPT !["sender"] = Entered]
    /\ UNCHANGED <<pool, slot, ep0, reap, cb, batch, me, seen>>
------------------------------------------------------------------------------
(* The calling thread, which waits while it drains. *)

At(p) == me.pc = p /\ drain["caller"] = "No"
Goto(p) == me' = [me EXCEPT !.pc = p]
ThenDrain(p) == Goto(p) /\ drain' = [drain EXCEPT !["caller"] = "Enter"]

\* write_batch_begin; an inner one only nests.
Begin ==
    /\ At("Idle") /\ seen.begun + sends < MaxTurns /\ batch.depth < 2 /\ drain["sender"] = "No"
    /\ seen' = [seen EXCEPT !.begun = @ + 1]
    /\ IF batch.depth > 0
       THEN batch' = [batch EXCEPT !.depth = @ + 1] /\ pool' = pool
       ELSE /\ batch' = [pipelined |-> ~ pool.abandoned /\ pool.built, depth |-> 1, ops |-> {}]
            /\ pool' = [pool EXCEPT !.write_errors = 0, !.generation = @ + 1]
    /\ UNCHANGED <<slot, ep0, reap, cb, me, drain, sends>>

\* write_batch_end: the outer one drains, then reports whether writes failed.
End ==
    /\ At("Idle") /\ batch.depth > 0
    /\ IF batch.depth > 1
       THEN batch' = [batch EXCEPT !.depth = @ - 1] /\ UNCHANGED <<me, drain>>
       ELSE ThenDrain("End") /\ UNCHANGED batch
    /\ UNCHANGED <<pool, slot, ep0, reap, cb, sends, seen>>

EndDrained ==
    /\ At("End")
    /\ batch' = [pipelined |-> FALSE, depth |-> 0, ops |-> {}]
    /\ Goto("Idle")
    /\ UNCHANGED <<pool, slot, ep0, reap, cb, drain, sends, seen>>

Fresh(n, reads) == [k \in 1 .. n |-> [id |-> seen.next + k - 1, read |-> k \in reads]]

\* read8 ... write32, and their wide forms.
Register ==
    /\ At("Idle") /\ seen.next <= MaxOps
    /\ \E reads \in SUBSET {1} :
         /\ me' = [NoCall EXCEPT !.pc = IF batch.pipelined THEN "Take" ELSE "Sync",
                                 !.ops = Fresh(1, reads)]
         /\ batch' = [batch EXCEPT !.ops = IF reads = {} /\ batch.depth > 0
                                           THEN @ \cup {seen.next} ELSE @]
    /\ seen' = [seen EXCEPT !.next = @ + 1]
    /\ UNCHANGED <<pool, slot, ep0, reap, cb, drain, sends>>

\* ctrl_batch outside a bring-up batch; inside one it is register accesses.
CtrlBatch ==
    /\ At("Idle") /\ batch.depth = 0
    /\ \E n \in 1 .. MaxGroup : \E reads \in SUBSET (1 .. n) :
         /\ seen.next + n <= MaxOps + 1
         /\ me' = [NoCall EXCEPT !.pc = IF pool.abandoned \/ ~ pool.built THEN "Sync" ELSE "Acquire",
                                 !.group = TRUE, !.ops = Fresh(n, reads),
                                 !.first = seen.next]
         /\ seen' = [seen EXCEPT !.next = @ + n]
    /\ UNCHANGED <<pool, slot, ep0, reap, cb, batch, drain, sends>>

\* A slot leaves the free list, reset.
TakeSlot(p) ==
    LET w == pool.free[Len(pool.free)]
    IN  /\ pool.free # <<>>
        /\ pool' = [pool EXCEPT !.free = SubSeq(@, 1, Len(@) - 1)]
        /\ slot' = [slot EXCEPT ![w].done = FALSE, ![w].inflight = FALSE, ![w].ok = FALSE]
        /\ me' = [me EXCEPT !.pc = p, !.taken = Append(@, w)]

\* A group takes what is free before it submits anything.
Acquire ==
    /\ At("Acquire")
    /\ LET full == Len(me.taken) = Len(me.ops) \/ Len(me.taken) = Cardinality(Slots)
           lost == me.taken = <<>> /\ pool.abandoned
       IN  \/ lost /\ Goto("Sync") /\ UNCHANGED <<pool, slot>>
           \/ ~ lost /\ ~ full /\ TakeSlot("Acquire")
           \/ /\ ~ lost /\ (full \/ pool.free = <<>>)
              /\ Goto(IF me.taken = <<>> THEN "Take" ELSE "Fill")
              /\ UNCHANGED <<pool, slot>>
    /\ UNCHANGED <<ep0, reap, cb, batch, drain, sends, seen>>

\* async_take_slot
Take ==
    /\ At("Take")
    /\ \/ TakeSlot("Fill") /\ UNCHANGED drain
       \/ pool.free = <<>> /\ ThenDrain("TakeDrained") /\ UNCHANGED <<pool, slot>>
    /\ UNCHANGED <<ep0, reap, cb, batch, sends, seen>>

\* Mutant: it waits for a slot again.
TakeDrained_Retries ==
    /\ At("TakeDrained") /\ Goto("Take")
    /\ UNCHANGED <<pool, slot, ep0, reap, cb, batch, drain, sends, seen>>

\* A group that gets no slot has failed, and still runs.
TakeDrained ==
    /\ At("TakeDrained")
    /\ me' = IF pool.abandoned \/ ~ batch.pipelined
             THEN [me EXCEPT !.pc = "Sync", !.ok = FALSE]
             ELSE [me EXCEPT !.pc = "Take"]
    /\ UNCHANGED <<pool, slot, ep0, reap, cb, batch, drain, sends, seen>>

\* async_submit counts the slot first.
Fill ==
    /\ At("Fill")
    /\ slot' = [slot EXCEPT ![me.taken[me.i]] =
                  [@ EXCEPT !.op = me.ops[me.i].id, !.is_read = me.ops[me.i].read,
                            !.gen = pool.generation, !.inflight = TRUE, !.answer = 0]]
    /\ pool' = [pool EXCEPT !.inflight = @ + 1]
    /\ Goto("Submit")
    /\ UNCHANGED <<ep0, reap, cb, batch, drain, sends, seen>>

\* Mutant: a group that has more accesses than slots takes slots as they return.
Submit_TakesMore ==
    /\ At("Submit")
    /\ LET w == me.taken[me.i]
           call == [me EXCEPT !.i = @ + 1, !.used = Append(@, [op |-> me.ops[me.i], slot |-> w])]
           more == me.i = Len(me.taken) /\ me.i < Len(me.ops) /\ pool.free # <<>>
           v == pool.free[Len(pool.free)]
       IN  /\ ep0' = Append(ep0, w)
           /\ IF more
              THEN /\ pool' = [pool EXCEPT !.free = SubSeq(@, 1, Len(@) - 1)]
                   /\ slot' = [slot EXCEPT ![v].done = FALSE]
                   /\ me' = [call EXCEPT !.pc = "Fill", !.taken = Append(@, v)]
              ELSE /\ me' = [call EXCEPT !.pc = IF me.i < Len(me.taken) THEN "Fill" ELSE "Await"]
                   /\ UNCHANGED <<pool, slot>>
    /\ UNCHANGED <<reap, cb, batch, drain, sends, seen>>

Submit ==
    /\ At("Submit")
    /\ LET w == me.taken[me.i]
           next == IF me.i < Len(me.taken) THEN "Fill" ELSE "Await"
       IN  \/ /\ ep0' = Append(ep0, w)
              /\ me' = IF me.group \/ me.ops[me.i].read
                       THEN [me EXCEPT !.pc = next, !.i = @ + 1,
                               !.used = Append(@, [op |-> me.ops[me.i], slot |-> w])]
                       ELSE NoCall
              /\ UNCHANGED <<pool, slot>>
           \/ /\ slot' = [slot EXCEPT ![w].inflight = FALSE]
              /\ pool' = [pool EXCEPT !.inflight = @ - 1, !.free = Append(@, w)]
              /\ me' = [me EXCEPT !.pc = IF me.group THEN next ELSE "Sync", !.i = @ + 1,
                                  !.ok = FALSE]
              /\ ep0' = ep0
    /\ UNCHANGED <<reap, cb, batch, drain, sends, seen>>

\* Mutant: the status of a finished transfer is not looked at.
Collect_AnyStatus ==
    LET good == slot[Head(me.used).slot].done
    IN  me' = CASE me.group -> [me EXCEPT !.pc = "Await", !.used = Tail(@), !.ok = @ /\ good]
                [] ~ me.group /\ good -> NoCall
                [] OTHER -> [me EXCEPT !.pc = "Sync"]

\* Mutant: a group whose access failed starts over synchronously.
Collect_StartsOver ==
    LET good == slot[Head(me.used).slot].done /\ slot[Head(me.used).slot].ok
    IN  me' = CASE me.group /\ good -> [me EXCEPT !.pc = "Await", !.used = Tail(@)]
                [] ~ me.group /\ good -> NoCall
                [] OTHER -> [me EXCEPT !.pc = "Sync", !.used = <<>>, !.ok = FALSE]

\* The slot is done and its answer is copied, or the access has failed.
Collect ==
    LET good == slot[Head(me.used).slot].done /\ slot[Head(me.used).slot].ok
    IN  me' = CASE me.group -> [me EXCEPT !.pc = "Await", !.used = Tail(@), !.ok = @ /\ good]
                [] ~ me.group /\ good -> NoCall
                [] OTHER -> [me EXCEPT !.pc = "Sync"]

Await ==
    /\ At("Await") /\ me.used # <<>>
    /\ \/ slot[Head(me.used).slot].done /\ Collect /\ UNCHANGED drain
       \/ ~ slot[Head(me.used).slot].done /\ ThenDrain("AwaitDrained")
    /\ UNCHANGED <<pool, slot, ep0, reap, cb, batch, sends, seen>>

AwaitDrained ==
    /\ At("AwaitDrained") /\ Collect
    /\ UNCHANGED <<pool, slot, ep0, reap, cb, batch, drain, sends, seen>>

\* What is left of the group, and ok so far; it returns when nothing is left.
GoesOn(p, ops, ok) ==
    me' = IF ops = <<>> THEN NoCall
          ELSE [me EXCEPT !.pc = p, !.ops = ops, !.taken = <<>>, !.i = 1, !.ok = ok]

NextChunk ==
    /\ At("Await") /\ me.used = <<>>
    /\ GoesOn("Acquire", SubSeq(me.ops, Len(me.taken) + 1, Len(me.ops)), me.ok)
    /\ UNCHANGED <<pool, slot, ep0, reap, cb, batch, drain, sends, seen>>

\* libusb_control_transfer, behind what endpoint 0 has queued.  A failed
\* write counts in a batch; a failed read throws.
Sync ==
    /\ At("Sync")
    /\ LET op == Head(me.ops)
       IN  \/ /\ ep0 = <<>> /\ pool' = pool
              /\ seen' = Performed(op.id, op.read)
              /\ GoesOn("Sync", Tail(me.ops), me.ok)
           \/ /\ seen' = seen
              /\ pool' = [pool EXCEPT !.write_errors = IF ~ op.read /\ batch.depth > 0 THEN @ + 1 ELSE @]
              /\ GoesOn("Sync", IF op.read THEN <<>> ELSE Tail(me.ops), FALSE)
    /\ UNCHANGED <<slot, ep0, reap, cb, batch, drain, sends>>

------------------------------------------------------------------------------
(* ~UsbTransport, once nobody sends. *)

Destroy ==
    /\ At("Idle") /\ batch.depth = 0 /\ drain["sender"] = "No"
    /\ ThenDrain("Destroy")
    /\ UNCHANGED <<pool, slot, ep0, reap, cb, batch, sends, seen>>

LastCancel ==
    /\ At("Destroy")
    /\ IF pool.inflight > 0 THEN CancelAll /\ Goto("Reap")
       ELSE UNCHANGED <<ep0, reap>> /\ Goto("Free")
    /\ UNCHANGED <<pool, slot, cb, batch, drain, sends, seen>>

\* Everything is reaped, or two seconds have passed.
LastReap ==
    /\ At("Reap") /\ Goto("Free")
    /\ UNCHANGED <<pool, slot, ep0, reap, cb, batch, drain, sends, seen>>

\* std::remove of w, which the free list holds at most once.
Without(s, w) ==
    IF \E i \in DOMAIN s : s[i] = w
    THEN LET i == CHOOSE k \in DOMAIN s : s[k] = w
         IN  [k \in 1 .. Len(s) - 1 |-> IF k < i THEN s[k] ELSE s[k + 1]]
    ELSE s

Live == {w \in Slots : pool.built /\ slot[w].memory = "Live"}

\* Mutant: a slot that is not in flight is freed, whoever is in it.
FreeSlot_Busy(w) ==
    /\ At("Free") /\ w \in Live
    /\ \/ /\ slot[w].inflight
          /\ slot' = [slot EXCEPT ![w].memory = "Leaked"] /\ pool' = pool
       \/ /\ ~ slot[w].inflight
          /\ slot' = [slot EXCEPT ![w].memory = "Freed"]
          /\ pool' = [pool EXCEPT !.free = Without(@, w)]
    /\ UNCHANGED <<ep0, reap, cb, batch, me, drain, sends, seen>>

FreeSlot(w) ==
    /\ At("Free") /\ w \in Live
    /\ \/ /\ slot[w].inflight
          /\ slot' = [slot EXCEPT ![w].memory = "Leaked"] /\ pool' = pool
       \/ /\ ~ slot[w].inflight /\ ~ slot[w].cb_busy
          /\ slot' = [slot EXCEPT ![w].memory = "Freed"]
          /\ pool' = [pool EXCEPT !.free = Without(@, w)]
    /\ UNCHANGED <<ep0, reap, cb, batch, me, drain, sends, seen>>

AllFreed ==
    /\ At("Free") /\ Live = {} /\ Goto("Gone")
    /\ UNCHANGED <<pool, slot, ep0, reap, cb, batch, drain, sends, seen>>

------------------------------------------------------------------------------
Calls == Begin \/ End \/ Register \/ CtrlBatch \/ Destroy
Caller ==
    \/ EndDrained \/ Acquire \/ Take \/ TakeDrained \/ Fill \/ Submit \/ Await
    \/ AwaitDrained \/ NextChunk \/ Sync \/ LastCancel \/ LastReap
    \/ (\E w \in Slots : FreeSlot(w)) \/ AllFreed
    \/ FlushEnter \/ Flush("caller")
Sender == Send \/ Flush("sender")

Next == Complete \/ Callback \/ Calls \/ Caller \/ Sender

Spec == Init /\ [][Next]_vars

\* The caller's waits end by their deadlines and a callback that runs ends.
\* Nothing says that the device answers or that a completion is reaped.
FairSpec ==
    Spec /\ WF_vars(Caller) /\ WF_vars(CbPublish \/ CbRelease)

------------------------------------------------------------------------------
(* Properties *)

\* Types; in particular no counter of the pool falls below zero.
TypeOK ==
    /\ pool \in PoolType /\ slot \in [Slots -> SlotType] /\ batch \in BatchType
    /\ me \in MeType /\ seen \in SeenType /\ sends \in 0 .. MaxSends
    /\ ep0 \in Seq(Slots) /\ reap \in Seq([slot : Slots, ok : BOOLEAN])
    /\ cb \in [pc : {"Idle", "Publish", "Release"}, slot : Slots \cup {NoSlot}]
    /\ drain \in [Threads -> {"No", "Enter", "Wait", "Cancelled"}]

\* An awaited slot that is done holds the answer to the access it was
\* submitted for.
ReadsTheirOwn ==
    \A k \in DOMAIN me.used :
        LET w == slot[me.used[k].slot]
        IN  w.done /\ w.ok => w.answer = me.used[k].op.id

\* The accesses of the group that it has gone past.
Past == IF me.ops = <<>> THEN {}
        ELSE LET n == IF me.pc = "Await" /\ me.used = <<>> THEN Len(me.taken) ELSE 0
             IN  me.first .. Head(me.ops).id + n - 1

\* The device has performed what a batch or a group is about to report as done,
\* and a batch that is about to report a failure has a write that was not
\* performed, or that a drain gave up on.  The failure of a write that the device
\* did perform, its status lost, is beyond this (Complete).
VerdictIsTrue ==
    /\ At("End") /\ pool.write_errors = 0 => batch.ops \subseteq seen.done
    /\ me.group /\ me.ok /\ me.pc \in {"Acquire", "Take", "Sync", "Await"} /\ me.used = <<>>
          => Past \subseteq seen.done
    /\ At("End") /\ pool.write_errors > 0
          => \E o \in batch.ops : o \notin seen.done \/ o \in seen.retired

\* The device performs the accesses in the order of the calls.
InOrder == ~ seen.broken

Owned == {ep0[i] : i \in DOMAIN ep0} \cup {reap[i].slot : i \in DOMAIN reap}
            \cup (IF cb.pc = "Idle" THEN {} ELSE {cb.slot})

\* The pool's counters stay in their types: inflight counts the slots in
\* flight, among them all that endpoint 0 has, and the free list holds each
\* slot at most once and none that libusb or a callback still has.
PoolIsSound ==
    /\ TypeOK
    /\ pool.inflight = Cardinality(InFlight)
    /\ \A i \in DOMAIN ep0 : slot[ep0[i]].inflight
    /\ \A i, j \in DOMAIN pool.free : pool.free[i] = pool.free[j] => i = j
    /\ \A i \in DOMAIN pool.free : pool.free[i] \notin Owned
    /\ Len(ep0) + Len(reap) <= Cardinality(Slots)

\* No callback runs, or will run, in a slot the destructor freed.
FreedIsQuiet == \A w \in Slots : slot[w].memory = "Freed" => w \notin Owned

\* Every call returns, whatever the device and the event loop do.
CallsReturn == (me.pc # "Idle") ~> (me.pc \in {"Idle", "Gone"})
==============================================================================
