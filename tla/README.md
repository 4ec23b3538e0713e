# Verification of devourer's link protocols and USB transport

devourer is a userspace driver and link toolkit for Realtek and MediaTek Wi-Fi
adapters.  Beneath the chip backends it has a USB transport; on top of them it
has protocols that keep a video link alive.  This directory holds TLA+ modules
for the parts of it that are concurrent or distributed, configurations that
check them with TLC, and TLAPS proofs about them:

* **channel migration** (`src/src/chanmig`, `src/examples/chanmig/main.cpp`): a
  ground station and a drone move a live link to another channel together;
* **adaptive hopset** (`src/src/hopset`, `src/examples/tx/main.cpp`,
  `src/examples/rx/main.cpp`): a transmitter changes the set of channels it hops
  on, and its receiver has to follow;
* **station** (`src/src/sta`, `src/tests/sta_client.cpp`): association with an
  access point, the WPA2 handshakes and the packet-number windows;
* **USB transport** (`src/src/UsbTransport.cpp`): the ring of receive transfers
  and the pipelined control transfers.

Paths below start with the repository's checkout directory, `src/`.

## 1. Inventory

| Part | State it keeps | Operations | Interacts through |
|---|---|---|---|
| Proposer, the ground (`MigProposer.h`) | state, generation, adopted commit, deadlines, verification counters, scan position | start, on_message (COMMIT, STATUS, MARKER, ABORT), on_video, on_tick, on_retune_done | actions run by `ground_do` |
| Responder, the drone (`MigResponder.h`) | state, phase, probe phase, replay window, exchange, nonces, deadlines | on_message (PROPOSAL, STATUS, CONFIRM), on_tick, on_drain_done, on_probe_sample, on_retune_done | actions run by `drone_do` |
| Migration messages (`MigTypes.h`, `MigWire.h`) | `ReplayWindow` | encode, decode, MAC, classify_proposal | both machines |
| Migration demo hosts (`main.cpp`) | radio channel, video pump, markers, lock `g_sm_mu`, `in_flight` | RX callback, tick loop, pump thread, operator thread | the machines, the device |
| Migration gate (`MigGate`) | cooldown, holddown, move budget | decide, on_confirmed, on_rolledback | host calls `start` |
| Evidence (`ChannelScore`, `EvidenceStore`, `ScanPlan`, `ActiveLink`) | survey windows, scores | add, score, plan | gate inputs |
| Hopset authority (`HopsetAuthority.h`) | current and pending state, replay ring, commit and beacon slots, feedback round | on_proposal, reject_proposal, note_feedback, start_change, start_local_change, on_tick, restore | control frames, slot clock, two threads of txdemo |
| Hopset follower (`HopsetFollower.h`) | Synced / Proposing / Pending / Recovering, current, pending and previous state | propose, on_commit, on_status, on_marker, on_tick | control frames, sync markers, fitted slot clock |
| Station (`StationSm.h`) | association state, tries, timers, transmit queue | configure, join, leave, link_lost, on_rx, on_decrypted_msdu, tick, pop_tx | radio frames, the caller's loop |
| Supplicant, CCMP (`Supplicant.h`, `Ccmp.h`) | replay counter, candidate and installed keys, cached replies; packet-number windows | on_eapol; accept, seed, reset | station, caller |
| USB receive ring (`UsbTransport.cpp`) | transfers, buffer pool, queue, parked list, `active`, `stop`, `dead` | rx_loop, devourer_rx_cb, consumer thread | libusb, the pumping threads |
| USB control plane (`UsbTransport.cpp`) | slots, free list, in-flight count, batch generation, write errors | register accesses, write_batch_begin/end, ctrl_batch, drain, destructor | libusb, callbacks on other threads |
| BSS table, cell receipts, sensing dwells | 16-slot table, receipt ring, dwell state | add, attribute, dwell | radio |
| PCIe transport, chip backends, HAL | DMA rings, chip registers | transfer, tune, start/stop | hardware |

What is hard, and what makes each part correct:

* **Migration.**  Two machines must leave a channel at the same moment although
  any frame between them may be lost, repeated, late, or left over in a USB pipe
  from before a retune; a retune may throw, a drain callback may not come, and
  either process may restart.  The drone leaves only if the ground knows, and
  stays only if the ground heard it there; the ground ends where the drone is;
  each end knows its channel; an exchange runs once; nothing hangs.
* **Hopset.**  A change is committed for a slot in the future and announced over
  the very link it changes.  One generation names one state; the follower swaps
  at the committed slot, never before; one that missed every commit is brought
  back by the beacon; the tripwire on markers has no false alarms; a proposal
  starts one change and comes to an end.
* **Station.**  The handshake is retransmitted by the access point and message 1
  carries no MIC.  A key in use is not installed again, both ends hold one key,
  a station is connected only after its message 4 was queued, the queue never
  drops a request or airs a frame of an association that ended, and every join
  ends.
* **USB.**  Completion callbacks run on whichever thread pumps libusb, and race
  the consumer, the teardown and the destructor.  A buffer has one holder, an
  answer belongs to its access, a batch's verdict is true, nothing is touched
  after it was freed, and every call returns.

PROJECT.json lists every component, and as *hazards* the lines where these
things can go wrong.

## 2. Modules

| Module | Models |
|---|---|
| `MigConfig` | `MigParams`; deadlines as remaining time |
| `MigWire` | messages, nonces, `ReplayWindow`, the radio medium |
| `MigProposer`, `MigResponder` | the two classes with `ground_do` and `drone_do` |
| `MigLink` | both processes, the air, time, faults; the migration properties |
| `HopsetTypes` | the committed state, messages, parameters, mask validity |
| `HopsetAuthority`, `HopsetFollower` | the two classes and their host threads |
| `HopsetLink` | both processes, slot clocks, air, restarts; the hopset properties |
| `HopsetAbs` | what the hopset promises, without frames, clocks or timers |
| `Supplicant`, `CcmpReplay`, `StationSm` | the classes, as functions of their state |
| `StationLink` | station, access points (external), caller, radio, time; the station properties |
| `UsbRx`, `UsbCtrl` | the receive ring and the control plane, with their properties |
| `MCMigLink`, `MCHopset`, `MCStation` | small instances |
| `MigWire_proofs`, `MigProposer_proofs`, `MigResponder_proofs`, `MigLink_proofs`, `HopsetLink_proofs`, `StationLink_proofs`, `UsbRx_proofs`, `UsbCtrl_proofs` | the proofs |

### Channel migration

**State.**  `ground` and `drone` are records with the members of the two classes
under their own names (without the trailing underscore).  The video pump and
the marker stream, which the host switches on the machine's orders, are the
members `pump_on` and `markers_on` of `drone`.  `gtodo` and `dtodo` are the host
operations a handler has asked for and the host has not performed; `gradio` and
`dradio` the channels the radios are on; `gq` and `dq` the frames a radio has
heard and the receive thread has not handed on.  `used` counts faults;
`adopted` and `proved` are history variables for the properties.

**Actions.**  One action per entry point.  A handler's whole list of actions is
executed in the step, except retunes, drains and probe samples, which are steps
of their own because they take time and call back into the machine.  With
`HostLocked` the other entry points wait until they are done, as in the demo,
which holds `g_sm_mu`; without it they interleave, as in a host that performs
them asynchronously.  Messages behind a retune in a list are aired after it.

**Time.**  A deadline is kept as the time left; `Tick` takes one unit off each and
is possible only when no deadline is due (the hosts poll every 10 ms).  An
activation instant that has passed is -1, and the unsigned difference the
ground takes of it is `Never`.

**The air.**  A frame is heard if both radios are on one channel when it is aired.
Video and marker frames are streams: they are heard at the moment they are
sent, or, after a retune, as a leftover (`"stale"`).

**Abstractions.**  The byte layout and the MAC of messages (all frames are
authentic; `mig_mix_nonce` is injective), the VALIDATION report and the JSON
events, which no machine reads, evidence generations, a TSF read that fails, and
the gate, whose decision is the free choice in `GroundStart`.

### Adaptive hopset

**State.**  `auth` and `fol` are records with the classes' members; a mask is the
set of base-hopset positions that are on.  Beside them: `tick_slot` and `due`,
the slot the transmit loop has stored and whether it still has to take the lock
for it (the receive thread reads the one and takes the other in between);
`fslot` and `hop_epoch`, the slot clock the receiver fits to markers and the boot
it was fitted to; `flight`, the marker between its stamp and its decoding.  `air`
is the set of control frames ever sent: any of them may be heard at any time, in
any order, again, or never.  `promised` and `grants` are history variables.

**Actions.**  One per entry point of either class, as its thread calls it:
`AuthorityTick` is one pass of the transmit loop under its lock (the operator's
script, the tick with its activation, commit repeat and beacon, its own
decision); `HearProposal`, `VetoProposal` and `HearHeartbeat` are the receive
thread; `HearMarker` re-anchors the receiver's clock and then runs the tripwire.
`AuthorityRestart` draws a new epoch and counts slots from zero; with
`AuthorityResume` a host hands a saved state back through `restore`.

**Abstractions.**  Epochs are numbered in the order of starts and do not
collide.  Frames that fail the MAC, the link id or the base fingerprint never
reach the machines.  The scores that lead to a mask are not modelled: any mask
of the configured sets, legal or not, may be asked for at any time.

### Station

`Supplicant`, `CcmpReplay` and `StationSm` are functions from a state and an input
to a new state, as the classes are; `StationLink` holds the state and calls them
the way `tests/sta_client.cpp` does: decode, hand to the machine, reset or seed
the windows when a key is new, transmit what is queued, poll `tick`.  A PTK is
named by the two nonces it is derived from, a MIC by its key; key data unwraps
under the key that wrapped it.  The access points are external: they
start with a GTK of their own each, authenticate, refuse, retransmit with a new
replay counter, rekey, say goodbye and vanish; `Stray` is a message 1 that none of them sent.  Times are ages in
units.  Counters, failure reasons and the AID are left out; frames are what
their parsers make of them.  `Transmit` takes a frame from the machine's queue and
airs it in one step: the client moves what is queued to a batch of its own first
(`tests/sta_client.cpp:1507-1511`), which is not modelled, so `QueueIsCurrent` is about
the queue of `StationSm`.  `send_assoc` always has a frame to send: `build_assoc_req`
fails only on an SSID of more than 32 bytes, and `join` accepts only entries of the
configured SSID, which `parse_beacon` bounds (`Dot11.h:587`).

### USB transport

A step of `UsbRx` and `UsbCtrl` is what happens under one lock or between two
accesses to shared state, so a callback is several steps.  In `UsbRx`, `pc` is
where `rx_loop` is, `cb` the running callback, `con` the consumer thread, `urb` and
`sh` the transfers and the shared block, and `cfg` the mode, policy, ring and
whether a sender pumps as well.  In `UsbCtrl`, `ep0` is what libusb holds, `reap`
what is complete and not yet called back, `me` the call in progress, `drain` the
progress of each thread's drain, and `seen` a history of what the device really
did.  A register access is a number.  A timeout may fire at any moment, since a
process can be descheduled for as long as the timeout lasts.  Sends are possible
only outside a bring-up batch, as the driver refuses to send before it is
brought up.  Two simplifications: a callback clears `inflight`, sets `done` and counts
down in one step (`CbPublish`; lines 507-510 of `UsbTransport.cpp` are separate
stores, so a drain that gives up between them would find a count and no slot to
retire), and a transfer that fails on the host was not performed by the device (`Complete`; a control write whose status stage is
lost may have been).  On the second rests only the part of `VerdictIsTrue` that says
a failure reported by a batch stands for a write that was missed.

## 3. What is checked

| Run | Checks | Shows |
|---|---|---|
| `delayed` | `TypeOK`, `NeverActivatedUnheard`, `SettlesOnlyIfProved`, `GroundFollowsDrone`, `NoExchangeTwice` | one migration whose frames are lost, duplicated, left over, and wait any time (`Prompt` false: the clock does not wait for them) |
| `restarts` | `ActivationNeedsNonce`, `NoRetuneUnadopted`, `DroneSettles` | either process restarts under an asynchronous host; drain callbacks lost, retunes that throw |
| `live` | `DroneKnowsItsChannel`, `Reunion` | two migrations with the probe and refused targets: loss and duplication never split the link for good |
| `retune_fail` | `Reunion`, violated | the first finding below |
| `late_abort` | `SplitHeals`, violated | the second finding below |
| `hopset_boot` | `TypeOK`, `OneStatePerGeneration`, `NeverEarly`, `BeaconRecovers`, `UpdatesAreBounded`, `NoFalseAlarm` | one boot of each side; the transmitter's own sensing races proposals of legal and illegal masks; heartbeats |
| `hopset_restarts` | `ImplementsAbs` | restarts of both, with and without a saved session, while frames of old boots are replayed |
| `hopset_live` | `OneCommitPerProposal`, `Rejoins`, `ProposalEnds` | the operator undoes a granted proposal that stays on the air; all commits may be lost; grants, denials, vetoes and silence |
| `station` | `TypeOK`, `NoFrameTwice`, `KeysAgree`, `RequestsFit`, `QueueIsCurrent` | two associations with a WPA2 access point, rekeys, repeats, refusals, goodbyes |
| `station_live` | `AskedIsAnswered`, `PromotedWithMsg4`, `JoinEnds`, `GoneApNoticed` | a WPA2 and an open access point and a message 1 no access point sent |
| `usb_rx` | `OneHolder`, `TeardownSafe`, `RingStaysArmed`, `StopEndsAlone`, `UnplugEnds` | the three modes and two policies, a stop or an unplug at any moment |
| `usb_ctrl` | `ReadsTheirOwn`, `VerdictIsTrue`, `InOrder`, `PoolIsSound`, `FreedIsQuiet`, `CallsReturn` | register accesses, groups, batches, a send that drains at the same time, and the destructor |

**Bounds.**

* Migration: channels `A` (source), `B` (target), `C` (rescue).  Intervals are 1 and
  the other parameters small numbers in the order of the real ones: the commit
  repeats several times before its timeout, the timeout lies after the
  activation (2000 ms and 500 ms by default), the ground's backstop after the
  drone's rollback.  `MaxGen` bounds the migrations of one ground process,
  `MaxQueue` the frames waiting at a receiver, and each fault has a budget.
* Hopset: a base of three channels and five masks, of which one is too small and
  one not within the base; `LeadRounds` 1 (the code clamps to 8), a ring of 2
  exchanges (16), `Jitter` 2 (7).  `MaxSlot` is chosen so that a generation
  activates, is run and the next one activates.  Two boots are enough for a
  stale frame to meet a new boot.  In `hopset_boot` a proposal is made early enough
  (`LastProposal`) to be activated and is not repeated, since what is on the air
  stays there; `hopset_live` has the repetition and no markers that cross a slot
  boundary in flight.
* Station: `MaxTries` 1 (3) and `MaxTxQueue` 3 (8): the queue is as short as the
  code's `static_assert` (2 * tries + 1) allows; a window of 2 packet numbers (64) and
  one TID (17).  Two joins are enough for a frame of one to meet the other.
* USB: two transfers and one spare buffer, so that the pool runs dry; two slots
  (8) and three accesses, so that a group needs more slots than there are.

The last four runs do not check deadlock: a session ends when the bounded
caller is done or `rx_loop` has returned.

**Fairness.**

* Migration: weak fairness of `Tick` and of each thread, whose loops run for as
  long as the process lives; strong fairness of `HearVideo` and `HearMarker`, since
  the drone sends 200 video frames and 50 markers a second.
* Hopset: weak fairness of both loops and of the clocks; strong fairness of
  hearing the live beacon, which is repeated every interval.  Nothing says that a
  commit, a marker or an answer is heard.
* Station: only that the caller polls and time passes.
* `UsbRx`: the pumping threads, a running callback, the consumer and `rx_loop` go
  on.  Nothing says that a frame arrives; a device that is gone fails the
  transfers it holds.
* `UsbCtrl`: the caller's waits end by their deadlines and a running callback
  ends.  Nothing says that the device answers or that anyone pumps.

Restarts, losses, failures, proposals and joins have no fairness anywhere.

**Findings.**  PROJECT.json quotes the line that rules each of them out.

`retune_fail`: a drone whose activation retune throws goes back to
the source with its video pump still off, and the ground's recovery scan, which
only video or a marker ends, never ends.

`late_abort`: a COMMIT is aired before the activation and handled by the ground after
the drone's ack deadline (a delay of more than `ack_timeout_ms - countdown_ms`, 1500 ms
by default; the ground proposes for 5 s).  The ground counts the rest of the countdown
from there and retunes, and its acknowledgement comes too late.  The drone's ABORT with
effective = 0, received around the retune, is handled next: `on_abort` ("pre-activation cancel: nothing moved", `MigProposer.h:291`) sets
Stable and `current_ = source_` without a retune.  Both ends are settled, the
ground's radio on the target and the drone's on the source, and no deadline is
armed.  No frame is lost or duplicated.  A proposal the ground makes later airs on
the target, where the drone is not.  The run has `AckTimeout` : `Countdown` = 4 : 1 and
`ProposalMaxTries` 6 for the default ratios of the code.

The passing runs leave out faults that are known to break a property:
`GroundFollowsDrone` compares the two radios when the ground settles and excepts one
step, the ABORT of `late_abort` (`CancelledAway`); `live` has no retune failure (the first
finding), frames that wait no longer than the clock (`Prompt`, hence not the second)
and no leftover frames (one of them ends the
recovery scan on the wrong channel, `MigProposer.h:119`); `UnplugEnds` and
`RingStaysArmed` speak of rings of two or more transfers without empty
completions, `StopEndsAlone` of an `rx_loop` that pumps alone (see below).

## 4. Observations

Behaviours seen with TLC while modelling that a line of the repository seems to
rule out and for which there is no standing run.

* `MigResponder.h:449`.  The drone's nonce does not depend on the ground process;
  after a ground restart an acknowledgement of one exchange can arm another.
  `NeverUnheard` therefore assumes that the ground does not restart.
* `MigProposer.h:290`.  `on_abort` checks neither generation, epoch nor state: a
  restarted ground that has adopted nothing retunes on an ABORT with effective
  = 1, against invariant I1 at line 13.  With effective = 0 it settles without a retune
  (`late_abort`).
* `MigProposer.h:131`.  `source_` is never updated: the proposal after a confirmed
  move names the channel the process was configured with and is refused.
* `MigProposer.h:206`.  A commit repeated after its own activation instant wraps
  the ground's unsigned offset; the follow deadline is then never due.
* `examples/rx/main.cpp:272`.  The receiver re-anchors to a restarted transmitter
  at once while `cur_` is still of the old boot, so schedule lookups ask for slots
  before the activation, against the contract at `HopsetState.h:158-160`.
* `HopsetFollower.h:121`.  A commit of a restarted transmitter, heard before its
  first marker, lies in the past of the old boot's clock and is activated early.
* `HopsetFollower.h:100`.  A proposer that has gone to Recovering refuses the
  repeated commits of its own proposal; only the beacon helps (lines 9-10 name
  both).
* `HopsetFollower.h:159`.  After a transmitter restart a recovering follower
  refuses beacon and commits until the new boot has counted past the old
  generation.
* `HopsetAuthority.h:70`.  Proposals carry generation 0, so once a proposal has been
  pushed out of the ring nothing but the legality of its mask stops a replay.
* `HopsetAuthority.h:116`.  The feedback round is not rebased at an activation; the
  reported age may stay 0 for as long as the old generation had lasted.
* `examples/tx/main.cpp:443`.  A vetoed proposal is not noted as feedback, although
  `HopsetAuthority.h:50-54` says any verified message is.
* `StationSm.h:751`.  A retransmission is said not to be progress, but an access
  point that increments the replay counter on each one (`Supplicant.h:59-60`) gets
  the verdict Reply, which restarts the handshake's deadline.
* `UsbTransport.cpp:159`.  With a co-running sender that pumps, a callback may
  decide to resubmit before the stop, be missed by the cancel pass (1102) and
  submit with an infinite timeout: the drain then waits for a frame.
* `UsbTransport.cpp:121`.  A submit that fails with NO_DEVICE in the callback does
  not set `dead`.  With a single transfer, or after an empty completion, the last
  transfer can be parked after the consumer returned its buffer: nothing arms it
  again and an unplug is not noticed.
* `UsbTransport.cpp:503`.  If a send could overlap a bring-up batch, the two drains
  would count each other's retired writes; the driver's `_brought_up` flag keeps
  the two apart.

## 5. What is proved

Proofs hold for every value of the constants that satisfies the named
assumptions of the modules.

**Migration** (`MigLink_proofs`; `ParamsAssumption`, `ChannelsAssumption`,
`ProbeAssumption`, `LinkAssumption`: parameters are naturals, intervals and
thresholds positive; source, rescue and targets are channels).

* `TypeCorrect`: `Spec => []TypeOK`.  One lemma per handler shows that it leaves its
  own side of the state typed, and `NextType` puts the sides together.
* `ActivationSafe`: `Spec => []ActivationNeedsNonce`.  That the drone is armed says
  nothing of where the acknowledgement came from, so the property is not
  inductive.  `AckInv` adds that the nonce of every acknowledgement on the air, of
  a ground in Committed and of an armed drone belongs to an adopted commit.  The
  proof reduces every step of `Next` to what it can do to an exchange
  (`GroundEffect`, `DroneEffect`, lemma `StepEffects`) and shows that these effects
  keep `AckInv`.
* `NeverUnheard`: if `MaxGroundRestarts = 0`, `Spec => []NeverActivatedUnheard`, the
  claim in the header of `MigResponder.h`.  `OneGround` says that all epochs in
  play are the one of the only ground process; then the nonce and the
  generation identify the exchange.
* `ExchangesInOrder`: if `MaxGroundRestarts = 0`, `Spec => NoExchangeTwice`.
  `WindowInv`: the window knows of no other ground process, and the drone's
  exchange is never ahead of the newest generation the window has seen.  A
  proposal of another epoch resets the window, hence the hypothesis.
* `KnowsItsChannel`: if `MaxRetuneFails = 0` and (`HostLocked` or
  `MaxGroundRestarts = 0`), `Spec => []DroneKnowsItsChannel`.  The property speaks
  of a settled drone and is broken, if at all, by a retune ordered long before;
  `HostInv` says for every state which host operations are outstanding (`Waits`,
  `LockedWaits`), where the radio is until they are done (`Placed`) and that the
  fallback is always the source channel (`SourceFallback`).  A retune that
  throws in Rollback is not noticed, and without the lock a proposal of another
  epoch settles the drone under an outstanding retune: both hypotheses are needed.
* `RetunesAdopted`: if `MaxRetuneFails` is 0 or 1 and (`HostLocked` or `MaxGen` is 0
  or 1), `Spec => []NoRetuneUnadopted`, the proposer's I1.  `TunesAdopted` adds the
  states that lead to a retune; `NoAbortMoves` says that no ABORT on its way sends
  the ground on a scan.  That takes a second retune that throws
  (`MigProposer.h:290` in section 4).
* `SettlesProved`: if `HostLocked` and neither process restarts,
  `Spec => SettlesOnlyIfProved`.  The CONFIRM that settles the drone was sent steps
  ago by the other process, so the invariant follows an exchange from end to end:
  the two machines agree on the exchange (`DroneSteady`, `GroundSteady`,
  `GroundMatches`), what is on the air was said by them (`AirInv`), and a CONFIRM
  belongs to an exchange that has ended or whose target was verified with both
  radios on it (`ConfirmsDone`).

The last four rest on a catalogue of what each handler does to its machine,
member by member: `StepMoves` for the drone, `GroundStepMoves` for the ground.  The
invariants are then shown for the entries of the catalogue and not for the text
of the handlers.

**Hopset** (`HopsetLink_proofs`; `HopsetAssumption` and `LinkAssumption`: a finite
base, naturals for the parameters, the masks asked for among `Masks`).

* `HopsetTypeCorrect`: `Spec => []TypeOK`, which contains that whatever is
  committed, advertised, armed or run has a legal mask.
* `HopsetUnambiguous`: `Spec => []OneStatePerGeneration`.
* `HopsetRefines`: `Spec => ImplementsAbs`: under the mapping `official <- promised`,
  `held <- fol.cur` every step is a step of `HopsetAbs` or a stutter, restarts and
  replays included.

These three rest on one inductive invariant, `HopsetInv`: the types; `AuthorityInv`
(a pending state is the successor of the current one, and both are promised);
`PromisesInv` (promises of one boot and generation are equal, and none is newer
than what the authority holds); `AirInv` (what is on the air was promised);
`FollowerInv` (what the follower runs or has armed was promised, and the armed
state is newer than the running one unless the transmitter has had another
boot).  `OneStatePerGeneration` alone is not inductive, since a step can only break it through a state the
authority has forgotten.

The others need more than `HopsetInv`, and hypotheses on the environment:

* `HopsetNeverEarly`: if `MaxBoots <= 1`, `Spec => []NeverEarly`.  `ClockInv` says that
  neither the follower's slot nor a marker on the air is ahead of the transmitter's
  clock, and that no state in use or advertised was activated ahead of it;
  after a restart with a fresh clock this is false (`HopsetFollower.h:121` in section 4).
* `HopsetBeaconRecovers`: if `MaxBoots <= 1`, `MaxResumes = 0` and
  `MaxFlight <= MaxLeadSlots`, `Spec => []BeaconRecovers`.  `SessionInv`: there is one
  epoch, and the follower's slot is at most a marker's flight behind the
  transmitter's.  A restarted transmitter counts from 1 again
  (`HopsetFollower.h:159`).
* `HopsetNoFalseAlarm`: if moreover `MaxTickLag <= StaleMarkerSlots` and
  `MaxFlight + MaxTickLag <= LeadRounds * MinActive`, `Spec => NoFalseAlarm`.  `TripInv`
  bounds how late the authority's swap is (`LagInv`) and how far two activations
  are apart (`LeadInv`), so that a marker on the air tells of the current state or,
  shortly after a swap, of the last one (`FlightInv`); `Graced` says that the follower
  remembers that one.
* `HopsetPaced`: if `OperatorMasks = {}` and `MaxMaskDelta # 0`,
  `Spec => []UpdatesAreBounded`, from `PaceInv`.  The operator's lever is exempt from
  the limits in the code, and a `max_mask_delta` of 0 means no limit.
* `HopsetOneCommit`: if `MaxFollowerBoots * MaxProposals <= RingDepth` (and there is a
  receiver), `Spec => []OneCommitPerProposal`.  `RingInv`: every proposal that was
  granted in this boot is still in the ring, which holds no proposal twice.
  With more proposals than places one is pushed out and can be replayed (`HopsetAuthority.h:70`).

**Station** (`StationLink_proofs`; `CcmpAssumption`: there is a TID and the window is
not empty; `StationAssumption`: positive tries and timeouts, and the `static_assert`
of `StationSm.h` on the queue; `LinkAssumption`: the access points with WPA2 are
finitely many).  The supplicant, the station and the access points are functions,
so the proof first says of each function what it may do, member by member
(`EapolFields` for the supplicant, `Steps` and `StationStep` for the station, `Turns` for
an access point), and then shows three invariants, each on top of the one before:

* `TypeInv`: the types, and for the station (`StaOk`) that a machine that listens has
  joined an access point, that no request is queued behind an answer (`AnswersLast`)
  and that the queue holds at most one goodbye and what the tries stand for
  (`RoomInv`).  `StationTypeCorrect`, `RequestsAlwaysFit` and `QueueStaysCurrent` follow.
  That a request fits says nothing of how much is already queued when the machine
  begins to ask, hence the count.
* `KeyInv`: every nonce, key, cached reply, queued answer and frame on the air belongs
  to a join that has been and to a number that was drawn (`SupInv`, `AnswersInv`,
  `ApInv`, `AirOk`, `GotOk`); in particular a candidate key is newer than the installed
  one, and a message 3 carries the nonce of its own key.  `ConnectedWithMsg4` (the
  action property `PromotedWithMsg4`) follows.
* `SafeInv`: the station and the access point it has joined hold keys of one exchange,
  unless the access point has forgotten the station (`PeerInv`, `Dead`); a message with
  keys that is under way is not ahead of its access point and cannot lead the station
  back (`Behind`, `Advances`, `GtksInOrder`); and every frame ever accepted is one the
  window of its key refuses from now on (`Spent`).  `NothingTwice`, `KeysAlwaysAgree`
  and `AskedAlwaysAnswered` follow.  `NoFrameTwice` alone is far from inductive: a
  window is reopened by a message 3 or a group message that was made long before, so
  the proof has to follow every such message from the access point to the key it
  installs.  `WindowCloses` and `SeedCloses` are what it needs of `CcmpReplay`.

**USB receive ring** (`UsbRx_proofs`; `RxAssumption`: a finite non-empty ring and a
set of spare buffers disjoint from it).  `RxInvariant` shows `RxInv`: the types; a transfer
is in one place and `active` counts those not retired (`RingInv`); only back-pressure
parks and only SpscFat queues (`ModeInv`); what `rx_loop` has closed, drained and
joined so far (`PhaseInv`); a buffer is in one place (`BufInv`); and while nothing
fails, a ring whose last transfer is parked, or about to be, leaves the consumer a
buffer to return (`BusyInv`).
`RxOneHolder`, `RxTeardownSafe` and `RxRingStaysArmed` follow from it.  None of the three
is inductive: a callback decides in one step and submits in a later one, and what
it decided is state the properties do not mention.

**USB control plane** (`UsbCtrl_proofs`; `CtrlAssumption`: a finite non-empty pool,
`MaxOps` positive).  `CtrlInvariant` shows `CtrlInv`: the types; what the call holds at
each of its steps (`CallInv`); that a slot is in one place only (`PlaceInv`) and that
its flags say where (`FlagInv`); that a freed slot is nowhere (`FreedInv`); that a slot
that is done and good holds the answer to its own access (`AnswerInv`); and that the
accesses performed, queued and still to be submitted are in the order of the calls
(`OrderInv`).  `CtrlPoolIsSound`, `CtrlFreedIsQuiet`, `CtrlReadsTheirOwn` and `CtrlInOrder`
follow.  The counters alone are not inductive (a slot could be counted down twice),
and neither is the order of what was performed: it depends on what is queued and
on what the call will submit next.

`CtrlVerdictIsTrue` (`Spec => []VerdictIsTrue`: write_batch_end and ctrl_batch report what
happened) needs accounts beside `CtrlInv`, since the verdict is given long after the
accesses it is about.  `VerdictInv` is: which steps a batch, a group and a drain
exclude, and that no slot is of a later generation (`ModeInv`); an answer is in a
buffer because the device performed its access (`DoneInv`); of a group that is good so
far, what is submitted is performed or still to be collected (`GroupInv`); unless a
drain gave up, a write in flight is the batch's or the group's, and after a drain
nothing is (`FlightInv`); and while no error is counted every write of the batch is
performed, in flight or in the caller's hands, while each count stands for a write
that was missed or given up on (`TallyInv`).  The last part is where the generation
counter of the pool matters: a completion of an earlier batch is not counted in
this one.

**Only model-checked.**  Liveness (`Reunion`, `DroneSettles`, `Rejoins`,
`ProposalEnds`, `JoinEnds`, `GoneApNoticed`, `StopEndsAlone`, `UnplugEnds`,
`CallsReturn`, and `SplitHeals`, which is violated) depends on fairness, which is out of
the prover's reach.  Not
proved is `GroundFollowsDrone`, which needs a bound of one migration: an ABORT of an
earlier generation is not told from one of the current.  The cases the hypotheses above
leave out are covered by the runs as far as section 3 says.

## 6. Plan

1. Migration core, its theorems. *Done.*
2. Hopset with its abstract specification and refinement. *Done.*
3. Station, supplicant and packet-number windows. *Done.*
4. USB receive ring and control plane. *Done.*
5. Proofs.  Migration, hopset, station and USB *done*.  To do: `GroundFollowsDrone` for
   one migration.
6. `MigGate` (cooldown, holddown with backoff, move budget, `in_flight`) in place
   of the free `GroundStart`; an abstract migration that `MigLink` implements.
7. The bulk-OUT pool (`tx_async`, `quiesce_tx`), the PCIe rings, `RxReceipt`'s ring, the
   BSS table's eviction, and `HopSchedule` against a reference definition.

## 7. Not modelled

* Chip backends and the vendored HAL: firmware images, register tables and
  register programming.  They are nearly all of the repository's lines and are
  correct or not against hardware, not against a state machine in the code.
* Frame, radiotap and descriptor parsing: byte layout without state.
* Channel scoring, hop-channel scoring, fusion, and the clock fit: numeric code
  whose outcome is a free choice in the models.
* The migration gate, the JSON events and environment parsing of the demo.
* Of the transports: the bulk-OUT path, the synchronous receive loop, PCIe.
* The BSS table, receive attribution, sensing dwells and the ACK responder.
* Command-line examples, scripts and tests other than the hosts named above.
