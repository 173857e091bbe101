# pulse-ecu: verification project

pulse-ecu is a UDS (ISO 14229) diagnostic server for small ECUs: CAN drivers,
an ISO-TP transport, a session with its S3 timer, a server that dispatches
requests to services, and the services. Everything runs in one loop
(`examples/stm32f4/main.cpp:105-111`) next to two interrupts (CAN receive and
SysTick); all state is in RAM.

This directory holds TLA+ modules of that code, the TLC configurations that
check them, and proofs checked by TLAPS. `PROJECT.json` lists the runs, the
source lines every definition stands for, the hazards of the code and the
properties aimed at each, and the disagreements found between code and
documents.

## Running it

    tlasany M.tla                           # parse
    tlc -workers 2 -config X.cfg M          # model-check (module per cfg below)
    tlapm UdsServerProofs.tla               # check the proofs of a module; the others
                                            # are named ...Proofs

## Inventory

| Part | State | Operations | Speaks to | What is hard | What makes it correct |
|---|---|---|---|---|---|
| Session (`uds_session`) | session type, S3 deadline, timed-out flag | `transition`, `reset`, `keep_alive`, `update` | called by the server and by services within one pass | the order of the calls in a pass; 0 as "no timer"; tick wrap | timer and session agree; nobody loses a session while talking, a silent tester does; Programming only from Default |
| Server (`uds_server`) | service table, request and response buffer | `process`, `handle_request` | ISO-TP below, services above | one response buffer that ISO-TP keeps reading after `send` returns | one answer per request, requests served in order |
| Session control, TesterPresent, reset | none | `handle` | session; application callbacks | reset callback before the response | the session rules above |
| SecurityAccess | per level: seed, flags, failure count, lockout; active level; last tick | `handle`, `update` | session (checked, never told of changes); seed and key callbacks | seeds and keys of several levels interleaved; lockout time taken from the last `update` | bounded rate of key attempts between resets; one key per seed; an exact lockout |
| ISO-TP (`isotp`) | reassembly, transmission, two deadlines | `process_frame`, `send`, `get_data`, `update` | CAN driver below, server above | lost frames, new First Frames in the middle, blocks, WAIT, full controller, time-outs | no message that was not sent; what is sent arrives whole; nothing waits for ever |
| CAN drivers | receive ring (16 slots, 8 on F1) | `send`, `receive`, `on_rx_irq` | hardware; interrupt against loop | ring indices shared with an interrupt; full ring, full mailboxes | FIFO, loses only when full |
| Timers (`hal_timer`) | start, period, next | `is_expired`, `tick` | SysTick | tick wrap at 2^32 | periods kept across the wrap |
| Flash transfer (0x34-0x37) and routines (0x31) | active flags in two objects, block counter | `handle`, `start`, `reset` | each other through the application; flash HAL | sessions that time out in the middle, repeated blocks, counter wrap | blocks written once, in order, only in a transfer |
| DTC manager and services (0x14, 0x19, 0x85) | status byte, snapshot per DTC | test result, clear, operation cycle, freeze frame | application | bits over long sequences of tests, cycles and clears | ISO status-byte rules |
| Data, memory and IO services | none (callbacks) | `handle` | application | response length | no overrun of the response |
| Communication, link, event control | pending baud rate, event flags | `handle` | application | state that outlives its session | verify before transition; control only in its session |
| Seed-key, CRC | none | pure functions | application | widths and shifts | agree with a reference |

## Modules

| Module | What it is |
|---|---|
| `UdsSession` | The session class as operators on the session object. No variables: several methods run in one pass of the server, so the passes compose them. |
| `SecurityAccess` | Service 0x27 as a state machine of its own: `SecHandle` is one request, `SecUpdate` one call of `update()`, `SecRestart` a processor reset. `SecSpec` lets any request come in any session. |
| `UdsServer` | Composes both with the main loop. `Receive` and `DropUnread` are what `process_frame()` does to the one message the transport can hold, `UpdateSecurity` is line 108 of the loop, and one disjunct of `Process` per service is a whole pass of `process()`: keep-alive, dispatch, service, response, `session.update()`. |
| `IsoTp` | One ISO-TP object. `HandleSF/FF/CF/FC` are the four frame handlers as actions; `send()`, `get_data()` and `update()` are operators because `process()` calls all three. |
| `IsoTpLink` | Composes `IsoTp` with the CAN receive ring, the controller's mailboxes, the server's pass and its single response buffer, and an external tester at the other end of a bus that loses frames. |
| `Dialogue` | What the transport promises server and tester, without frames, flow control and time: requests and responses in order, each at most once, whole unless something was lost. `IsoTpLink` implements it. |
| `FlashTransfer` | A download: services 0x34, 0x36, 0x37 and the start of the flash routines through 0x31, under `UdsSession`, with an external tester that follows `docs/flash_sequence.md` and repeats what gets no answer. Each `Ask...` is one pass of `process()` with that request; its response may be lost. |
| `FlashImage` | What a download promises, without requests, losses or sessions. `FlashTransfer` implements it: `complete` is the tester being past the last exit, `flash` is `flash`. |
| `DtcManager` | The table of trouble codes: registering, test results, snapshots, operation cycles and both clearing paths, one action per operation. |
| `DtcReport` | What service 0x19 makes of that table: the count by status, and the list of codes. The list would be cut where the response buffer ends, which at 64 codes in 4096 bytes it never is. It extends `DtcManager` and adds no state. |
| `CanRing` | The receive ring of the three CAN drivers. `OnRxIrq` is the interrupt and runs to the end; `receive()` is a call in progress, one action per access it makes to shared memory (`Enter`, `Test`, `Copy` of each part of a frame, `Store`, `Return`). |
| `FrameFifo` | What the ring promises: a bounded queue that drops the newest frame. `CanRing` implements it. |
| `Services` | The smaller stateful services under `UdsSession`: LinkControl, ResponseOnEvent, CommunicationControl, ControlDTCSetting, InputOutputControl, RequestUpload, and the stop and result requests of RoutineControl. A request is one pass of `process()`; the bit rate of tester and ECU decides whether it is heard. |
| `HalTimer` | `SoftTimer` and `PeriodicTimer` over a tick that wraps. |
| `Words` | Unsigned words as sets of bit positions, so that 32 bits are checked as 32 bits. |
| `SeedKey` | The seed generators and the key check, on 32-bit words. |
| `Crc` | CRC-16, CRC-32 with its table as committed, and the 8-bit sum, a byte at a time; and the polynomial remainder they are compared with. |
| `CanPort` | Headers and acceptance filters of the three drivers, bit by bit, and silent mode. |
| `DataServices` | Services 0x22, 0x2E, 0x23 and 0x3D over an application that serves what it has. |
| `Library` | The five modules before this one side by side. They share no state, so in a behaviour only one of them moves. |
| `MC*` | Constant values for TLC. |
| `SecurityAccessProofs`, `UdsServerProofs`, `FlashTransferProofs`, `DtcManagerProofs`, `CanRingProofs`, `ServicesProofs`, `IsoTpLinkProofs`, `LibraryProofs` | Theorems about the module each is named for, see Proofs. |

A definition marked "Mutant" is not part of the model: it is the plausible bug
that a property must notice. `PROJECT.json` pairs each with the definition it
replaces.

### Correspondence and abstractions

* `session` is `m_session`; `sec` the service object; `rx` and `tx` the two
  halves of `IsoTp`, with `rx.buf` the first `m_rx_received` bytes of
  `m_rx_buf` and `tx` reading from `buffer`, the memory `m_tx_data` points to.
* Ticks and counters keep their width (`% TickMod`, `% 256`), also where a run
  is bounded so that they do not wrap.
* A byte of a message is the pair (message, position): reassembly and
  segmentation only copy bytes, so this says exactly what was copied where.
* A key is named by the seed it answers; `verify_key` accepts that one.
  Application callbacks are otherwise left out when they only report.
* `SecurityAccess` handles the sub-function with its suppress bit, as the code
  does (0x81 is a level of its own); the other services mask it.
* History variables (`guesses`, `freshSeed`, `heard`, `taken`, `answers`,
  `broken`, `deaf`, `overwrote`, `lived`, `trouble`, `written`, `issued`, `data`,
  `tableRight`, `began`, `armed`) are read by no guard.
* In `CanRing` the slots are not `volatile` and the indices are. The compiler has
  to keep the index accesses in order, but may move the copy out of a slot, word
  by word, behind the store of `m_rx_tail`: the parts of the copy and the store
  happen in any order. It does not move the copy before the test of
  `m_rx_head`, since the load is indexed and may trap. A frame is a number; its
  two parts show whether a copy is torn.
* In `Services` the LinkControl callback switches the bit rate before it returns,
  as its only use in the code is; the code does not look at what it returns and
  sends the answer afterwards. Requests of LinkControl and their answers may be
  lost. The tester follows to the rate it had verified when it takes a yes, and
  silence is one where it asked for no answer; while a verification it wanted
  answered is not, it is `unsure` and does not ask for the transition. A reset of
  the ECU leaves the tester as it was, at a rate that may now be another; only
  `StartOver` takes it back, and it may do so at any time. `trouble` remembers what
  the tester cannot notice: a reset until it has started over, a loss it takes for a
  yes, a failing callback, an answer sent at the new rate.
* In `SecurityAccess` the history of guesses survives a reset, with a mark of how many
  of them came before it (`erased`): the ECU has forgotten those, and `GuessRate`
  says nothing of a stretch that reaches across the mark.
* In `CanPort` the peripheral's filters are external. A frame that no element of the
  FDCAN takes goes where its global filter says, which no driver sets and which after
  a reset is FIFO 0. So a driver on FIFO 0 (`m_rx_fifo`) receives it, one on FIFO 1
  does not.
* `Crc` and `SeedKey` keep the width of the code (16 and 32 bits). `DataServices`
  shrinks a byte to two values and a word to three bytes, so that addresses
  longer than a word are cut as in the code (`Number`); what a tester means by one is
  the whole number (`Meant`).
* The tester of `IsoTpLink` follows ISO 15765-2 as a receiver. As a sender it
  frames correctly but may stream its frames without waiting for flow control,
  pad them, and start a new request in the middle of another one. It has to
  stream: the flow control frame this code sends is not one (see findings), so
  a strictly conforming sender could never complete a segmented request.

## Runs

| Run | Module | Shows |
|---|---|---|
| `UdsServer` | MCUdsServer | `TypeOK`, `SessionTimerInv`, `NoEarlyExpiry`, `ProgrammingFromDefault`, `SilenceEndsSession` |
| `IsoTpLink` | MCIsoTpLink | `TypeOK`, `RxInv`, `TxInv`, `IntactDelivery`, `ResponseWhole`, `ServedInOrder`, `LinkImplementsDialogue`, `ReceptionEnds`, `WaitForFlowControlEnds` |
| `CanRing` | MCCanRing | `TypeOK`, `CopyIntact`, `RingImplementsFifo`, `QueuedIsReceived` |
| `FlashTransfer` | MCFlashTransfer | `TypeOK`, `TransferPaired`, `CompletedIsWhole`, `DownloadImplementsImage` |
| `Services` | MCServices | `RatesAgree`, `RefusedHasNoEffect`, `ControlInSession` |
| `Parts` | MCParts | of the security levels `SecTypeOK`, `LockoutInv`, `GuessRate`, `OneGuessPerSeed`; of the trouble codes `DtcTypeOK`, `StatusMeaning`, `ReportTruthful`; of the library `SoftExact`, `PeriodicExact`, `SeedUsable`, `CrcRight`, `FilterRight`, `ReadsCoherent` |
| `TesterPresentExpires`, `SilentAfterEntry` | MCUdsServer | what two documents say of the session and the code does not do |
| `FlowControlPci`, `SendingStuck` | MCIsoTpLink | the same for the transport |
| `FailedThenPassed` | MCDtcManager | the same for two status bits |
| `StandardFilter` | MCLibrary | the same for a standard filter of bxCAN |

`Parts` observes the security levels, the table of trouble codes and each module of the
library side by side. A behaviour is one of a single part: the others stay as
they started, so the run adds their state spaces up and does not multiply them.

### Bounds, and why they are enough

* `Parts`, SecurityAccess: two levels that need different sessions (so seeds and keys
  interleave across levels), one seed and one wrong key, two attempts, a delay
  of two ticks over five ticks, and a reset anywhere: a lockout starts, is refused,
  ends or is erased, and starts again. Sub-functions 0 to 4 include an unregistered level and the wrap of
  sub-function 0 to level 255.
* `UdsServer`: S3 is two ticks and the tester is heard for three of them (1 to 3), so a
  session is entered, kept, timed out and entered again, with a lockout in
  between; afterwards it is silent until the last timer has run. The observed
  ticks start at 1, since a deadline computed from tick 0 is part of a finding.
* `IsoTpLink`: a CAN frame of 4 bytes (3 in a Single Frame, 2 in a First, 3 in
  a Consecutive one), sequence numbers modulo 3. The requests are either two
  segmented ones (6 and 5 bytes) or one of 9 bytes, whose sequence number wraps,
  and a Single Frame. Responses have 0, 3 or 8 bytes, two Consecutive Frames
  that a block size of 1 splits; the ring and the controller hold two frames, so
  both fill up. Time-outs of one and two ticks both happen. Every interesting
  state (a response rewritten under transmission, a reception overtaken by
  another, a transmission stuck in Sending, both time-outs) is reachable.
* `FlashTransfer`: five blocks under a block counter of three values, so the
  counter wraps and two blocks share a number, which is what the 256 blocks of
  the code do. S3 is two ticks of five: sessions time out at every step of the
  download. Any request and any response may be lost, any callback may refuse,
  and the ECU may restart at any time.
* `Parts`, DtcManager: three codes over three bits, two overlapping and one inside
  another, so a group mask can hit one, two or all; a table of two, so it fills
  up; two snapshots; response buffers that end before, at and inside a code (smaller
  than the server's, so that the loop's end is exercised).
* `CanRing`: a ring of three slots and eight frames: the indices go around more
  than twice, the ring fills up and drops, and the interrupt comes between any
  two accesses.
* `Services`: two bit rates, so that a tester can follow to the wrong one; S3 is
  one tick of two, so a verified rate outlives the session it was verified in. Any
  request of LinkControl and any answer to one may be lost, any callback may fail,
  and the ECU may be reset at any time and any number of times.
* `Parts`, Library: a tick that wraps at 8 over 18 ms, so timers run across two wraps,
  and a period of 3; twelve seeds of the generator; up to four bytes of data out
  of four values, chosen so that the CRC-32 reads listed, misprinted and missing
  entries of its table; identifiers and masks that need both halves of a filter
  register, of both kinds, and both FIFOs; requests for up to three identifiers, whose values
  fill a buffer of 7 bytes exactly; a memory of three cells under addresses and
  sizes of 0 to 4 bytes, of which a word of three cuts the longest.
* Deadlock is not checked in `IsoTpLink` and `Parts`: each observation ends at
  a bound of its own (the last tick, the last byte), after which nothing has to
  happen. It is checked in the other passing runs.

### Fairness

Safety needs none. The liveness properties assume weak fairness of the main
loop's steps (`while (true)` runs them for ever; the loop feeds all frames
before it calls `process()`), of the tick (SysTick counts whatever the loop
does) and, for the transport, of the controller sending its frames. In `CanRing`
only `Receive` is fair: the loop calls `receive()` for ever, and no frame has to
arrive. The tester is never assumed to send anything. In the bounded runs the tester falls silent
before the last tick, and pending input is handled before time goes on, so that
a time-out is not missed because the observation ends.

### What the properties say

`SessionTimerInv` relates timer and session: no timer in Default, none longer
than S3 past the last request, and a session without one only right after the
request that entered it. `NoEarlyExpiry` is the converse of a time-out, and
`SilenceEndsSession` its liveness. `GuessRate` bounds the number of key attempts
in any stretch of time without a reset, over all interleavings of levels, sessions and
lockouts. It is no more than that: a reset, which service 0x11 gives in any session,
erases counter and lockout, and every reset brings each level `MaxAttempts` attempts
at once. `OneGuessPerSeed` says which seed a key was checked
against. `IntactDelivery` says that a request none of whose frames was lost is
delivered byte for byte, whatever happened to its neighbours; `ServedInOrder`
that no request is served twice or late; `ResponseWhole` that the tester never
assembles a mixture of responses, except when the server reused its response
buffer under a running transmission -- the exception is real, and the history
variable `overwrote` marks exactly those runs -- or the response has 4096 bytes,
which twelve bits do not announce. What the tester has then is that response to
its last byte (`answers` remembers the length). `LinkImplementsDialogue` puts the
two directions together: the transport, with its ring, mailboxes, losses and
time-outs, is an ordered exchange in which a request that waits (`Waiting`) is
served, replaced by a newer one or given up, and in which responses are heard
in the order of the requests and whole unless `Spoiled`.

`CompletedIsWhole` is about ECU and tester together: the tester takes a negative
answer to a repeated request as "handled before", and that reading is right only
because the counter, the open transfer and the session check exclude every other
cause. `TransferPaired` relates the flags of two service objects that only the
application and the exit service keep together. `StatusMeaning` compares a status
byte with the history of its code, over clears, cycles and tests in any order: four
bits (testFailed, the two "not completed" and testFailedSinceLastClear) exactly as
`docs/dtc_status_bits.md` has them; testFailedThisOperationCycle, pendingDTC and
confirmedDTC only in one direction, not set without a failure. What the document says
of the first two is what `FailedThenPassed` refutes; the
threshold it has for the third is not in the code, which confirms at the first failure.
The bit warningIndicatorRequested is never set by the code and has no property.
`ReportTruthful` compares what a tester reads over service 0x19 with that history.

`CopyIntact` says that the slot `receive()` copies from keeps its frame until it
returns, even when the compiler has put the store of the index first: the ring
leaves one slot free, and it is that one. `RingImplementsFifo` is the refinement
to the bounded queue. `RatesAgree` relates two machines: through any sequence of
verifications, transitions, refusals, time-outs, and requests and answers lost where
the tester had asked for an answer, tester and ECU stay at one bit rate; a reset parts
them until the tester has started over, and for good (`trouble`) a loss it
took for a yes, a failed callback, or an answer at the new rate; and
`ControlInSession` says in which session link, communication, outputs and flash
can change at all. In the library, `SoftExact` and `PeriodicExact` compare the
timers with the time that does not wrap (the second one says where the code's
comparison stops being right), `CrcRight` the CRCs with polynomial remainders,
`FilterRight` what passes a filter with what its caller meant (that it rejects what was
not meant is said where the registers can do that: not of extended frames at a standard
bxCAN filter, which `StandardFilter` is about, and not of a driver on FIFO 0 of the
FDCAN), `SeedUsable`
that no generator runs into zeros and that a key does not fit a second seed before
the generator has come round, and `ReadsCoherent` what is read with what was
written, at the address the tester meant as long as it is one a word can hold.

## Findings

| Run | Code | Says otherwise |
|---|---|---|
| `TesterPresentExpires` | `tester_present.cpp:28` keeps alive from tick 0 | `docs/s3_server_timer.md:15` |
| `SilentAfterEntry` | `uds_session.cpp:27-29` starts no timer | `docs/s3_server_timer.md:9`, `uds_session.cpp:65` |
| `FlowControlPci` | `isotp.cpp:164` shifts a PCI that is already shifted | `docs/isotp_notes.md:9` |
| `SendingStuck` | `isotp.cpp:226-227` leaves Sending behind | `isotp.hpp:120-122` |
| `FailedThenPassed` | `dtc_manager.cpp:47-48` clears testFailedThisOpCycle and pendingDtc in the cycle of the failure | `docs/dtc_status_bits.md:8-9` |
| `StandardFilter` | `stm32_can.cpp:112` compares RTR and not IDE, so extended frames pass | the comment there |

Met while reading, and not shown by a run of its own:

* Session and security: a reset erases failure counters and lockouts
  (`security_access.cpp:7-13`) and starts the seeds over, which no document speaks of;
  the end of a session clears neither an outstanding seed (`:98`) nor the unlocked flag
  (`:129`), where the comment at `:145-149` says it does (nothing in the library reads
  the flag, and the seed stays good for one key in the level's session);
  `transfer_data.cpp:19` checks its own flag and no session, so a transfer goes
  on in the default session, where `docs/session_timing_matrix.md:16` has none;
  what CommunicationControl and IO control switched is never restored when the
  session times out (`docs/comm_control.md:23`, `docs/io_control_modes.md:25-26`):
  `update()` tells no service, and its time-out callback is registered by nothing;
  the dispatch has no session or security check although
  `docs/service_dispatch.md` draws one; `examples/stm32f4/main.cpp` never sets the
  tick provider, so its sessions never time out.
* Transport: a Consecutive Frame with a wrong sequence number is ignored and the
  reception goes on (`isotp.cpp:101`), where `docs/isotp_notes.md:13` has it
  aborted; `send()` admits 4096 bytes (`:172`) and announces them as 0 (`:188`),
  where `fdcan.hpp:17` and `:30` have at most 4095.
* Trouble codes: `confirmedDTC` is set by the first failure, where
  `docs/dtc_status_bits.md:10` has a threshold; `pendingDTC` is not taken back at the
  end of a cycle either; a clear of group 0 matches every code
  (`:67`); a new snapshot replaces the old one, where `docs/freeze_frame.md` keeps
  the first; sub-function 0x0A applies the mask, which it should ignore.
* Other services: RequestUpload is never closed by RequestTransferExit; the reset
  callback runs before the response is sent (`ecu_reset.cpp:35`); the result of the
  LinkControl callback is ignored and the answer sent at the new rate.
* Arithmetic: absolute deadlines compared with `>=` fail at the tick's wrap and
  when a sum is exactly 0, in the session as in `PeriodicTimer`, although
  `hal_timer.hpp:63-66` explains why one should not; of the CRC-32 table 224
  entries are 0 and four are misprinted (indices 10, 13, 14 and 15), where
  `crc.cpp:16-17` speaks of an abbreviated table with the same result.
* Memory: an address of more than four bytes loses its upper ones
  (`read_memory_by_address.cpp:32`, the same in `write_memory_by_address.cpp`), so it is
  served from another address, where `docs/nrc_handling.md:26` has 0x31 for an address
  out of bounds.
* Drivers: `stm32h7_can.cpp:91-103` adds filter elements and leaves the global filter at
  its reset default, so frames no element takes arrive in FIFO 0 all the same.
* `dtc_manager.hpp` and `uds_types.hpp` do not compile as committed.

## Proofs

Every theorem holds for all values of the constants that the named assumptions
of its module allow (`SessionConstants`, `SecurityConstants`, `RequestConstants`,
`FlashConstants`, `DtcConstants`, `RingConstants`, `ServerConstants`,
`ServicesConstants`, `IsoTpConstants`, `LinkConstants`, `TimerConstants`,
`PortConstants`, `SeedConstants`, `CrcConstants`, `DataConstants`); what else it
assumes is in its statement. The
properties are the ones TLC checks (of `Services`, TLC checks no types: they are
proved), and each strengthening was an invariant of a TLC run before it was
proved.

### SecurityAccessProofs

| Theorem | Statement | Inductive invariant |
|---|---|---|
| `SecTypeCorrect` | `SecSpec => []SecTypeOK` | `FreshInd` |
| `OneGuessPerSeedCorrect` | `SecSpec => OneGuessPerSeed` | `FreshInd` |
| `LockoutCorrect` | `SecNoWrap => (SecSpec => []LockoutInv)` | `SecInd` |
| `GuessRateCorrect` | `SecNoWrap => (SecSpec => []GuessRate)` | `RateInd` |

* `FreshInd` adds to the types that the active level, while its seed is
  outstanding, is the one the last seed was generated for. No level but the
  active one can be answered, which is why `activeLevel` is enough to keep the
  seeds of several levels apart. It needs no bound on the tick.
* `SecInd` adds `LockoutInv` and the bound on the last tick. That the counter is at
  its limit exactly while the level is locked is what makes the increment in
  `AfterInvalidKey` stay within the limit, and that a locked level has no seed
  outstanding keeps a second lockout from starting inside the first.
* `RateInd` adds `RateRule`, which finds in the history of a level the attempt
  that started its last lockout: it lies `failCount` places before the end, and
  the delay separates it from its successor, or from now when there is none. A
  history longer than `MaxAttempts` reaches back across that gap, whatever its
  attempts were (`OneMoreGuess`); a correct key empties it. A reset marks the
  history as erased (`RestartKeepsRate`), and the rule is about unmarked ones.

There is one lemma per operation on a level (`ReleasedKeepsRule`,
`SeedKeepsRule`, `ValidKeyKeepsRule`, `InvalidKeyKeepsRule`, and the same for
the rate); the lemmas about the actions, `UpdateKeepsLockout` and
`HandleKeepsLockout`, do not depend on `SecSpec` and can be cited by a proof
about `UdsServer`. `SecNoWrap` (no lockout end reaches 2^32) is assumed where the
code needs it: past the wrap its comparison is wrong.

### FlashTransferProofs

`FlashTypeCorrect`, `TransferPairedCorrect`, `CompletedIsWholeCorrect` and
`DownloadImplementsImageCorrect`, for an image of any length and a block counter
of any width of at least two values. All come from `FlashInd`:

* `ServiceRule`: the two services agree on whether a transfer is open, and the
  expected number is in range;
* `DownloadRule`: while the tester sends block b of an open transfer, either the
  flash holds the blocks before b and the ECU expects b, or the last
  answer was lost, the flash holds b too and the ECU expects its successor. The
  second case is the whole difficulty. A repeated block is refused there because
  b and b + 1 have different numbers (`NumbersDiffer`, which needs no more than
  two numbers), and so the refusal means "written before". Once the
  tester is past the blocks, the flash holds the image.

The refinement maps `complete` to the tester being past the last exit. A
transfer that is carried out is the abstract write of a block, whether or not its
answer arrives; a started erase is the abstract erase; the tester's last exit
and its starting over are the abstract ones; everything else, restarts included,
is a stutter (`TransferImplements`, `EraseImplements`, `FlashKeptImplements`).

### DtcManagerProofs

`DtcTypeCorrect` (`DtcTypeOK`) and `StatusMeaningCorrect`, for any
codes and any size of the table. Each operation on an entry preserves
`EntryRules` (`TestRules`, `CycleRules`, ...), and an operation on the table that
works entry by entry, and leaves every code in its place, preserves the invariant
(`EntrywiseKeepsInd`): this covers tests, cycles, and both clears with any mask.

`ReportTruthfulCorrect` is about the loop of service 0x19, for any mask and any buffer.
The loop is a fold over the table. That there is such a fold is proved from the
least number there is none for (`FoldExists`), and it is made in turns, one for each
code (`ReportInTurns`). `TurnRule` holds after every turn: the list has the selected
codes so far, in order, or all that fit. With `EntryRules`, which says what a status bit
tells of the tests of its code, the list is the truth about them.

### CanRingProofs

`RingTypeCorrect`, `CopyIntactCorrect` and `RingImplementsFifoCorrect`, for a ring
of any size of at least two and any number of frames. The invariant `RingInd`
adds `CallRule` to the types: while `receive()` is between its test and its
return, what it has copied is what is in the slot, the tail is the one it read or
the next, and after the store the slot it reads is the free one, so that
the interrupt finds the ring full before it would reach it. The queue that the
ring stands for is the slots from tail to head modulo `Size`; lemmas say what one
more head or one more tail makes of its length and its elements. The store of
`m_rx_tail` is where a frame is taken, the test that finds nothing is
`FindNone`, and the rest of the call is a stutter.

### UdsServerProofs

`ServerTypeCorrect`, `ProgrammingFromDefaultCorrect` and
`ServerOneGuessPerSeed` (the property of SecurityAccess, in the server) come from `ServerInd`, the types and the `FreshRule` of
SecurityAccess, and need no bound on the tick. `SessionTimerCorrect` and
`NoEarlyExpiryCorrect` come from `TimerInd`, under `NoWrap` (no deadline reaches
2^32). It adds `DeadlineRule`, a running timer ends S3 after the last request
unless that was a TesterPresent, and `HeardRule`, the last request is not in the
future. `PassCases` reduces the passes of all services to four forms, so that
each invariant has one case per form and not one per service.

### ServicesProofs

`ServicesTypeCorrect`, `RatesAgreeCorrect`, `RefusedHasNoEffectCorrect` and
`ControlInSessionCorrect`. `Obeys` is what holds of every handler but those of
LinkControl (the link is untouched, a refusal changes nothing, control needs its
session); each handler has its lemma. `ServicesInd` adds to types and `RatesAgree` that
an ECU of which only a reset is unknown to the tester is still as the reset left it:
that is why starting over is enough. A request of LinkControl that leaves the services
as they were, refused or lost, may only change the tester, and `TesterRules` says how.

### IsoTpLinkProofs

`TypesCorrect`, `ReassemblyComplete` (`RxInv`), `SegmentationConsistent` (`TxInv`),
`RequestsDeliveredIntact` (`IntactDelivery`), `RequestsServedInOrder`,
`ResponsesWhole` (`ResponseWhole`) and `TransportImplementsDialogue`, for any
frame sizes, any sequence-number modulus, ring and controller size and any
lengths of requests and responses the assumptions allow. Four inductive
invariants, each on top of the one before it:

* `TypeInd`: `RxIs` and `TxIs` are `RxInv` and `TxInv` with the types; `RingInv` says
  what every frame of the tester in the ring is: the bytes of one request from one
  position on; `SenderInv` gives the tester's sequence number as a function of
  its position. For `TxIs` a block must not run past the payload: `PiecesFit` and
  `PiecesCover` count the frames that are left by a division, `RemainderOfSum`
  carries the sequence number through its modulus.
* `LinkInd`, which follows a request from the tester to the server.
  `OrderIs`: served, in the buffer, in the ring and at the sender is the order of
  the requests. `ChainIs`: the ring never skips a piece of a request that is not
  broken, that is, has lost no frame. `GoesOn(q, s, p, i)` is the heart of it: the stream of a request goes
  on from position p behind the i-th frame of the ring, or at the sender if
  the ring holds no more of it. `ReceptionIs`: what the ECU is receiving goes on at
  the head of the ring. `DeliveryIs`: what is ready is whole unless broken.

* `ResponseInd`, which follows a response from `send()` to the tester, as long as no
  frame to the tester was lost and the buffer was not rewritten. `BufferIs`: what is
  left to send is of one response. `MailIs`: each frame of a response in the
  mailboxes holds consecutive bytes of it, and what comes after it continues it.
  `Continues` is the heart: from a position, a response goes on with the next frame
  in the mailboxes, or in the buffer if the mailboxes hold no more of it, or is over.
  `TesterIs`: what the tester has is the beginning of a response, which goes on.
* `AnswerInd`, which adds order and lengths. `Between` and `InOrder`: the responses
  begin in the mailboxes in the order of the requests, none after the last one
  served; `HeardIs`: what the tester has is older than all of them. `FitsAnswer`,
  `RestFits` and `TesterFits`: the length announced, the length left to send and the
  length the tester waits for are those of that very response.

Sequence numbers alone do not give `IntactDelivery`: after `SnMod` lost frames the
numbers agree again. A request that lost no frame is intact because its stream
goes on, and one that lost some is not claimed to be. Each action has a lemma
(`RequestLink`, `PieceLink`, `NextPieceCopied`, ...) and each way the ring can grow
or shrink one about `GoesOn` (`GoesOnLater`, `GoesOnOverPiece`, `GoesOnPastHead`, ...).

The refinement maps `Waiting` to the abstract inbox and the tester's last complete
response to `heard`. `SendRequest` is `Ask`, a further frame of the tester is
`Damage` or a stutter, `FeedFrame` is `Deliver` (the last frame of a request),
`GiveUp` (a First Frame while a request waits) or a stutter, `AnswerPass` is
`Serve`, `Transmit` is `Hear`, `Spoil` or a stutter, and the rest stutters. That a
request is not served twice and that responses do not overtake each other is then
what the abstract guards ask for.

### LibraryProofs

`SoftTimerExact`, `PeriodicTimerExact`, `CrcsRight`, `FiltersRight`, `SeedsUsable` and
`ReadsAreCoherent`, each from an invariant of its part; a step of another part leaves it alone.

* `TimerInd` relates each timer to the milliseconds that have passed: the tick is
  their remainder by the wrap, and the subtraction modulo the wrap gives the time
  since the start as long as that is shorter than the wrap (`Division`).
* `CrcInd`: each register is what the data so far make of it, for data of any length.
  A shift of the register is a step of the division (`Shift16Turns`, `Shift32Turns`);
  an entry of the table is eight of them (`Next32Turns`), as bits that have not
  reached the lowest place are only shifted (`Shift32OfXor`). One more byte shifts the dividend up by eight
  degrees (`DividendGrows`), and a longer division goes the same way for all but its
  last eight steps (`DivisionGoesOn`, `RemainderOfByte`). The recursion of
  `Remainder` itself is unrolled into those steps (`RemainderInTurns`).
* `PortInd`: the registers are those of the filter asked for, and what arrived is
  what the registers let pass, or what the FDCAN leaves in FIFO 0. `Halves` joins the two halves of a bxCAN register
  again, for any identifier and mask of 29 bits.
* `SeedInd`: the seeds are successive states of the generator. `Step` can be undone
  (`StepReversible`), so two equal seeds have equal predecessors, back to the word
  the generator started with; and a word that is not zero has a successor that is not.
* `DataInd`: what was told is what there is. The loops over identifiers and bytes are
  unrolled into turns, as the report is (`FoldExists` for folds, `RecursiveExists` for
  recursive functions). `NumberIsMeant`: the loop that shifts bytes into a word comes
  to the number its digits mean, modulo the word, for any number of bytes
  (`NumberWithin`: to that number itself, if a word holds it); after each
  turn, `SameDigits` holds of what was shifted in and what was added up. `ThroughAll`:
  the loop over readable identifiers comes through exactly when the whole answer
  fits; `RefusedByOne`: one that cannot be read refuses all.

### Checked by TLC only

Out of the prover's reach: liveness under fairness (`SilenceEndsSession`,
`ReceptionEnds`, `WaitForFlowControlEnds`, `QueuedIsReceived`) and `ENABLED`. The
library's induction theorems cannot be used, since they take an operator as a
parameter; the inductions here are over sets of numbers (`Upwards`, from the least
element of a set). No module here uses a `RECURSIVE` operator.

## Plan

All parts of the inventory are modelled, but for what is listed below, and every
safety and action property that a passing run checks is stated by a theorem. What
would come next is the code that is listed as not modelled, where it gains logic of
its own.

## Not modelled

* The wording of responses (`write_nrc`, response headers), and callbacks that only
  report. The snapshot identifier callback of the DTC manager is called by nothing.
* The missing HAL handle of the drivers, the payload's bytes, the FD switches, bit
  timing and hardware registers other than the filters.
* STmin and the event window of ResponseOnEvent, which the code stores and never
  uses; the communication type of CommunicationControl and the option record of
  ControlDTCSetting, which go to the application unread.
* `register_service`, `register_level` and the tables of identifiers and routines,
  which are filled once at start: constants, with distinct entries.
* `LfsrGenerator::fill()`, which only spreads words over bytes.
* The RNG and NVS interfaces, which have no code; build files, examples (but for
  the main loop, which `UdsServer` and `IsoTpLink` run) and the version header.
