# A verification model of the EcoFlow River 2 Pro button controller

The firmware (ESP32-S3, ESP-IDF, NimBLE) connects to a power station over
Bluetooth LE, runs a four-step handshake, listens to encrypted telemetry and
toggles the station's AC and DC ports when one of two buttons is released.
This directory holds TLA+ modules translated from `src/main` and from the part
of micro-ecc the firmware uses, TLC configurations that check them on small
instances, and TLAPS proofs.

## 1. Inventory

| Component (source) | State | Operations | Talks to |
|---|---|---|---|
| Start-up and configuration (`app_main.c` 82-119, `config.c`) | the record read from flash, position in the start-up | initialise, four reads, give up at the first failure | buttons, BLE client |
| Application loop (`app_main.c` 121-174, `river2_commands.c`) | `ac_on`, `dc_on`, `*_state_known` | take bits, port state, battery, toggle | telemetry getters, `river2_ble_write` |
| Connect state machine (`app_main.c` 32-80) | `state` | wait, start the attempt, authenticate | BLE client events, `river2_auth_run` |
| BLE client, connecting (`ble_client.c` 68-270, 299-376) | handles, service table, `s_cccd_found`, `s_owner_task` | GAP and GATT callbacks, start_connect | NimBLE host task, owner's bits |
| BLE client, data path (`ble_client.c` 266-292, 378-403) | `s_conn_handle`, `s_notify_queue` | notification, write, disconnect | telemetry task or handshake |
| Handshake (`river2_auth.c` 139-497) | step, deadline, reassembler, ECDH context | request, wait, four replies | data path, ECDH, cipher and digest |
| Cipher and digest (`river2_auth.c` 18-137, 205-245, 410-440) | none | pad, encrypt, lenient decryption, key position, hexadecimal digest | PSA Crypto |
| ECDH wrapper (`river2_ecdh.c`) | the context with the private key | generate, shared secret, free | micro-ecc |
| micro-ecc (`uECC.c`, `curve-specific.inc`) | none | word arithmetic, fast reduction, ladder, validation | random source |
| Reassembler (`river2_packet.c` 103-212) | `data`, `scratch` | append, extract, free | handshake, then telemetry task |
| Packet codec (`river2_packet.c` 15-101) | none | inner build and parse, outer build | checksums |
| Checksums (`river2_crc.c`) | two tables | CRC-8, CRC-16 | none |
| Telemetry task (`river2_telemetry.c`) | three static values, throttle | decode PD and MPPT heartbeats | owner's bits, getters |
| Push buttons (`pushbutton.c`) | debounce timer and interrupt handler of each | install, interrupt, timer callback | owner's bits |

Five contexts run concurrently: the owner task (`app_main`), the NimBLE host
task, the telemetry task, the timer task with the button callbacks, and the
interrupts. All of them speak to the owner by setting bits in one
task-notification value; data goes through one queue; three static values are
shared without a lock.

What is hard about it, and what makes each part correct:

- **Application and telemetry.** Value and bit are separate steps on both
  sides. No port change may get lost; a bit must imply a value; a command must
  never be computed from a made-up state; in the end the owner's view and the
  station must agree; the throttle must not silence the battery level.
- **Start-up and buttons.** Any call may fail after buttons are already live;
  interrupt, timer task and bouncing contact interleave. A release must be
  reported, and once; a failed installation must leave nothing behind.
- **Connecting.** A chain of callbacks in which every branch must either start
  the next procedure or report a result; two procedures (CCCD write and
  descriptor discovery) overlap; the owner may have given up meanwhile. Only a
  usable connection may be reported, and a good device must not be refused.
- **Handshake.** Frames get lost, are wrong, or were not asked for. It must
  end, succeed only with the station's consent, and free the private key.
- **Key agreement.** The ladder divides by numbers that may be 0, the
  reduction has rare carries, the peer's key is untrusted. Both sides must get
  the same secret, and only points of the curve may be accepted.
- **Reassembler.** Cuts anywhere, noise, failing allocations, a change of
  consumer in the middle of the stream. How the stream is cut must not matter,
  sent frames must arrive, the buffer must stay bounded.
- **Codec, cipher framing and checksums.** What is built and sealed is found
  again, damage is rejected, padding is never misread, the tables compute the
  checksums they claim to.

The full list of hazards with their lines is in `PROJECT.json`.

## 2. Modules

| Module | Models |
|---|---|
| `AppEvents` | the notification bits, `xTaskNotify` and `xTaskNotifyWait` |
| `BleLink` | queue, write and disconnect of an established connection |
| `Telemetry` | `telemetry_task`, one action per unsynchronised step |
| `AppMain` | the streaming loop, one action per test on `bits` |
| `PortControl` | these together with the station (external), presses and clock |
| `Pushbutton` | contact (external), interrupt, debounce timer, callback in two halves |
| `Startup` | `app_main` up to the connection, composed with the buttons it installs |
| `BleClient` | connection attempt and discovery, one action per callback branch |
| `Connect` | `BleClient` composed with `connect_and_authenticate` |
| `Auth` | `river2_auth_run` with station and link |
| `Ecdh` | step 1 of the handshake with the ECDH wrapper and the life of its context |
| `MicroEcc` | co-Z ladder, key generation, validation, key agreement on field elements |
| `Vli`, `Powers` | the word arithmetic under it, with fast reduction and inversion; powers of two |
| `EccReference` | the group law of the curve, in which `MicroEcc` states what it assumes of the curve and `Ecdh` what both sides should compute |
| `SessionData` | padding, sealing, lenient decryption, session-key position, hex digest |
| `SealedChannel` | what codec and session data promise, over a channel that damages a packet by one edit and cuts sealed ones short |
| `Crc`, `PacketCodec` | checksums and codec as pure functions on bytes |
| `CrcReference` | the CRCs by polynomial division, the reference for `Crc` |
| `FrameStream` | abstract specification: what a reassembler promises, without a buffer |
| `FrameBuf` | reassembler, drain loop and handover, one action per pass; implements `FrameStream` |
| `MC...` | values for TLC; `MCCodec` gives the real checksums and a toy cipher and compares the tables with `CrcReference`, `MCEcdh` gives a curve that TLC can exhaust |
| `..._proofs` | theorems about `PortControl`, `Startup`, `Connect`, `Auth`, `FrameBuf`, `SealedChannel` and `Ecdh` |
| `DataLemmas` | what these proofs share: induction by least counterexample, facts about sequences, congruences, powers of two and recursive functions |

`AppMain` EXTENDS `Telemetry` EXTENDS `BleLink` EXTENDS `AppEvents`;
`PortControl` composes them. `Connect` EXTENDS `BleClient`, `Startup` EXTENDS
`Pushbutton`, and both of these EXTEND `AppEvents`. `Ecdh` EXTENDS `MicroEcc`
EXTENDS `Vli` EXTENDS `Powers`. `FrameBuf` and `SessionData` EXTEND `PacketCodec`, which takes
the checksums as constant operators: TLC gets the real ones, and the theorems
about the reassembler hold for any checksum. `SealedChannel` EXTENDS
`SessionData` and assumes of checksums and cipher what its promises rest on.

### Correspondence worth knowing

- `note` is the owner's notification value, `bits` the local variable of the
  loop. `Turn` gives the tests on `bits` the order they have in the code.
- A telemetry packet is `[src, cmd_set, cmd_id, val]`; `val` has only the
  fields the payload is long enough for. Frames that are not data, do not
  decrypt or do not parse behave like a packet with a foreign `cmd_id`.
- `s_port[p]` stands for `s_ac_enabled` and `s_dc_out_state`; `Int8` is the
  cast that turns 255 into -1.
- `outbox` holds writes NimBLE has accepted. `ble_gattc_write_flat` is called
  without a callback, so nothing ever reports their fate.
- In `Startup`, `boot` is the call that comes next, and `cfg` and `nvs` hold
  lengths (a string's without its NUL). The model ends when `app_main` returns,
  because the buttons' state lies on its stack (see the known limits).
- In `Pushbutton`, a callback has two steps (read the pin, notify), between
  which an interrupt may come. `overtaken` counts callbacks that read 1 after
  a new edge had already restarted the timer. An interrupt is served before
  the next tick, and a contact bounces for less than the debounce time.
- In `BleClient`, `disc` is the procedure under way and `pos` the next item it
  will report; a link that breaks first fails the procedure, then delivers the
  disconnect event, in NimBLE's order. The 128-bit and the 16-bit form of a
  UUID are one value. A table says of each characteristic whether it has a
  CCCD; `CccdsInPlace`, `VariantsComplete` and `Supported` say what is a
  well-formed table, and the properties that need one name it.
- In `Auth`, `rx` merges the notification queue with the handshake's
  reassembler. A frame's `kind` is what the handshake makes of it; replies of the
  wrong type, curve or length, invalid keys and seeds beyond the table are all
  "bad". `held` says how many frames of `rx` are in the reassembler: the code
  reads from the queue only when it holds none and time is left, and looks at
  what it holds even after the deadline. `Ecdh` opens up step 1, `SessionData` what
  steps 2 to 4 compute.
- In `FrameBuf`, `script` is what the station and the noise on the way produced,
  `pending` the part not yet delivered. A piece of the stream is a frame as
  `river2_outer_build` builds it (`Wire`) or noise. *Clean* streams have only
  noise that cannot be taken for the start of a frame: without the prefix, not
  ending in its first byte, or a header whose length is out of range
  (`IsNoise`, checked on every run by `StreamAssumption`). `Handover` frees the handshake's buffer
  with whatever it holds and starts the telemetry task's empty one.
  A failing append ends the handshake (`pc` is "ended"); the telemetry task drops
  the chunk and waits for the next notification.
- In `MicroEcc`, field elements are numbers and the operations exact; scalars
  keep their width in words, because the ladder's fixed length depends on it.
  `Vli` has the same operations on words; `WordsComputeField` compares the two
  wherever the reduction loses no carry. The loops of `Vli` are recursive
  functions of the word they are at. That of the inversion, which in the code
  ends when its two numbers meet, is counted there to twice as many rounds as a
  number has bits and stands still once they have met; the theorem `InverseExact`
  shows that they meet in time. The random source is a choice among
  `Ks` and `Zs`; giving up after 64 tries is `gaveup`.
- `SessionData` takes AES-CBC as a pair of constant operators. `SealedChannel`
  assumes that the length is kept and that whole blocks from the first on are
  deciphered without those behind them, as CBC does; `MCCodec` gives a chained
  toy cipher of the same block size, of which TLC checks the assumption.
- Definitions headed *Seeded fault* are plausible mistakes in the code. No
  specification uses them; they are put in place of the definition that follows
  to see that a property notices.

## 3. Runs

Bounds common to `port_control`, `port_converge` and `battery_report`: a queue of one (so it is full
whenever one packet is unread), an outbox of two (so a second command is in
flight with the first), two ports, states 0 and 1.

| Run | Question and result |
|---|---|
| `port_control` | Types, no lost edge, bits imply values, no blind command, newest command is the belief: hold with 2 presses (besides those made before streaming), 1 change at the station, 1 refused command, link loss at any time. Two presses are the smallest number with an undone toggle. |
| `port_converge` | The view converges if the station obeys and nobody uses its switches: holds. Without these conditions it need not (see the known limits). |
| `battery_report` | The level is announced only when decoded, and again and again, with full, short and foreign PD packets, a byte that decodes to a negative level, and a throttle of two ticks: holds. |
| `connect` | Fifteen GATT tables (good, incomplete, crowded, variants spread over two services or mixed, CCCDs missing or under the wrong characteristic, one service more than `MaxServices`), two faults, two host syncs, one press: a reported connection is usable, the CCCD belongs to the notify characteristic, the pair is of one variant, a supported device is not refused, every attempt is decided. Hold. |
| `connect_late` | An outcome can be reported to a deleted task. |
| `auth` | Success only with consent, each wait bounded, the handshake ends, undecodable frames never make it fail: hold with a timeout of 3 ticks, a queue of 3, one wrong reply, one frame lost and any number dropped by a full queue, three unasked frames (undecodable or oversized) and link loss. Three unasked frames restart a wait that was restarted before, with the queue full. |
| `codec` | 36 packets, intact and with every single edit: edits rejected, table-driven checksums equal to the polynomial remainder on every six bytes that arrive, sealed packets opened again, also when the padding takes a block of its own, the decryption lenient without misreading at every cut, the key material found for all boundary seeds, the hexadecimal digest correct. Hold. |
| `frame_buf` | All pairs of 7 pieces and three triples, chunks of up to 9 bytes, one failing allocation, the handover behind any frame; `MaxField` is 6 instead of 4096 so that the largest frame and the first implausible length both occur. Six invariants hold, and `FrameBuf` implements `FrameStream`. |
| `ecdh` | On y² = x³ - 3x + 14 over the field of 61 elements (order 67, three words of two 1-bit bytes each), with every honest key, every possible byte string as a peer's key and replies of every wrong form: secrets agree, only points are accepted, honest peers are refused in the named cases only, the context is released, words compute the field. Hold. |
| `fast_reduction` | `vli_mmod_fast_secp160r1` does not always compute the remainder. |
| `button` | Start-up with every call failing, user ids and serial numbers one byte around their limits, both buttons with one release, bounces of 3 ticks and a debounce time of 4: one event per release (overtaken callbacks apart), every release reported, timer with handler or neither, sizes fit. Hold. Three ticks are the shortest bounce in which a pushed contact rises at all; buttons that start out held make a push after the release possible, so the timer of the release runs into the bounce of the push. Theorem `OneEvent` covers longer times and any number of releases. |

The small curve has the shape that makes secp160r1 special: p is
2^bits - (2^(w-1) + 1) for words of w bits, and the order is one bit longer than
p, so that scalars need one word more than coordinates and the length of k + n
varies.

Known limits that no run states, each found with these modules:

- `ViewConverges` fails with `MaxPanel = 1` if the switch at the station is used
  after a command was applied and before a heartbeat reported it. The owner took
  the new state over when the write was queued (`app_main.c:154`) and hears of
  edges only (`river2_telemetry.c:86`, `:93`); the reported value never changed,
  so there is none, and its view stays wrong until the port changes again. A
  command the station receives and refuses (`MaxRefusals = 1`) has the same
  effect. A switch used before the command arrives does no harm: the views agree
  once it has been applied or, if it is reported first, with the edge.
- With 255 in `OutBytes`, `BitImpliesValue` fails: the byte decodes to -1, "none
  has arrived yet". The theorem assumes it away.
- MPPT packets of another `cmd_set` are decoded as heartbeats
  (`river2_telemetry.c:83`), unlike in the protocol document's dispatch table
  (line 195); PD packets are checked.
- With `ExtraKinds = {"other"}`, `SuccessMeansAccepted` fails: step 4 takes any
  packet but a refusal for an acceptance. The protocol document (section 3, point
  5) allows that for the *next* data packet; one that was already under way
  counts too.
- Without a bound on unasked packets step 3 may wait for ever, each of them
  restarting its deadline; `river2_auth.h:25` promises a timeout.
- A link lost between the acknowledged subscription and the end of the
  descriptor discovery makes one attempt report `CONNECTED` and then
  `CONNECT_ERROR`.
- A spurious header with a plausible length holds back complete frames behind it
  until that many bytes have arrived, and a stray 0x5A directly before a frame
  loses that frame (`river2_packet.c:148`, `:184`): the prefix is found one byte
  early and then dropped together with the first byte of the real one.
- The handover discards complete frames still in the handshake's buffer.
- A user id of 20 characters, as in `nvs.csv.example`, does not fit its array
  with the NUL: start-up ends there. The flash handle is not closed on errors.
- When `app_main` returns early, buttons already installed keep a pointer to
  its stack.
- A debounce callback that an edge overtakes can make one release two events.
- 2176 of the 65536 seeds point behind the lookup table and are refused; the
  last round of the digest loop writes a NUL behind `hex_payload`.
- The ladder fails for the private keys 1, n-2 and n-1 (drawn again) and for
  peer keys with x = 0.
- On the real curve, too, some products are reduced wrongly (`PROJECT.json`
  gives one); both halves of the product must be near the top of their range.

`CHECK_DEADLOCK FALSE` everywhere: the runs bound presses, faults, streams and
messages, and the real program also stops (`app_main` returns; a handshake
ends). Progress is stated by the liveness properties instead.

The repository's own words that the violated runs contradict are quoted in
`PROJECT.json` under `findings`.

## 4. Fairness

- `PortControl`: weak fairness of both tasks (the ESP32-S3 has two cores, both
  tasks block whenever idle, and FreeRTOS runs every ready task), of NimBLE
  delivering queued writes, and of the clock; strong fairness of heartbeats
  entering the queue, because the station sends them all the time and the
  telemetry task empties the queue in between. Convergence and battery reports
  are stated for a link that stays up; nothing is fair about button presses,
  the station's switches, refusals and link loss.
- `Connect`: weak fairness of the owner and of the NimBLE host task, whose
  procedures all have timeouts of their own. The owner's wait is not forced to
  time out, so `ConnectDecides` shows that the callbacks alone decide.
- `Auth`: weak fairness of the handshake and of time. The station need not ever
  answer.
- `Startup`: weak fairness of time, of each button's interrupt and of the timer
  task, while `app_main` has not returned. Nothing is fair about fingers or the
  calls of the start-up.
- `FrameBuf`: none; that the drain loop ends is the invariant `DrainBounded`,
  which gives every pass a budget of bytes. `Ecdh` and `SealedChannel`: none.

## 5. Proofs

Thirty-eight theorems, for every value of the constants that their named
assumptions allow. They are in the `..._proofs` modules; `DataLemmas` has the
lemmas several of them need.

| Module: theorem | Statement | Argument |
|---|---|---|
| `PortControl`: `TypeCorrect` | `[]TypeOK` | inductive, one lemma per component |
| `EdgesKept` | `[]NoLostEdge` | `EdgeInv` |
| `BitsAreSafe` | `[]BitImpliesValue` if 255 is never decoded | `ValueInv` |
| `NoBlindCommands` | `[]CommandsOnlyWhenKnown`, same proviso | `ValueInv` |
| `BeliefMatches` | `[]LastCommandIsBelief` | inductive with `TypeOK` |
| `FrameBuf`: `TypeCorrect` | `[]TypeOK` | inductive |
| `SuffixKept`, `DrainEnds` | `[]BufferIsSuffix`, `[]DrainBounded` | `BufferInv` |
| `WaitingBufferBounded` | `[]BufferBounded` | from `BufferInv`, per way of returning to the caller |
| `CutsDoNotMatter` | `[]ChunkingIrrelevant` | `ChunkInv` |
| `ReassemblerRefines` | `ImplementsFrameStream` | step simulation with `ChunkInv` |
| `FramesArrive` | `[]SentArrives` | `SentInv` and a walk from piece to piece |
| `Connect`: `ConnectedIsReady` | `[]ConnectedMeansReady` | `ConnectInv` |
| `SubscriptionBelongs` | `[]CccdBelongs` | `DiscoveryInv` |
| `OneVariant` | `[]PairMatches` | `DiscoveryInv` |
| `SupportedAccepted` | `[]NoFalseRejection` | `DiscoveryInv` |
| `Auth`: `AuthTypes` | `[]TypeOK` | `AuthInv` |
| `SuccessNeedsConsent` | `[]SuccessMeansAccepted` | `AuthInv` |
| `OnlyWrongRepliesHurt` | `UnaskedIsHarmless` | step by step from `AuthInv` |
| `WaitIsBounded` | `[]WaitBounded` | `AuthInv` with `WaitInv` |
| `SealedChannel`: `DamageSeen` | `[]DamageRejected` | `ChannelInv`, edit by edit |
| `RoundTrip`, `Lenient` | `[]SealedRoundTrip`, `[]LenientDecryption` | `ChannelInv`, case by case on the padding |
| `KeyMaterial`, `HexIsDigest` | `[]KeyMaterialFound`, `[]HexPayloadIsDigest` | lemmas about the two computations |
| `Startup`: `OneEvent` | `[]OneEventPerRelease` | `ButtonsInv` |
| `TimerWithHandler` | `[]AllOrNothing` | `DriverInv` |
| `ConfigurationFits` | `[]DigestFits` | `ConfigInv` |
| `Ecdh`: `SumsAreExact` | on words, addition, subtraction and halving modulo p are the field's | `AddExact`, `SubExact`, `CmpExact`, `HalvedExact` |
| `FastProductExact` | so is multiplication, unless a carry is lost | `MultExact`, `OmegaExact`, `MmodFastNear` |
| `InverseExact` | and inversion | `RoundCorrect`, `SearchEnds` |
| `FieldOnWords` | `[]WordsComputeField` | these three |
| `LadderMultiplies` | `EccPoint_mult` returns multiples, but for named keys and points with x = 0 | `LadderAt`, `LadderLost` |
| `ExceptionalKeys` | those keys are among 1, n-2 and n-1 | from `Regularize` |
| `PointsAlwaysChecked` | `[]OnlyPointsAccepted` | `KeysInv` |
| `SecretsAlwaysAgree` | `[]SecretsAgree` | `KeysInv`, `LadderMultiplies` |
| `HonestPeersAlwaysAccepted` | `[]HonestPeerAccepted` | `KeysInv`, `LadderMultiplies` |
| `ContextAlwaysReleased` | `[]ContextReleased` | `ContextInv` |

Why the strengthenings are needed:

- `EdgeInv`: at the point where the telemetry task goes back to waiting it holds
  no collected bits, otherwise the next packet's reset of `notify_bits` would
  drop an edge.
- `ValueInv`: a *known* port has a decoded value and the packet being decoded
  came from the station. A command is sent only for a known port, a port becomes
  known only through a pending bit, and a bit is posted only together with a
  value. The proviso on 255 is needed (see the known limits).
- `LastCommandIsBelief` rests on the outbox being a sequence: appending makes
  the new command the last for its port, removing the head never changes which
  is last.
- `BufferInv` is `TypeOK`, `BufferIsSuffix` and `DrainBounded` together: the
  budget of bytes is counted against what was received, which needs the buffer
  to be the newest part of it.
- `ChunkInv`: `ChunkingIrrelevant` says nothing of frames that later bytes
  complete, so it is stated for *every* continuation of the stream: the frames
  returned, followed by those in the buffer with the continuation, are those of
  one scan of all bytes. Each pass of the loop is one unfolding of that scan.
  With it, every step maps to a step of `FrameStream` or a stutter.
- `SentInv`: unless an append failed, what this reassembler has received and
  what is pending are the stream behind the cut, and while the caller waits the
  buffer holds no complete frame. What a scan from the start of a piece finds is
  shown from the last piece of the stream backwards: noise is skipped as a
  whole, a frame is found (the extractor undoes what the builder did) and the
  scan resumes behind it. From a cut inside a piece it comes to the start of the
  next, as the rest of the piece holds no 0x5A (`SentArrives` demands that).
- `ConnectInv`: the handles are cleared only when the connection comes up, and
  then nothing has been subscribed or reported; the CCCD is written only with
  both handles resolved, and resolved handles are never replaced.
- `DiscoveryInv` follows the discovery through the table: `ServicesInv` (the
  services stored are the first ones, in order), `FoundInv` (every characteristic
  passed has set its handle), `PairInv` (while one handle is missing, the other
  is in the service being searched), `CccdInv` (the first descriptor that is
  reported as a CCCD is the notify characteristic's), `RejectInv` (without a
  fault, the only way to report an error is a table that is not supported).
- `AuthInv` adds to `TypeOK` that the requests under way and served are those
  of the steps so far, that every frame in the queue belongs to what has been
  asked, and that a step has at most one request under way. Without the last, a
  late reply could be taken for the next step's. All four theorems about `Auth`
  assume that unasked packets do not decode (`OnlyUndecodable`).
- `WaitInv` counts the garbage that has come *and gone*, that is the unasked
  frames minus the garbage still queued: only a frame taken from the queue
  restarts the wait, and it cannot do so twice. The queue's garbage is a
  cardinality, so the lemmas count what taking and appending a frame changes.
- `ChannelInv` says that what is in the channel is the packet or one edit of it.
  The work is in the lemmas: what the builder puts where, that the parser reads
  it there, and what is left of padding and packet when a block is missing.
- `ButtonsInv` gives each button a credit, `releases + overtaken - events`, less
  one for a callback about to notify. A released button without credit is at
  rest with no interrupt, timer or callback behind it; a pushed one without
  credit is looked at only after its bounce, when the pin reads 0, because every
  edge restarts a timer that outlasts the bounce (`MaxBounce < Debounce`). While
  a released contact still bounces at level 1, the edge that raised it has
  restarted the timer, so a callback that reads 1 then was overtaken.
- `DriverInv` ties both flags of a button to the position in the sequence of
  calls.
- `KeysInv` remembers what the three properties of key agreement cannot say: from
  key generation on, `priv` and `our_pub` belong to one number, and not to one
  the ladder fails for, because `uECC_make_key` has drawn until it got a point;
  an honest station's reply is its public key in a form the checks let through;
  and the secret is the x of the product of both numbers. TLC agrees on the
  instance of the run `ecdh`.

The word arithmetic is proved for every width of a word, every number of words
and every pair of operands:

- `Upto` gives the number each beginning of a VLI stands for. Each word of
  `VliAdd` and `VliSub` keeps the sum of what is done and the weighted carry
  (`CarryRight` is the point: a word that did not change added nothing or one
  full word, and either way the carry stays). The comparison is decided by the
  highest word that differs.
- A product is added up by columns, its value by rows. `Parts` says what the
  columns below the k-th hold of each row; a column adds what `Parts` gains
  (`ColumnExact`), and no column overflows three words as long as a number has
  no more words than a word has values (`Room`).
- The fast reduction folds the upper half down twice. `Folded` is what that adds
  up to: below 2^bits + p one subtraction for a carry and one comparison reach
  the range 0 to p, and a prime p is not reached because both factors are below
  it. From 2^bits + p on, what the one subtraction for the carry leaves still does
  not fit in the words, and its top bit is lost (`CarryLost`, the case the run
  `fast_reduction` finds).
- The inversion keeps two numbers, each a multiple of the input modulo p with a
  known factor, whose common divisors divide the input and p (`Sides`). A round
  halves their product (`RoundCorrect`), which starts below 2^(2 bits): after
  2 bits rounds they are equal (`SearchEnds`), hence 1, and the factor is the
  inverse. Adding p to a difference may lose a carry, which the subtraction
  behind it borrows back (`DifferenceExact`).

Key agreement is proved on top of it, for every curve of prime order:

- The ladder keeps no z. `LadderAt` says that before each round there is one, not
  0, over which R0 and R1 are a and a + 1 times the point, for the number a of the
  bits done, and that `sub` is the difference of their x, up to its sign. `AddC`
  and `Add` are the chord of the group law up to that z, provided that the two x
  differ.
- They are equal only if 2a + 1 is a multiple of n. Scalars have `num_n_bits` + 1
  bits whatever the key (`RegularWords`: k + n or k + 2n, in one word more than
  a coordinate if need be) and end below 3n, so that happens in the last round but
  one or never, and for at most three keys (`ExceptionalKeys`). From there on
  (`LadderLost`) one register is all zero, and so are the last product and the
  inverse of it: the code returns Zero, not a wrong point. A point with x = 0
  makes the same product 0.
- From the known P, the register next to it and the difference of the two x, the
  code makes 1 over the shared z in the last round; applying it leaves affine
  coordinates.
- Numbers become bytes and bytes numbers by way of single bytes of a word
  (`BytesInOut`, `BytesOutIn`), whatever the sizes of byte and word. Hence a key
  read off the wire that satisfies the equation is the very byte string of a
  point, and by `CurveAssumption` a multiple of the base point.

Module `MicroEcc` computes in the field: these theorems speak of the code as far
as `FieldOnWords` does, that is up to the products whose carry is lost.

Induction. The library's induction theorems take an operator as a parameter,
which the provers cannot instantiate. `LeastOf` in `DataLemmas` (a set of
numbers that is not empty has a least element) takes its place: a statement that
fails for some length or position fails for a least one. That is how recursive
functions such as the scan, the columns of a product and the rounds of the digest
are shown to exist (`Recursion` and `RecursionUpTo` for those of `Vli`) and to do
what they should.

Assumptions. TLC evaluates all of them on every run. Those that say something of
the world: in `SealedChannel`, the cipher keeps the length and deciphers the
whole blocks of every beginning (`CipherAssumption`), the checksums have 8 and 16
bits, the CRC-16 changes with each single byte (`ChecksumNotices`, which every
CRC does), payloads have at most 237 bytes, and the padding of a key reply does
not end in 15 or 16; in `FrameBuf`, streams are clean and `MaxField` fits the
length field (`StreamAssumption`, cited only for `FramesArrive`). In `MicroEcc`,
p is an odd prime of the shape curve-specific.inc counts on, 2^bits less half the
size of a word and 1, and a number has at least two words and no more than a word
has values (`MicroEccAssumption`, `VliAssumption`; secp160r1 has five of 32
bits); n is a prime above 3 of `num_n_bits` bits; and the curve's points, with
infinity, are a cyclic group of order n that G generates under the law of chord
and tangent (`CurveAssumption`): that these are a group, and of which order, is
the mathematics of elliptic curves and the curve's standard, not of this code.
`EcdhAssumption` says who the stations of `Ecdh` are: what arrives beyond the
header is bytes, and an honest station's public key belongs to its private one.
The tables of `Connect` need no assumption: the theorems say of which
tables they hold.

Only model-checked: all liveness (`ReleaseReported`, `ConnectDecides`,
`AuthEnds`, convergence, battery reports), which is beyond the prover;
and `ChecksumsAreRemainders`, whose exclusive-or the provers do not know. Every
other property of a passing run is stated by a theorem.

## 6. Not modelled

- Failures of PSA Crypto; AES and MD5 themselves, which are external; the MD5 of
  the lookup table that start-up logs.
- In micro-ecc: generic reduction, ECDSA, point compression, the other curves,
  assembly variants; the firmware calls none of them.
- The contents of the configuration: only lengths decide anything.
- `main` code that only logs, and the tools and documents of the repository.
- Time is a countdown of ticks in `Telemetry`, `Auth` and `Pushbutton`, and a
  choice in `Connect`.

## 7. Plan

Done: `PortControl`, `Startup` with the buttons, `Connect`, `Auth`, `FrameBuf`
with its abstract stream, codec, session data and checksums, key agreement down
to words, and the proofs of section 5: of the safety properties only that of the
checksum tables has none.

Left, in order of worth:

1. `System`: connect, handshake and streaming in one module, with the queue
   handed from one reassembler to the other and link loss between.
2. Refinement: an abstract connector (one outcome per attempt) compared with
   `Connect`, an abstract switch panel implemented by `PortControl`.
3. A retry in `app_main`, if the firmware gets one: `BleClient` then has to
   clear what an earlier attempt left, and `OwnerOutlivesAttempt` becomes worth
   a proof.
