# A verification project for cps8852_cp_gui

`cps8852_cp_gui` is a Windows dialog that programs and checks a chip (the
"target") over I2C. It talks to a USB-HID bridge in 64-byte reports; the bridge
drives the I2C bus and the target's power. This directory holds TLA+ modules of
that program, TLC configurations that check them on small instances, and TLAPS
proofs of what matters most for instances of any size.

Everything is translated from the source. The bridge's firmware, the target and
Windows are not in the repository; they are modelled as the code uses them and
marked external here and in `PROJECT.json`.

Line numbers below are those of the files under `src/`. The sources are GBK
encoded.

## 1. The system

### Components

| Component | Source | State it keeps | Operations |
|---|---|---|---|
| Opening the bridge | `user_inc/usb_lib.h` 95-224 | `hDev`, `flag`; inside the search `hidHandle`, `deviceNo`, the device list | `open_usb`, `OpenMyHIDDevice`, `close_usb` |
| USB exchange | `usb_lib.h` 226-255, `user_inc/i2c_lib.h` 9-125 | `msg_buf` with the running id; Windows' input queue | `wr`, `rd`, `usb_msg`, `data_trans`, `i2c_power_on`, `i2c_power_off` |
| Check sum | `i2c_lib.h` 45-63 | none | `crc_chk_value` |
| I2C transfers | `i2c_lib.h` 129-675 | `pkg_len`, the caller's pointer; the bus between packets | `i2c_bus_wr8/16/32`, `i2c_bus_rd8/16/32` |
| Intel-HEX loader | `user_inc/hex_lib.h` | image, `max`, `flag` | `hex2bin` |
| Word access | `user_inc/app_lib.h` | none | `i2c_wr_word`, `i2c_rd_word`, `i2c_wr_mem_word`, `i2c_rd_mem_word` |
| Download buttons | `mtp_test_guiDlg.cpp` 223-369 | `file_name`, `fail_flag`, the two buffers | `load_hex`, `mtp_cp1_test` (eFlash), `mtp_cp2_test` (SRAM) |
| Single-word and check buttons | `mtp_test_guiDlg.cpp` 381-489 | `m_addr`, `m_data`, `fail` | `mem_read`, `mem_write`, `i2c_check`, `mcu_reset_halt`, `sys_reset` |
| Empty handlers | `mtp_test_guiDlg.cpp` 371-379, 492-500 | none | `mtp_cp_test`, `read_all_mtp`, `mtp_case_run`, `OnButton14` |
| Application shell | `mtp_test_gui.cpp`, the dialog's plumbing, resources | framework state | start-up, painting, about box, console |
| Vendored | `usb_inc/`, `usb_lib/` | - | headers and import libraries of Windows |

### How they interact

The program has one thread. A button's handler runs to its end before the next
message is looked at. It calls the word access functions, these call one of the
six transfer functions, which cuts the transfer into packets; every packet, and
`i2c_power_on/off`, is one exchange: `data_trans` computes the check sum,
`usb_msg` calls `WriteFile` and then `ReadFile`, and `data_trans` compares the
id and the check sum of what came back. All of it happens over the one buffer
`msg_buf`: the reply overwrites the request.

What is hard is not threads but the other end of the wires:

* **Nobody looks at results.** `usb_msg` drops those of `wr` and `rd`, every
  caller drops that of `data_trans`. Whatever fails, the procedure goes on, and
  only what it reads later can show it.
* **A queue that nobody empties.** A reply that a failed `ReadFile` left behind
  is read by the next exchange as its answer, in this press or in a later one.
* **No timeout.** `ReadFile` waits for ever.
* **State left in the buffer.** A failed read leaves what was in `msg_buf`:
  the request, its cleared bytes, or the bytes of the packet before.
* **Packets with literal sizes.** Six copies of one algorithm, each with its own
  constants for header and packet sizes.
* **An order that the user chooses.** Buttons may be pressed in any order, on a
  target that other buttons have halted, reset or unlocked, that a failed
  download has half written, or that has been exchanged for another.
* **A program that may be killed.** A download takes seconds of blocked window.
  The next start asks the bridge to switch the target off, and does not learn
  whether it has.

### What makes each component correct

* *Opening*: success means an open handle of the bridge; other devices do not
  hide it; every way out closes what was opened; the search ends.
* *Exchange*: an accepted reply belongs to its request; on a good link every
  exchange is accepted and returns; the tool blocks only when it must.
* *Check sum*: it is CRC-16/MODBUS, and short bursts of damage do not pass.
* *Transfers*: the packets of a call carry its bytes once and in order, fit the
  buffer, and make one I2C transaction that ends with a STOP.
* *Loader*: what an assembler wrote is what is loaded, a wrong visible character
  is noticed, and image, length and rejection of any file are its own.
* *Downloads*: a pass means that the target holds the file, this chip and this
  file; on a good link the verdict is the right one, whatever went before;
  nothing outside the image and the flag words is written, and nothing at all
  when no file is chosen.
* *Check buttons*: a pass means that the target is in the state the button is
  named for.

`PROJECT.json` lists the hazards behind these, each with its line.

## 2. The modules

Each component has a specification, an `MC` module that gives TLC its
constants, and a `_proofs` module. They are layered like the code: a module
takes from the one below what that one proves, so none has to carry the state of
all. Three modules compose others:

    Session   the buttons (INSTANCE Buttons) over the queue (EXTENDS UsbExchange)
    Dialog    the window around the downloads (EXTENDS Download)
    HexText   the characters under the loader's tokens (EXTENDS HexLoader)

Of these only `Session` is a refinement: it implements both of its parts.
`UsbExchange` takes from `Crc16` that a damaged report does not pass, and `Download`
takes from `HexLoader` what a file may be loaded as and from `I2cTransfer` how a
call is cut into packets.

### `UsbExchange` - one exchange (`data_trans`, `usb_msg`, `wr`, `rd`)

`msg_buf` is the tool's buffer, `sent` the requests the bridge has and whose
reply has not been read, `answered` how many from the front have been answered.
`Request` is a whole operation up to `ReadFile`: the id is incremented in the
buffer, and `WriteFile` succeeds or fails. `Answer` is the bridge. `Receive` is
`ReadFile` delivering the oldest report, whole or damaged (`Reports`), `rd`
copying it over the buffer, and `data_trans`'s two tests (`Arrives`).
`ReceiveFails` is a `ReadFile` that fails with the report left queued or
consumed; the tests then see the request. Ids are counted without bound and
wrapped where they are compared, at `IdMod` (65536 in the program): the code only
adds one, copies and compares.

A damaged report may have any id (`Damaged`): `rd` copies it like the rest, and
the next request counts on from it. That its check sum fails is the flag
`intact`; `Crc16` says for which damage that is so. `damaged` counts such
reports, and `misled` those among them that are left over from an earlier
exchange and whose id the damage has changed: after one of these the next left-over may
look like an exchange's own, without any request being lost. A wrong id in the
exchange's own reply does no such harm.

`Wait` lets the behaviour go on where the tool waits for a button, or in
`ReadFile` for good; it stands for no code.

### `Crc16` - `crc_chk_value`, and `data_trans`'s second test

A step for each turn of the two loops, for the tool (over what came in) and for
the bridge (over what it sent) side by side. A byte or a register is the set of
the positions of its ones. `Remainder` is the textbook definition, a polynomial
division with all of the message in view (`Reduce` takes its terms away from the
highest down), that `SumIsRemainder` compares the loops with, the bridge's over
what it sent and the tool's over what came in. `Damages` are the sets of bits
flipped on the way, those of the check sum included.

### `I2cTransaction`, `I2cTransfer` - the six transfer functions

`I2cTransaction` is the promise: one START, all the bytes, one STOP, nothing
empty in between. `I2cTransfer` is one call, a step per packet. The functions
differ in their address width `aw` and in two constants (`FirstRead`,
`ReadHeader`); each is an action of its own, `i2c_bus_wr8` to `i2c_bus_rd32`.
`moved` pairs each byte of the caller with its place on the bus, so that a byte
skipped, repeated or shifted shows. A read of no bytes, where `i < (len-1)` with
an unsigned `len` never ends, is the state "crashed" (`ReadRunsAway`).
`IsOneTransaction` is the refinement, `Bus!Spec`. `PacketsAreFull` says how many
bytes each packet takes, in the form `Download` uses (`Piece`): with 43 for
`WrFirst`, 18 for `RdFirst` and 48 for `Pkt` its packets are these.

### `HexLoader` - `hex2bin`

A step per token of the file. Characters are abstracted: a token is bad, end,
other or data, a data token has an address, a count of its own claim, and the
bytes that follow. `ReadPastEnd` is a record that reaches behind the array: the
code has no bound there and the model ends ("overrun"). `ResultIsLoad` is what
the callers may take the result for, and what `Download` assumes of its `Loads`.

### `HexText` - the characters of a token

What `HexLoader` abstracts. `str2int8`, `dat`, `check_sum`, `Refused` and `Parsed`
are hex2bin's reading of a token, `AsRead` is `fscanf`'s of the file; `Line` is
what an assembler writes for a record. A digit is a number below `Radix`. A
character is a digit, the colon, any other visible one (`Blot`), or one of two
control characters: `Nul`, at which `strlen` ends the token, so that the
rest is neither checked nor summed up; and `Sub` (0x1A), at which a file opened
with "r" ends. A file is read as written, with one character changed to a visible
one or to one of those two (`damage`), or was not written by an assembler at all.

### `Download` - `mtp_cp1_test`, `mtp_cp2_test`, and the `sys_reset` of a pass

A step per exchange, through the phases power, load, unlock, write, flags, read,
compare, reset. What the loader may return is a parameter, `Loads`, with the
shape that `HexLoader` gives it (`LoadsAssumption`). The target has power,
registers, two memories and a `cursor`: the transaction that is open on the I2C
bus, its direction, its memory and the place of its next byte. The first packet
of a transfer has the START and the address and opens the transfer's own; later
ones go on with what is open; the last one has the STOP. A lost packet does not
advance the cursor, and what follows lands lower. When the last packet is lost
the transaction stays open, through a press and `i2c_power_on`, until a START
gets to the bridge: that of a register access, a flag word or a first packet.

An exchange goes one of six ways: "done"; "unsent", nothing reached the bridge
and nothing was read; "unread", the bridge acted and the reply was not read;
"wrong", the bridge acted and what was read is damaged or another exchange's
reply; "stale", nothing reached the bridge and an older reply was read;
"blocked", nothing reached the bridge and no reply is owed. The last one is
`Blocks`: `ReadFile` does not return, and only the end of the program ends the
download. `UsbExchange` says when "stale", "wrong" and "blocked" happen: after a
reply was left in the queue every exchange reads another one's, and one blocks
only when more requests were lost than replies left over.
What a failed read leaves for the caller to copy (`LeftOver`) depends on the
packet: 0x20 and 0x21 clear their bytes first, 0x22 does not.

### `Dialog` - `load_hex`, the window's start, and one press after the other

`Press` starts a download on the target as the last one has left it, with
whatever the named file holds by now (`Opened`); `load_hex` forgets the old name
and may be cancelled; `Swap` puts an erased chip into the socket; `Restart` is
the program killed at any exchange, a blocked one too, and the constructor of the
next start, whose own exchange may fail or block like any other.

### `Buttons` - the single-word and check buttons

A handler is a script of exchanges with the values its tests take for a failure;
`Handle` does the next one, and after the last the verdict is printed. `Press`
starts any button, `Swap` puts another chip, or none, into the socket. Words are
the values the handlers compare with: "0", "1", "halted" and "ones". A word
whose exchange failed reads as "0", because `i2c_bus_rd32` clears its bytes
before it asks. The handlers are pressed on a word of their own, not on one of
the registers. The target is what the scripts take it for: two registers unlock
it, the unlock register then reads as one, a reset locks it, a locked target does
not read as one, no target reads as all ones. The program may start with a target
in any state; without a chip or without power there is nothing in its registers.

### `Session` - the buttons over the queue

Every exchange of a handler is one of `UsbExchange`; what a reply left in the
queue carries is kept in `words`, and a later exchange takes it for its own
answer. How an exchange fails for `Buttons` is now a consequence: "unsent" and
"unread" when `ReadFile` fails, "stale" and "wrong" when the report read is not
the exchange's own or is damaged. `ButtonsSpec` is the refinement. `refused` counts what
`data_trans` reported and no handler looked at.

### `HidOpen` - `open_usb`, `OpenMyHIDDevice`, `close_usb`

A step per interface of Windows' list, one action for each way the loop body
can end. An interface is what the loop can tell of it. `hidHandle` starts
`Unset`: a variable never assigned, which as a result may be
`INVALID_HANDLE_VALUE` or not. `EnumerationFails` is a
`SetupDiEnumInterfaceDevice` that fails for another reason than the end of the
list: the loop goes round on the same interface.

## 3. The runs

| Run | Distinct states | What it shows |
|---|---|---|
| `session` | 1072562 | Two buttons pressed over the queue, up to three faults of every kind, the ids wrapping. The link: until a request is lost, or a left-over reply comes in with a damaged id, an accepted reply is the exchange's own (`AcceptedIsOwnIfSent`), and after a reply was left queued nothing is accepted (`StaysBehind`); until any call fails every exchange gets its own answer, whatever was damaged before (`DeliveredIsOwn`); `ReadFile` waits in vain only when more requests were lost than replies left over (`BlocksOnlyWhenOverdrawn`); an exchange with a report to come returns (`Completes`). The buttons: `CheckMeansUnlocked`, `HaltMeansHalted`, `OneLossIsNoticed`, `CleanPasses`; what they do is what `Buttons` allows (`ButtonsSpec`); a press returns unless a reply is waited for that nobody owes (`PressReturns`); and if the handlers asked `data_trans`, a pass would be true until then (`HeedingSuffices`). |
| `link_stale_accepted` | violation | Three failed calls in two exchanges, then two exchanges without faults. Exchange 1: `ReadFile` fails and leaves its reply, with id 2, in the queue. Exchange 2: `WriteFile` fails and its `ReadFile` too. Exchange 3, sent with id 3, reads the left-over and is refused; its id 2 is now in the buffer. Exchange 4 is sent with id 3 once more, expects 4, reads exchange 3's reply with id 4, and accepts it. |
| `crc16` | 945806 | Reports of three bytes, all damage within eight bits, up to four flips within sixteen, any three flips: `SumIsRemainder`, `BurstIsSeen`, `OddIsSeen`. |
| `i2c_packets` | 4712 | All six functions, all lengths to 200: `BytesInOrder`, `PacketFits`, `IsOneTransaction`; every packet takes what it has room for, and the last byte ends the call (`PacketsAreFull`); `Returns`. |
| `hex_files` | 507948 | All files of up to three records from seven, as written and with any one character changed, and all of up to three tokens from eighteen odd ones: `ImageIsFile`, `LengthIsEnd`, `RejectsBadFiles`, `ResultIsLoad`, `WrittenIsLoaded`, `OneWrongCharacterIsSeen` (of visible characters). |
| `dialog` | 3666945 | Two downloads, files chosen, changed and cancelled, chips exchanged, the program killed and restarted anywhere, up to three faults in each download: the verdict of one without faults is right whatever went before (`RetryRecovers`); a pass on bytes that the target itself returned means that this chip holds this image (`FreshPassMeansProgrammed`); only the image's words and the flag words are ever written (`WritesStayInside`; its guard, that not the whole prologue was lost, holds throughout this run); without a file nothing is (`CancelledTouchesNothing`); a file of less than a word, as a rejected one is, does not pass, though nothing tests for it (`ShortNeverPasses`: the read of its no words does not return, and its comparison, which would pass, is never reached). |
| `download_unheard_pass` | violation | The second of the image's three write packets is lost; the third lands at its address, and the end of the image is never written. The first two read packets return what is there, and it agrees with the image; the last one fails and leaves the bytes of the packet before, which are those the image has there: a pass without the image. No flag word lies inside the images of this run. |
| `download_tail` | violation | A file that is no whole number of words passes without its last bytes. |
| `download_rejected` | violation | A rejected file counts as a length of one: the target is unlocked, flag words are written, the read runs away. |
| `buttons_no_target` | violation | `sys_reset` prints pass with no target in the socket. |
| `hid_search` | 34084 | All lists of up to two interfaces, most of three: `OpenedIsBridge`, `BridgeIsFound`, `NothingLeft`, `Returns`. |
| `hid_no_interface` | violation | No HID interface at all: success with a handle that was never assigned. |

The six violations are disagreements of the code with its own messages and
comments; `PROJECT.json` quotes them under "findings". Every property of a
passing run has a mutated definition under "mutants" that breaks it.
The types are checked with the rest in `session` (`SessionTypeOK`, the
exchange's and the buttons' with it), `hex_files`, `hid_search` and `dialog`;
those of `Crc16` and `I2cTransfer` are proved (`TypeCorrect`) and no run repeats it.

### Why the bounds are enough

* *Session.* What can go wrong is a reply mistaken for another, which needs the
  ids to meet: `IdMod` is 5 and eight exchanges are started, so the id wraps,
  and the faults are fewer than the ids less one, as they are in the program
  (65536). Eight exchanges are the longest script, that of `sys_reset`, which so
  is only ever the first press; or two shorter presses: a reply left over by one
  is read by the next. `i2c_check` and `mcu_reset_halt` take nine between them
  and are not pressed to their end after each other; the theorems about the
  buttons have no bound. Three faults are what it takes for a reply to be
  mistaken: `link_stale_accepted` needs three failed calls, and a damaged id a
  failed call and a damaged report; so the properties that speak of the time
  before that are checked with what ends it. `link_stale_accepted` takes 16 ids
  so that the meeting is not the wrap's doing.
* *Check sum.* Forty bits with the sum leave room for sixteen in the bytes, in
  the sum and across the two. The theorems have no bound.
* *Transfers.* Headers and packets have their real sizes; 200 bytes are five
  packets, so every kind of packet occurs first, last and repeated, with every
  remainder. `AllLens` has every length, not a selection.
* *Loader.* With digits of one bit a byte has four values and the image sixteen
  bytes, the relation of the real sizes. Three records are two that overlap, in
  both orders, with a third anywhere, or an end; the odd tokens touch and cross the
  end of the image, claim other counts than they carry, have odd lengths, and have
  a control character in them.
* *Downloads.* First packets that are shorter than later ones, shorter for reads
  than for writes, and packets that cut through words keep the relations of the
  real sizes (43 bytes written first, 18 read, 48 later, words of four). The longest
  images take three packets each way. A flag word lies inside them, and they agree with it or
  contradict it. Three faults are one more than it takes to lose a write and
  what would have shown it. Two presses are one that fails and one that has to cope with
  what it left. `download_tail` and `download_rejected`
  have all images of up to nine bytes; `download_unheard_pass` has those of eight
  whose last packet repeats the one before, with the flag words outside them, so
  that a flag word over the image is not what the run finds.
* *Buttons without a target.* Two presses, no faults: the counterexample needs one.
* *Search.* Three interfaces are one before and one behind the bridge. Lists of
  three whose first two end the search at once are left out: the rest of such a
  list is never looked at.

### Fairness

* `Session`: weak fairness of `Reported`, `Read` and `Send`. The bridge answers
  what it was given, as `data_trans` takes for granted, a synchronous `ReadFile`
  returns once a report is queued, and a handler goes on to its next exchange.
  Nothing is assumed of the user.
* `I2cTransfer`: weak fairness of `Step`: the one thread keeps running.
* `HidOpen`: weak fairness of `GetClassDevs \/ Walk`. That enumeration calls
  fail only `MaxFailures` times is an assumption about Windows; if they failed
  for ever, the loop would never end.

The other specifications have no fairness, and only safety is claimed of them.

## 4. The proofs

The `_proofs` modules prove the following for every value of the constants that
the modules' assumptions allow. The assumptions only fix types and bounds, and
in `Download` the shape of what the loader returns.

Each proof takes the same course: an inductive invariant `IInv`, that holds
initially, is preserved by every action (a lemma per action), and implies the
property. What `IInv` adds to the property is what the code relies on without
saying so:

| Module | Theorems | What the invariant adds |
|---|---|---|
| `UsbExchange_proofs` | `TypeCorrect`, `AcceptedIsOwnIfSentHolds`, `StaysBehindHolds`, `DeliveredIsOwnHolds`, `BlocksOnlyWhenOverdrawnHolds` | The running request is the last in the queue (`OwnIsLast`) and what is ahead of it is older (`Older`); all ids in the queue lie within fewer than `IdMod` of it (`Window`), so that only its own can match, as long as no request was lost and no damaged id was taken over from a left-over; the queue's length is the balance of failed writes and reads (`Balance`), so while nothing fails the exchanges are in turn (`InTurn`). |
| `Crc16_proofs` | `TypeCorrect`, `SumIsRemainderHolds`, `BurstSeenHolds`, `OddSeenHolds` | The difference of the two registers, with the flipped bits still to come in their places (`Virtual`), is never empty: first it is the damage itself, moved; then it fits the register, and a turn of the inner loop takes only the empty register to the empty one, because the polynomial has its top bit set. A turn drops one bit and flips three, so a register keeps the parity of the bits it has seen (`CountKept`). Against the definition: the register is the sixteen terms the division has reached, those of bytes not yet read left out (`BothInStep`); a turn of the inner loop is one line of it (`TurnIsLine`), a byte taken in brings its terms in (`ByteTakenIn`). |
| `I2cTransfer_proofs` | `TypeCorrect`, `BytesInOrderHolds`, `PacketFitsHolds`, `PacketsAreFullHolds`, `ImplementsTransaction` | Between two packets the bus is held, the caller's pointer and the bus are in step, and what has been moved and what is left make `len` (`Boundary`). |
| `HexLoader_proofs` | of the tokens: `TypeCorrect`, `ImageIsFileHolds`, `LengthIsEndHolds`, `RejectsBadFilesHolds`, `ResultIsLoadHolds`; of the characters: `WrittenIsLoadedHolds`, `OneWrongCharacterIsSeenHolds` | Image and `max` are right for the tokens read so far (`ImageSoFar`, `MaxSoFar`), and at the end those are the ones that count (`Progress`); a bad token is the last one read (`BadIsLast`). Of the characters nothing changes (`Origin`), and the weight is in lemmas: the bytes that `Line` spells are the bytes hex2bin sums up and reads (`LineIsRead`); two lines of digits that both sum to zero do not differ in just one digit (`OneDigitCounts`), so that no line with one wrong visible character is a record (`ChangedIsBad`). |
| `Download_proofs` | of the window: `DialogTypeCorrect`, `RetryRecoversHolds`, `FreshPassHolds`, `WritesStayInsideHolds`, `CancelledTouchesNothingHolds`, `ShortNeverPassesHolds`; of one download: `TypeCorrect`, `HeardPassHolds`, `CleanVerdictHolds` | The cursor never runs ahead of the caller (`Place`); as long as all was heard it is in step, and what was read is the target's memory (`Heard`); as long as nothing failed the words written so far are in place, flag words on top (`Clean`, `InPlace`). None of it speaks of what the memory or the registers held before, which is why a press may start from anything. A transaction that an earlier transfer left open gets past the prologue only when all of it was lost, and past the first packet only when that was lost too (`Along`). |
| `Buttons_proofs` | `TypeCorrect`, `CheckMeansUnlockedHolds`, `HaltMeansHaltedHolds`, `OneLossIsNoticedHolds`, `CleanPassesHolds` | While a button runs without faults the target follows its script (`CheckFollows`, `HaltFollows`, `ResetFollows`); while `sys_reset` runs on an unlocked target a missing reset has been paid for with a lost exchange or a failed test (`LossesCount`). |
| `Session_proofs` | `ImplementsLink`, `ImplementsButtons`, `SessionTypeCorrect`, `SessionCheckMeansUnlocked`, `SessionHaltMeansHalted`, `SessionOneLossIsNoticed`, `SessionCleanPasses`, `HeedingSufficesHolds` | `words` has an entry for each reply left over, and these are of earlier exchanges than the running one (`Queue`); as long as nothing was refused every exchange so far was its own (`Heeded`). The rest is taken from the theorems about the two parts. |
| `HidOpen_proofs` | `TypeCorrect`, `OpenedIsBridgeHolds`, `BridgeIsFoundHolds`, `NothingLeftHolds` | What the interfaces passed so far were (`Passed`), and that the open handle is `hDev`'s (`Owned`). |

`AcceptedIsOwnIfSentHolds`, `StaysBehindHolds` and `HeedingSufficesHolds` speak
of the time until a request is lost or a left-over reply comes in with a damaged
id, and assume that fewer calls fail than there are ids less one. All three are
needed. Without the first, `link_stale_accepted` is the counterexample. Without
the second, this one: an exchange's `ReadFile` fails (id 1, its reply 2 stays
queued), the next one reads that reply with its 2 damaged into a 1 and fails, and
the third counts on from 1, is sent with id 2, expects 3 and accepts the second
one's reply 3. Without the third, so many replies are left over that the id comes
round. `DeliveredIsOwnHolds` needs none of them: while nothing fails the queue
never holds more than the running request.

`WritesStayInsideHolds` has a guard: at most as many failed exchanges as the
prologue has, so that one that is lost with all of its START conditions, and the
first packet with it, is not among them. What is then left on the bus is the
transaction of another transfer, with another address and possibly in the other
memory, and the image's later packets go there.

### Induction

Two definitions are recursive functions: the lines of the division
(`Crc16!Reduce`) and the sums of the loader's bytes (`HexText!Sums`). That such a
function is what its equation says, and what follows for every length, needs
induction over the naturals. The library's induction theorems have an operator
for a parameter, which the provers at hand cannot instantiate, so both modules
prove and use the form for sets: a set that holds 0, and with each number the
next, holds them all (`SetInduction`). It follows from the library's theorem
that the finite subsets of a set are well-founded under strict inclusion, a
number `n` being taken for `0 .. n`.

### Only model-checked

* Liveness (`Completes`, `PressReturns`, and `Returns` of a transfer and of the
  search): fairness and ENABLED are out of the prover's reach. Of a transfer,
  `PacketsAreFull` is proved for any length: no packet moves less than it can.
* The violations, which are about one behaviour each.

## 5. What is not modelled

* The download over the queue of reports, exchange by exchange, as `Session` does
  it for the other buttons: `Download` chooses "wrong" and "stale" freely, which
  allows all that the queue can do.
* Characters of device paths and of the two edit fields, white space inside a
  HEX record, which cuts it in two, tokens of 1024 characters and more, which
  overrun `buf`, and registers typed into the address field. `mem_read` and
  `mem_write` work on an ordinary word.
* That a download ends: it need not. After a `WriteFile` that failed `ReadFile`
  may wait for ever, and with no words to read the last transfer runs away; both
  are states of `Download` ("blocked", "crashed"), and no run claims that they
  are not reached.
* What a write packet does that gets to the bridge while a read transaction is
  open, or the other way round, is the bridge's affair: here it moves nothing.
* What stores behind the end of an array do to the frame they hit; the models
  end there.
* The meaning of the target's flag words and clock registers: they are written
  where the code writes them.
* Times. `_delayms(100)` in `sys_reset` is for the target, which is reset at
  once here.
* Heap memory: the two `continue`s of the search that leak a block, a `malloc`
  that fails, and a Windows call that changes `GetLastError` on success.
* The shell, the progress bar, the console, `init_srand`, and the empty handlers,
  which change no state that any of this depends on.
* `usb_inc/` and `usb_lib/`: 8715 of the repository's 11430 lines are declarations
  of Windows' HID and SetupAPI interfaces, copied from its development kit. They
  have no behaviour to model. The program's own code is some 1650 lines, of which
  what is left unmodelled is the shell; a share of the whole tree says nothing
  about it.

## 6. Order of the work

`UsbExchange`, `I2cTransaction` and `I2cTransfer`, `HexLoader`, `Download`, `HidOpen`
and `Buttons` came first, each with its run and proofs; then `Crc16`, which
discharges `intact`; `Session` and `Dialog`, which compose them; and `HexText`.

What could follow is the download over the queue (a refinement of `Download`'s
exchange, as `Session` is of `Buttons`'s), and typed addresses for `mem_read` and
`mem_write`.
