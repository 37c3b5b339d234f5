# espshell: specifications, model checks and proofs

espshell is a firmware base for ESP32 chips that serves one encrypted command
shell over TCP, and `esp-ctl`, the host program that talks to it.  This
directory holds TLA+ modules translated from that code, TLC configurations that
check them on small instances, and proofs that TLAPS checks for every value of
the constants.  `PROJECT.json` ties every definition to the lines it models.

Paths below are relative to `src/components/core/src/` unless they say
otherwise.

## The system

| part | state it keeps | operations | talks to |
|---|---|---|---|
| session server (`net.c` 216-524) | `s_client_fd`, `s_authed`, `s_sess`, `s_tx_mtx`, static frame buffer | accept, `do_handshake`, `session_loop`, `send_frame`, teardown, logger pump | every task that emits events (shared memory, one mutex), the dispatcher (call), `ota_abort` (call) |
| Wi-Fi and listener (`net.c` 69-211, 431-499) | connected bit, `s_online`, back-off | event handler, `net_reconnect`, socket/bind/listen retries, accept errors | event loop, session server |
| frame protocol (`proto.c`, `tools/esp-ctl/src/proto.c`) | key, `tx_seq`, `rx_seq`, `established`, on each side | init, encrypt, decrypt, wipe | each other, over TCP |
| authentication (`auth.c`) | the token in RAM | boot, verify, derive key | configuration store, session server |
| configuration (`cfg.c`, `CFG_*`, `WIFI_SET`) | NVS | get, set, delete, list, erase | authentication, Wi-Fi, restart timers |
| dispatcher (`cmd.c`) | command table, last error code | register, tokenize, dispatch | every command handler; `project_init` in the main task (shared table, no lock) |
| update (`ota.c`) | `ota_state_t`; in flash, two slots and the boot data | begin, data, end, abort, rollback | IDF update API, boot loader, session teardown |
| logger (`logger.c`) | queue of 32 lines, level, stream flag | log, drain | all tasks, pump |
| health, ADC and UART streams | one task each, start/stop flags | periodic | `net_send_event` |
| GPIO watch (`periph_gpio.c`) | table of pins, event queue, interrupt handlers in the driver | watch, unwatch, mode, set; interrupt; watch task | driver, interrupt, `net_send_event` |
| PWM, DAC, ADC reads, I2C, SPI | tables of driver handles | a few driver calls per command, each of which may fail | drivers |
| file system (`fs.c`) | mounted flag; files in flash | write, delete, format, mount on demand | SPIFFS |
| esp-ctl (`tools/esp-ctl/src/`) | socket, session, profile | connect, handshake, one-shot, shell, logs, OTA upload, discover and profiles | the firmware; the network; `devices.toml` |

What is hard in it:

* **Tasks share the session without sharing a lock.**  `s_tx_mtx` serialises
  `send_frame` and nothing else; the server task sets, wipes and re-initialises
  the same record, and clears the descriptor, while an event producer may be in
  the middle of a frame.
* **A single slot.**  One client at a time: every way a peer can disappear must
  give the slot back.
* **A hostile network under a sequence-number protocol**, with two
  implementations that must agree on caps, directions and counters.
* **Updates that survive power loss** and every failure of flash, hash and API.
* **Start/stop flags of the streaming tasks**, restart timers, NVS erased under
  an open handle, a token and a Wi-Fi configuration cached in RAM.
* **Tables beside the drivers they describe**: a command makes several driver
  calls, any of which fails after the others took effect, and an interrupt reads
  what a command is changing.
* **A network that comes and goes** under one listening socket.

What makes each part correct, and how that is covered, is in the table of runs;
parts with no module yet are listed, with the reason, under "Not modelled".

## Modules

| module | kind | models |
|---|---|---|
| `Session` | detailed, concurrent | `net.c` 216-524 and `proto_frame_encrypt`: server task, pump, event producers, at the grain of single loads and stores of shared state |
| `MCSession` | instances | two connections, pump and one producer |
| `SessionProofs` | proofs | inductive invariant of `Session` |
| `Streams` | abstract | what an encrypted session promises: two ordered streams |
| `SecureChannel` | detailed | both `proto.c`, the key derivation, the receivers' rules, a hostile network |
| `MCSecureChannel`, `ChannelProofs` | instances, proofs | |
| `Ota` | detailed, with crashes | `ota.c`, the abort in the session's teardown, the restart timer, the boot loader |
| `MCOta`, `OtaProofs` | instances, proofs | |
| `Provisioning` | with crashes | `auth.c`, `cfg.c`, `wifi_start`, `CFG_SET`, `CFG_DEL`, `WIFI_SET`, `REBOOT`, `FACTORY_RESET` over restarts |
| `MCProvisioning`, `ProvisioningProofs` | instances, proofs | |
| `EventStreams` | concurrent | start and stop in `periph_uart.c` and `periph_adc.c`, the streaming tasks, `UART_INIT` |
| `GpioWatch` | concurrent, with an interrupt | `periph_gpio.c`: the watch table, the handlers and interrupt types in the driver, `on_gpio_isr`, the queue, `watch_task` |
| `EventProofs` | proofs | of `EventStreams` and `GpioWatch` |
| `Logger` | concurrent | `logger.c` and the pump of `net.c`: two settings, the tasks that log, the bounded queue |
| `Listener` | concurrent, with failures | `on_wifi_evt`, `net_reconnect`, `tcp_server_task` around its sessions |
| `Dispatch` | concurrent, and pure | `cmd.c`: registration beside a search of the table, `tokenize`, the reply |
| `Drivers` | with failures | the tables of `periph_i2c.c`, `periph_spi.c`, `periph_pwm.c`, `periph_dac.c`, and `ensure_channel` of `periph_adc.c` |
| `Fs` | with crashes | `fs.c` over SPIFFS |
| `Discovery` | host side, mostly pure | `discover.c`, and `profile_load` of `profile.c` |
| `TextProofs` | proofs | of `Dispatch` and `Discovery`, and the induction they need |
| `MCDeviceParts` | instance | `EventStreams` and the seven modules above, one at a time |
| `DeviceProofs` | proofs | of `Fs`, `Listener`, `Drivers` and `Logger`, and of all the parts together |
| `Upload` | abstract | what the exit status of `esp-ctl ota upload` promises |
| `EspCtl` | composes `Ota` with the client | one-shot, shell, logs and upload of `tools/esp-ctl/src/esp-ctl.c`; the reply loop of `net.c` 403-419 |
| `MCEspCtl`, `EspCtlProofs` | instances, proofs | |

Each detailed module has a section "Faults": what one of its definitions would
be with a plausible slip.  They are not part of any specification; the
mutation entries of `PROJECT.json` put them in place of the definition to see
that the property named with them notices.

### Session

State and code: `s_client_fd`, `s_authed`, `s_sess`, `s_tx_mtx` and `buf` are
the statics of `net.c` (60-64, 255).  `pc`, `ok`, `rd`, `wfd`, `cfd`,
`attempt` are the tasks' locations and locals.  `sock`, `link`, `line`,
`frames` are the TCP stack and what it carried.  `nonces` and `overlap` are
history: what was sealed under each key, and whether a teardown began while
some producer was past its check.

`send_frame` is ten steps: take the mutex, test the session, build the header
from `tx_seq`, seal with the key, load and store `tx_seq`, read the descriptor
again, write, give the mutex.  The server task is `accept`, the handshake
(`hello`, `auth`, `reject`, `cooldown`, `keygen`, `okline`), `enter`, `recv`,
and the four stores of the teardown (`out1` to `out4`).  A connection stands
for its session key as well, because the server's nonce is fresh for each
attempt.  A frame that does not fit returns before it touches anything and is
left out; a write that fails in the middle of a frame is a failed write, since
the stream is of no use to the peer afterwards.

### SecureChannel

A frame on the wire is the key and nonce it was sealed under, the number in
its header, its line, and whether its bytes are intact.  The AEAD is ideal.
`Accepts` is the receiver's three tests in the order of the code: length cap,
sequence number, decryption with the peer's direction byte.  Each program has
caps of its own: the firmware's are options of its build (`MaxLine`, `MaxResp`),
those of `esp-ctl` are fixed (`CtlLine`, `CtlResp`), and nothing ties one to the
other; the first line of a `do_logs` session goes into a smaller buffer
(`AckCap`).  `Refuse` ends the session, as both programs do.  `Network` loses,
duplicates, reorders, alters, reflects frames and replays those of earlier
sessions.  `IsStreams` is the refinement of `Streams` by the two histories.

### Ota

One action per command handler, because the handlers run one after the other
in the server task; `DataFails`, `EndFails`, `BeginRefused`, `BeginNoHash` are
the error paths, each with the state it leaves.  A slot is its sectors, each with
what belongs there in some image or something else: `esp_ota_begin` erases the
sectors of the announced size only, so behind a short upload lies what was there
before, and a handle writes on from its offset.  An image in a slot counts as whole
by the length in its own header (`Holds`), as the IDF takes it.  `ArmRestart` may
leave the timer unarmed, since `c_end` looks at the result of neither call.  `Boot`
is the boot loader with `CONFIG_BOOTLOADER_APP_ROLLBACK_ENABLE`
(`src/sdkconfig.defaults:12`) on the two records of the boot data, the slot
selected last (`boot`) and the image state of each slot (`state`): an image still
unconfirmed from its first boot is given up, and the other slot booted.  That, and
the update API, are external: modelled from how `ota.c` uses them.  `chosen` and
`origin` are history: the slot selected last, and how each slot came by what it
holds.

### Provisioning

`nvs` is the store under the three keys whose values the firmware itself uses;
`s_token`, `sta` and the armed timers are what RAM and the drivers hold.  One
action per handler, for the same reason as in `Ota`; `WifiSetHalf` is the
second of `WIFI_SET`'s two writes failing, or power failing before it.  `Boot` is `cfg_init`, `auth_init`
and `wifi_start` in the order of `core_init`, on the store as found or, when
`nvs_flash_init` cannot use its pages, as erased; `BootCutOff` is a power failure
after `auth_init` stored a fresh token and before it printed it.  A value has a name
and a length, which is all its checks look at: the buffers at boot, the least length
of a token, the longest value, and what `wifi_start` copies to the driver.  `Cut` is a
string's first characters, where the code keeps no more: 31 of an SSID and 63 of a
password (`Given`), 128 of a compile-time token, which is stored whole.  `open` says whether the handle `cfg.c` keeps is
still valid, which an erasure ends (external: IDF closes the partition first).
A boot may be of a firmware built with other compile-time defaults, since the
store outlives reflashing.  `asked`, `joining`, `shown`, `untold`, `said` and
`erased` are history: what clients stored, what they were told and what nobody was.

### EventStreams

One flag and one handle per channel, shared without a lock by the server task
and the channel's own task.  A start is three steps (test the handle, set the
flag, create the task), `UART_INIT` two; the task loops through `test`, `read`,
`emit` and, for an ADC channel, `delay`, and leaves by clearing its handle.  A
task that fails to be created leaves the flag set.  `UART_INIT` frees the driver
under a task that may be inside it, which is undefined: the call then returns
an error, or the device panics and starts afresh (`Panic`); memory corrupted
without either is beyond the model.  The set-up of an ADC channel only ever
succeeds once and is left out.

### GpioWatch

`s_watch`, `s_isr_svc` and `s_evt_q` are the statics of `periph_gpio.c`;
`isr_service`, `handler`, `trigger`, `level` and `pending` are the driver and the
pins, external.  `GPIO_WATCH` is three steps, as its driver calls are: choose the
slot, install the service and set the interrupt type (`Watch`); remove the old
handler (`RemoveOld`); add the new one and write the slot, or fail (`AddHandler`,
`AddFails`).  An edge sets `pending` when type and handler call for it;
`on_gpio_isr` reads the level when it runs, not when the edge was (`EnterIsr`), and
queues it or loses it to a full queue (`SendFromIsr`).  `watched`, `kept`
and `seen` are history: the pins answered OK for, those of them that have had an
edge since and lost no event after it, and the level in the last event sent of
each.  The answer is a bare OK, so it sets no level; an event of an earlier watch
may still follow it, and then counts like any other.

### Logger

A line is its level.  `logger_log` is three steps, its test of `s_level`, its
test of `s_stream` and `xQueueSend`; `LOG_LEVEL` and `LOG_STREAM` may fall
between any two.  The pump holds one line between `logger_drain` and `send_frame`.
`lateLines` counts what was sent since the last change although the settings
refuse it.

### Listener

`s_online` stands for `WIFI_CONNECTED_BIT` too.  The station is the driver's, its
events are queued and handled later, so a handler may see a disconnection of a
link that is up again.  `at` is the place of `tcp_server_task`: wait for the
address, `socket`, `bind`, `listen`, each with its failure and its delay, then
accept, session, or the pause after a failed accept.  `lsockDead` is a listening
socket that no longer works, which no code path reopens.

### Dispatch

The table is written entry by entry, name, handler, then count, by the main task
(`project_init` comes after `core_init`), while the server task searches it.
Stores are taken in program order; on the two-core chips another order is not
excluded by anything in the code, and is left out.  `Scan` works on the memory
of the line as `tokenize` does, with its two pointers and the NULs it writes, a
character at a time; `Words` reads the words off the line without touching it, and
`ReplyIsOwn` compares them.  A name is refused for its length before anything else
(`CheckName`).  A character is one of four classes, since the code
tells no others apart.

### Drivers

Each table beside what the driver holds: `s_bus` and `buses`, `s_dev` and
`spi_devices`, and so on.  A command is one step with the outcomes its calls can
have, except an I2C transfer, which attaches and detaches a device around it.
PWM channels share timers (`TimerOf`); `settled` is history: the channels whose
timer nobody else set since they did.  `Steps` is the shift `1U << res`, for the
resolutions `PWM_INIT` takes.

### Fs

A byte of a file is the `FS_WRITE` it came from.  `fopen` with "wb" empties the
file; the bytes then reach the flash one by one until the close, with the power
failing between any two.  A mount may find the partition unusable, which formats
it.

### Discovery

An answer is the sequence of its records after decompression; one without a name
is listed as "espshell".  Names and texts are printed as they came: `Breaks` gives,
for those with a newline in them (or a "]" in an instance's name), the lines they
make of the output, which `Section` puts where the text stands.  `Hear` is
`parse_response` with the loop of `do_discover` around it, `Printed` the text it
prints, `Paste` what the user does with it, `profile_load` the reader.  `Noting`,
`Printing` and `Loading` are the three loops, each a function of how many records,
devices or lines it has taken.  `Says`, `Address` and `Port` read an answer as a
whole, and are what `ListedCanBeLoaded` compares the loops with.

### MCDeviceParts

These parts share no state with one another, so their interleavings would
multiply states and show nothing.  The instance runs one of them, the `focus`,
from its initial states, while the others rest; fairness is that of the focus.
Where a part does share state, it is in the module of what it shares it with:
the streaming tasks, the watch task and the pump are Senders of `Session`, and the
reply loop is in `EspCtl`.

### EspCtl

The device is `Ota`, with its actions driven by one client.  The transport is
what `Streams` promises: what arrives of `toDev` and `toCli` is what was sent,
in order.  The server task takes a command, runs its handler and holds the reply
in `answer` until `send_frame`, two steps with a restart possible between them;
anyone may add an event in between.  `link` is "up", "cut" (the other end can
tell) or "silent" (a device that went down, a network that stopped carrying).
`sub` is the subcommand, `asked` the reply it waits for, `stage` and `sent` the
locals of `do_ota_upload`.  Runs of the client follow one another; the device
stays as the last one left it.  What a user types in a shell or as a one-shot is
limited to commands that share the upload's state (`OTA_DATA`, `OTA_END`,
`OTA_ABORT`, `OTA_ROLLBACK`) and one that shares nothing (`PING`).  A file may
spell an image or nothing, and may be too large for the slot; it is sent in
chunks, the last one short.  `IsUpload` is the refinement of `Upload` by the
exit status, with `done` and `installed` as history of what `OTA_END`
committed.

## Runs

Passing runs:

| run | bounds | what it shows |
|---|---|---|
| `session_safety` | 2 connections, 2 descriptors, pump and producer, 4 sends, 2 attempts; symmetric in connections and descriptors | Types, and: `InOrder` (every client reads OK, then frames 0, 1, 2... under its own key), `NonceOnce`, `AuthedCoherent`, `FdNeverStale`, `NoKeyOutlivesSession`. Four sends let one client's late frame meet the next client's handshake and first frames; two attempts take both branches of the attempt loop. |
| `session_liveness` | the same with 1 descriptor, 2 sends, no symmetry | `SlotReleased`, `SendersReturn`. |
| `channel` | 2 sessions, 2 frames each way and session, 3 in all, 1 in flight per end | `PrefixDelivered` and the refinement `IsStreams` against loss, duplication, reordering, alteration, reflection, and replay of one session's frames in the next. The history of sealed frames can be injected at any time, so one place on the wire is enough to reorder; three frames are two of one session to swap and one of the other. `NothingRefused`: until the network interferes, and with a firmware built for `esp-ctl`'s caps, caps, counters and directions of the two programs agree but for the first line of `do_logs`, which has the smaller `AckCap`: a reply or an event may be too long for it, a command may not be as long. |
| `ota_update` | 2 slots of 2 sectors, an image of 1 and one of 2, 4 handles, 6 boots | `HandlesMatch`, `CountsAgree`, `UploadContained`, `RunsVerified`, `NeverBricked`: the bounds leave room for commit, boot, fall back, and an upload into the slot given up, aborted, rolled back to or committed and booted in its turn. A size of one sector leaves what the other holds unerased behind a short upload. `CommitBoots`: once the timer is armed, what was selected is booted, unless another upload goes over it. |
| `provisioning_safety` | per limit a value that meets it and one that passes it by one; 2 generated tokens, 3 builds | `TokenTold`, `RotationHolds`, `ResetForgets`, `BootsSaved`. Lengths are scaled down, their order kept. Two generated tokens give a boot that loses its token, or is cut off, a second one to make; the builds are one without compile-time defaults, one with a token, and one whose token and SSID pass the buffers. |
| `esp_ctl` | 3 runs of the client, 3 begun uploads, 2 restarts, 2 lines under way when an event is added; files of 2, 3 and 4 bytes for a slot of 3, chunks of 2 | `OneReplyEach`, `OffsetsAgree`, `UploadEnds` and the refinement `IsUpload`. The good file takes a whole chunk and a short one; of the others one fails verification and one does not fit. Three runs give an upload a predecessor that left something behind and a successor that finds what it left. |
| `device_parts` | one part at a time: a port and an ADC channel with 3 tasks; 2 pins, 2 slots, a queue of 1; 2 logging tasks, 2 levels, a queue of 2; WIFI_RECONNECT while fewer than 3 events wait; 3 table entries, every line of up to 4 characters, and a command with up to 4 more, 2 words; a port, a host and one or two channels of each driver, 2 PWM channels on one timer; 2 paths, files of 3 bytes, 3 writes; answers of up to 2 records, or of 3 of different types, those without a name and those with a newline in a name, a host or a text included, 3 answers, 2 devices | `OneTaskEach`, `StartHolds`, `StopEnds` (streams): a third task lets a second one on a channel exist if the code allowed it. `TablesAgree`: the watch table and the drivers' tables name what the drivers hold, whichever call failed. `LastEventCurrent`: from the first edge after the answer on, the last event of a watched pin tells its level; with a queue of one it overflows, two pins fill it for each other, and one event of an earlier watch can be in it and another in the interrupt. `LateEvents`: what still arrives after a stop, a LOG_LEVEL or a LOG_STREAM. `ReplyIsOwn`: four characters after a command make a quoted argument with an escape in it, or a word more than there is room for, and the project registers a new name, none, one too long, one that is taken and one too many. `OneWriteEach`: three writes are two of one file with one of another in between. `ListedCanBeLoaded`: the records of an answer in every order, duplicates, a full list, files with an older section of the same name, and texts that write a section of another device, a port, or the end of their own. `ReachableAgain`: the device is reachable again after any failure. |

Runs that find a violation, each a disagreement between the code and what the
repository says of it:

| run | property | what happens |
|---|---|---|
| `session_teardown_race` | `StreamWellFormed` | A producer passes the test at `net.c` 262; the client leaves, the server wipes the session and serves the next; the producer resumes and its frame, or its increment of `tx_seq`, lands in the new session. `session_safety` checks the same property with that overlap as its only proviso. |
| `ota_verified` | `RunsOnlyVerified` | `OTA_ROLLBACK` boots an image that was uploaded whole and never verified. |
| `ota_stays` | `UpdateStays` | Nothing marks the new image valid, so the second boot gives it up. |
| `provisioning_saved` | `SavedIsUsed` | In station mode `WIFI_SET` reconnects with the credentials of the last boot. |
| `esp_ctl_sigint` | `CtrlCStops` | A Ctrl-C taken while `do_logs` is inside `recv` sets `g_stop`, which nothing looks at until another line comes; from a device that vanished none comes, and `recv` has no timeout. |

Deadlock checking is off where bounds on sends, frames, uploads and boots end
the behaviours and an idle device is a legal last state;
`provisioning_safety` and `device_parts` are checked for deadlock: in them every
part always has a step left.

### Observed while modelling

Smaller disagreements that the modules show and no run of its own reports:

* `ERR 8 busy` is never sent: the test at `net.c` 484 runs in the task that
  serves the session, so a second client waits in the listen backlog
  (`Accept` of `Session`).  `docs/TUTORIAL.md` 262 lists the error, and its
  section 8 (169-192) follows the logs in one terminal while it types commands in
  another, which stay unanswered until the first one leaves.
* `do_logs` takes the first line for the acknowledgement of `LOG_STREAM`,
  whether it is an event or an error (`esp-ctl.c` 354-357; `TakeLogs` of
  `EspCtl`).  It has room for 255 bytes: a longer event that overtakes the
  acknowledgement ends the command (`FirstOfLogs` of `SecureChannel`).
* `docs/protocol.md` 98-102 fixes one cap per direction; the firmware's are
  `CONFIG_ESPSHELL_MAX_LINE` and `CONFIG_ESPSHELL_MAX_RESP` (`Kconfig` 9-19), those of
  `esp-ctl` are 1024 and 4096 (`tools/esp-ctl/src/proto.h` 25-26).  A firmware built
  with a smaller line or a larger reply ends sessions over legal frames
  (the antecedent of `NothingRefused`).
* `OTA_END` answers "committed, rebooting" whether its timer could be created and
  started or not (`ota.c` 166-171; `ArmRestart`).
* An upload shorter than the image it begins with can be committed: what lies behind
  it in the slot was not erased, and `esp_ota_end` verifies the whole
  (`origin` "short" of `Ota`).
* `OTA_BEGIN` advertises `chunk_max=502` (`ota.c` `c_begin`) and `esp-ctl` sends
  504 bytes at a time; the device takes both (`ChunkMax`).
* `esp-ctl` sets neither keepalive nor a receive timeout: a device that vanishes
  leaves it waiting (`link = "silent"`, the proviso of `UploadEnds`).  Its shell
  does not read at the prompt, and is then the peer that has "stopped reading" of
  `SendersReturn`.
* `proto.h` 10 says a rejected client's connection closes; `net.c` 366 sends a
  fresh HELLO, up to the attempts `docs/protocol.md` 52-55 names (`Reject` of
  `Session`).
* A token of 129 to 255 characters is accepted by `CFG_SET`, does not fit
  `auth_init`'s buffer (`auth.c` 38), counts as an empty slot and is overwritten
  by a generated one; `auth.h` 21 generates "if the slot is empty" (`Stored` of
  `Provisioning`).  `TokenTold` covers the outcome.
* Power lost after `auth_init` stored a fresh token and before it printed it leaves a
  device whose token nobody knows: the next boot loads it and prints nothing
  (`auth.c` 60-64; `BootCutOff`, `untold`).
* A compile-time token of more than 128 characters is cut in RAM and stored whole
  (`auth.c` 46-49), so it does not let its owner in, and the next boot cannot read it
  back (`DefaultToken`; the second exception of `TokenTold`).
* `WIFI_SET` takes an SSID of 32 characters and a password of 64; the driver is
  given 31 and 63 of them (`net.c` 177-178; `Given`, the
  condition `Whole` of `BootsSaved`).
* `docs/TUTORIAL.md` 263 says to reconnect after a token change; the token in RAM
  changes at the next boot only (`CfgSet`).
* `FACTORY_RESET` reports "nvs erased" whatever `nvs_flash_erase` returned
  (`cmd_builtin.c` 133; second case of `FactoryReset`).
* `REBOOT` on an armed timer answers with its own delay and leaves the first
  (`cmd_builtin.c` 126; the model keeps no delays).
* `UART_STREAM ON` answers OK while the task of an earlier stream is winding
  down, and nothing streams afterwards (`periph_uart.c` 106; a start that finds
  a task changes nothing in `EventStreams`).
* A task that cannot be created is reported as a running stream
  (`periph_uart.c` 109, `periph_adc.c` 120; `CreateFails`).
* After a failed second `UART_INIT` the port still counts as set up
  (`InstallDriver`).
* `cmd.h` 54 says `cmd_dispatch` returns -1 when the reply does not fit; it
  returns what `snprintf` would have written, so the "response overflow" of
  `net.c` 415-418 is never sent and a long reply is cut.  `cmd.h` 45 calls the
  error code task-local; it is one static (`cmd.c` 29), which only the server
  task uses.
* `core.c` 41 registers "all commands BEFORE the network task"; `project_init`
  runs after `core_init` (`main/main.c`) and registers while the task serves
  (`Register` of `Dispatch`).
* `periph_pwm.c` 2 speaks of one timer per resolution and frequency; the timer is
  the channel's number modulo `LEDC_TIMER_MAX`, and `PWM_INIT` on one channel
  changes both under another (`settled` of `Drivers`).
* Results nobody looks at: `gpio_install_isr_service` (`s_isr_svc` stays set, and
  every later `GPIO_WATCH` fails), `gpio_config`, `i2c_del_master_bus`,
  `esp_wifi_connect`, and the `fclose` of `FS_WRITE`, where SPIFFS may find the
  flash full.
* `GPIO_MODE` on a watched pin leaves it in the table without an interrupt, and
  `GPIO_WATCH` drops a pull-up an earlier `GPIO_MODE` set.  An event queued before
  a pin is watched again may follow the answer, which tells no level: until the next
  edge a client cannot know it (`LastEventCurrent` begins there).
* `SPI_INIT` with other pins answers OK and keeps the bus on the first ones
  (`SpiInit`).
* `FS_FORMAT` clears `s_mounted` and leaves the partition registered, so
  `ensure_mount` warns from then on and the commands work all the same
  (`EnsureMount`).  A mount that fails formats (`format_if_mount_failed`): one
  failure loses every file.
* When `accept` fails for a reason of the socket's own, the loop at `net.c` 477
  retries on it for ever and the listener is never reopened: the exception in
  `ReachableAgain`.
* The back-off reaches 32000 ms before its cap of 30000 takes hold (`Doubled`).
  `IP_EVENT_STA_LOST_IP` has no handler.  A firmware built without a stored SSID
  and without the soft access point waits for an address that cannot come
  (`ListenerInit` takes the access point as built in).
* `discover` prints an instance's name, its host and its TXT as they came
  (`discover.c` 227-231).  A "]" in a name makes a section that cannot be loaded; a
  newline in any of them begins a line `profile_load` reads like the others, of that
  section or of one it opens itself (`Breaks` of `Discovery`; `Plain` in
  `ListedCanBeLoaded`).  An answer that carries several instances mixes their records
  (`Note`); `profile_free` frees the token without wiping it.

### Fairness

`Session`: weak fairness of the server task's own steps and of each producer
inside `send_frame`.  FreeRTOS runs every ready task, and the waits inside
these steps end by themselves: the receive timeout, the cool-down delay, the
keepalive.  Nothing makes a peer read, send or leave, nor a producer produce;
so `SendersReturn` is conditional on no peer having stopped reading for good,
and `SlotReleased` on the peer being gone.  Weak fairness of a sender waiting for the
mutex is enough only because the bound on sends leaves it alone in the end;
what the run shows is that no path keeps the mutex.

`EventStreams`: weak fairness of each streaming task, whose read, delay and
event all end.  No command is fair.

`Listener`: weak fairness of the event loop, of the driver's answer to an attempt
(`Associate`, `GetAddress`), of the second call of `net_reconnect`, of the server
task's own steps, and of keepalive ending a session whose peer is gone.  No client,
failure or disconnection is fair.  `ReachableAgain` is about what follows `calm`,
from which on nothing fails: attempts that fail for ever keep any device
unreachable.  It excepts a listening socket that died, which the code never
replaces (see below).

`EspCtl`: weak fairness of the client's next step, of the server task's three
(run a command, reply, tear down a broken session) and of some event, since the
health report is periodic.  No user action, break or restart is fair.
`UploadEnds` excepts a silent link.

`Ota`: weak fairness of the armed restart timer and of the boot loader.  That
`OTA_END` arms it is not assumed, and no client action is fair.

## Proofs

Nothing but the named assumptions of the modules (`SessionAssumption`,
`ChannelAssumption`, `OtaAssumption`, `ProvisioningAssumption`,
`StreamsAssumption`, `EspCtlAssumption`, `GpioAssumption`, `LoggerAssumption`,
`FsAssumption`, `DriversAssumption`, `DispatchAssumption`, `DiscoveryAssumption`)
is assumed.  They say that the sets of model values are disjoint,
that sizes and bounds are naturals, that there are exactly two OTA slots, that the
factory image fits its slot, that generated tokens fit the buffer they are made in
and what is cut off a string leaves as many characters as asked for, that `do_logs`'
first buffer is no larger than its others, that finitely many tasks log, that the
built-in commands fit the table and their names its entries, that a PWM resolution
has 1 to 14 bits, and that the values of a record are not the mark of a missing one.  (`ListenerAssumption` is evaluated
by TLC; no proof needs it.)

| theorem | says |
|---|---|
| `SessionProofs`: `TypeCorrect`, `StreamInOrder`, `NoncesUnique`, `AuthedIsCoherent`, `KeyIsWiped`, `FdIsOpen` | every invariant of `session_safety`, for any number of connections, tasks, sends and attempts |
| `ChannelProofs`: `TypeCorrect`, `PrefixOnly`, `ImplementsStreams`, `NoFrameRefused` | every property of `channel`, the refinement included |
| `OtaProofs`: `TypeCorrect`, `NoHandleLeaks`, `CountsAreExact`, `UploadIsContained`, `RunsVerifiedOnly`, `AlwaysBootable` | every invariant of `ota_update` |
| `EspCtlProofs`: `CtlTypeCorrect`, `RepliesArePaired`, `OffsetsMeet`, `ImplementsUpload` | every safety property of `esp_ctl`, the refinement included, for any files, chunk size and bounds |
| `EspCtlProofs`: `DeviceIsOta` | the device in that composition implements `Ota`, so the theorems above hold of it |
| `ProvisioningProofs`: `TypeCorrect`, `TokenIsTold`, `TokenRotates`, `ErasureHolds`, `SavedIsJoined` | every property of `provisioning_safety`, for any values, lengths and limits |
| `EventProofs`: `TypeCorrect`, `AtMostOneTask`, `StartIsKept`, `StopIsPrompt` | the invariants of the streams in `device_parts`, for any number of channels and tasks |
| `EventProofs`: `GpioTypeCorrect`, `WatchTableHolds`, `LastEventIsLevel` | for any pins, slots and queue length, the invariants of the watched pins |
| `DeviceProofs`: `FsTypeCorrect`, `NoMixedFile` | for any paths, sizes and writes, what `device_parts` checks of files |
| `DeviceProofs`: `TablesHold`, `DriversTablesMatch`, `DriversTypeCorrect` | for any ports, hosts, channels, timers and resolutions, each table names what its driver holds, and the duty of a PWM channel alone on its timer is within its resolution |
| `DeviceProofs`: `LoggerTypeCorrect`, `FewLateLines` | for any tasks, levels and queue length, how many refused lines follow a change of the settings |
| `DeviceProofs`: `ListenerTypeCorrect` | no listening socket leaks on any retry, and an idle station always has something under way that connects it |
| `TextProofs`: `TokenizeCorrect` | for every line of any length and any limit on the words, `tokenize` yields the first words of the line as `Words` reads them |
| `TextProofs`: `DispatchTypeCorrect`, `DispatchReplies` | for any commands, lines and bounds, `ReplyIsOwn` |
| `TextProofs`: `DiscoveryTypeCorrect`, `ListedDevicesLoad` | for any records, answers, tokens and earlier contents of the file, `ListedCanBeLoaded` |
| `DeviceProofs`: `EachPartRuns`, `PartsTypesCorrect`, `PartsTablesAgree`, `PartsLateEvents`, `PartsInvariants` | the instance `device_parts` checks behaves, seen from each part, as that part's specification; so every invariant of the run holds of it, for any constants |

The arguments:

* **Session.**  `InOrder` says nothing about a frame half made.  `Inv` adds
  `MutexInv` (the holder of the mutex is the one task inside `send_frame`),
  `ServerInv` (what each location of the server task implies about descriptor,
  flag, key and sockets), `FreshInv` (a connection still in its handshake has
  no frames), and `StreamInv`: at each step of a frame in progress, how
  `tx_seq`, the buffer, the nonces sealed and the frames written relate.  The
  last two hold only while no teardown has overlapped a frame; the coherence of
  flag, descriptor and key does not need that proviso and is proved without it.
* **Channel.**  `Counters` equates each live counter with the length of a
  history; `Provenance` says a sealed frame holds the line its sender's history
  has at that number, and that the wire carries only sealed frames.  A frame
  accepted at `rx_seq` is then the next line of the peer's history, whatever the
  network did.  For `NoFrameRefused` the wire of a live end is described in
  full: consecutive numbers from the one expected to the one its peer will use
  next, each line within its sender's cap (`Fifo`).
* **Ota.**  `Bookkeeping` ties handle, hash, counter and flash; `BootChain` says
  where the content of every slot the boot loader can turn to came from: the first
  slot is never written, because the other one runs unconfirmed and `esp_ota_begin`
  then refuses; the other one is tried only while "new", and it is new only from a
  commit or a rollback on, each of which leaves its own `origin`.
* **EspCtl.**  `Pairing` says what is under way between the two ends at each
  step of a command, links that broke included; it is the reason why a reply
  taken is the reply to what was asked.  `Committed` says that an upload is
  active only for the file of the last run, and what a reply to `OTA_END` says of
  the flash, which it takes from `CountsAgree` of `Ota`; `Offsets` relates the two
  counts before, between and after the two steps of a command.
* **Provisioning.**  The properties look at a boot, so the invariant says what
  the store must hold before it: the token slot is empty or holds a token that
  was shown or that a boot cut off left untold (`StoreInv`), a stored token or pair of credentials is still there
  and can be read back (`AskedInv`, `JoiningInv`), and an erased store has no
  open handle to write it through, so that only a boot can put anything there
  (`ErasedInv`).  `TokenLoaded` and
  `WifiStarted` say what a boot makes of any such store.
* **EventStreams.**  `StartInv` says a start in progress has its channel to
  itself, because the handle was found clear and only the server task sets it;
  `PromiseInv` that a task created by a start never sees its flag clear before a
  stop; `LateInv` that after a stop the flag is clear, and once an event has
  followed the task is on its way to the test that ends it.
* **GpioWatch.**  `LastEventCurrent` speaks of a pin with nothing under way, so
  `KeptInv` says where its newest word is at any time (`NewestIsLevel`): the event
  the interrupt is about to queue, else the last of its events in the queue, else
  the last one sent; from the first edge on that word is the level unless an
  interrupt is to come, whatever older events are still ahead of it.  `CmdInv` describes the `GPIO_WATCH` under way: its slot is the pin's, or
  empty while the pin has none, so that no pin gets two.
* **Fs.**  `WritingInv`: the file being written holds exactly what was flushed of
  its own write.
* **Drivers.**  Only one device is attached at a time, and only during its transfer,
  so `I2C_INIT` always finds the old bus free to be deleted.  For the PWM channels
  `PwmInv` adds that two settled channels never share a timer: setting one then
  leaves the timers of the other settled ones alone.  That `Steps` is positive, which
  a duty of 0 needs to be within any resolution, is by induction.
* **Dispatch.**  The search may be in the middle of the table while the main task
  adds to it.  `RegisterInv` says that the entry under way is the one after those that
  are counted, and whole before it is counted; `ServeInv` that no entry the search has
  passed has the name it looks for, and that a name which was there when it began
  still is.  So a call finds the handler of its name, and "unknown command" is said
  only of a name that was absent.
* **tokenize.**  The word at hand is copied down over the characters it was read from, so
  the invariant of `Scan` relates three parts of the memory: what lies behind the
  words begun so far, which no later step writes; the copy under way, up to `w`,
  which is `Body` of what was read, without the backslashes that escape; and the rest
  of the line from `p` on, which is as it came.  It rests on `w` never passing `p`,
  and on two readings of an escape agreeing: the loop pairs a backslash with what
  follows it, the reference counts the backslashes before a character.
* **Discovery.**  `DiscoveryInv` says the devices listed are distinct and each is
  `Device` of the answer it was listed for, and that the file is an old one followed
  by their sections.  Loading a name passes what comes before its section, whatever
  that is, lines a text of an earlier device made included, takes the three values in
  it (`SectionRead`), and is not touched by the sections that follow since they are
  plain and have other names (`SectionsLoad`); the last record of a type is what
  `Noting` keeps (`DeviceIs`).
* **Induction.**  The library's theorems on induction take a predicate as a
  parameter, which the provers cannot instantiate; `SetInduction` of `TextProofs`
  takes a set of numbers in its place, from the least element of a set of naturals
  (`LeastNumber`), which the well-foundedness of strict inclusion on finite sets
  gives.  The loops over data are recursive functions, whose equation
  holds because a function that satisfies it exists, by the same induction.
* **The parts together.**  A step of the focus is a step of its part and leaves the
  variables of the others alone (`PartsStep`).
* **Listener.**  The type invariant is inductive as it stands: a queued disconnection
  stays queued until it is handled (`QueueEvent`, `DequeueEvent`), and handling it
  starts an attempt.
* **Logger.**  A line the settings refuse is in a task past its tests, in the queue,
  in the pump or sent; `LinesInv` bounds the sum, which only a change of the
  settings can raise, and that empties the last of the four.

Only model-checked: everything under fairness (`SlotReleased`, `SendersReturn`,
`CommitBoots`, `StopEnds`, `UploadEnds`, `ReachableAgain`), which TLAPS does not
reach; and the violations.  Every invariant and every other action or refinement
property of the passing runs is a theorem.

## Not modelled

See `components` of `PROJECT.json` for every part and the reason.  In short:
measurement (what the health report holds), sleep and clock commands, time and
mDNS, debug access to memory and the BLE placeholder keep no state of their own
worth a module; the hex codec is a pure conversion no property depends on.
Cryptography is ideal.  Time is not measured: a timeout is a step that may
happen.  Of the parts that are modelled, these are left out:

* `esp-ctl`'s options and token files, its terminal, name compression and bounds
  within an mDNS packet, quoting and comments within a line of `devices.toml`;
* the texts of replies, and with them their truncation;
* the integer and blob accessors of the configuration store, which have no caller,
  and the commands that only read;
* stores of one task seen by another out of program order;
* the receive timeout of the cleartext phase (`net.c` 387) as a duration: a peer
  that sends a byte ever so often holds the slot longer than 10 s, which a model
  without time cannot tell from one that does not.

## Plan

What could follow, in this order: the rest of `esp-ctl`'s discovery (compressed
names against a reference decoder) and of its profile grammar; the truncation of
replies with the paging it would need; an abstract lossy queue that `Logger` and
`GpioWatch` both implement.
