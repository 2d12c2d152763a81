# A verification project for osat

osat is a target system: a base station (`osat_server`, C++) and many small
targets, the Osats (`firmware`, an ESP8266 with an LED and a piezo). The server
runs a *game mode* that lights Osats; an Osat reports a hit or a timeout. This
directory holds TLA+ modules of the program, TLC configurations that check them
on small instances, and TLAPS proofs of what holds for every instance.

Run `tlc -config X.cfg M` and `tlapm P.tla` in this directory. `PROJECT.json`
lists the runs, the source lines behind each definition, the hazards and the
theorems.

## The system

```
 operator --tcp 1333--> g_srv (TcpServer) --tcp_read_cb--> ModeHandler, OsatManager
                                                             |  _mode -> Mode (RandomN | RandomFill | ReverseFill)
 Osat --tcp 1337------> _tcp_server (TcpServer) --tcp_in_callback--> OsatManager, ClientList
 Osat <--tcp 1335------ OsatCommand::write_to (TcpClient::writeOnce) ----'
```

`main` of the terminal calls `g_osat_manager.spinOnce()` and `g_srv.spinOnce()`
in turn, so callbacks, game and operator commands share one thread. Each
`TcpServer` has further threads: an accepter and one reader per client. Before
its loop the terminal scans the network with up to 100 detached threads.
`osat_set_id_tool` is a second program over `OsatManager`: one thread turns
`spinOnce`, one waits for Enter and then writes, with a mutex between them.

| part | state | operations | what is hard | what makes it correct |
|---|---|---|---|---|
| `ip/Tcp.h` TcpServer | `_clients`, `_current_num_clients`, `_data_in_queue`, `_stoped_clients`, four mutexes | `start`, `spinOnce`, `write_to`, `thrd_accepter`, `thrd_read`, `client_close_callback` | four kinds of threads, unlocked reads of a counter, object lifetime with detached threads, uncaught exceptions | capacity, no thread on a dead object, lines delivered once and in order, every closed client handled |
| `OsatManager` | `_mode`, `_clients` | `startMode`, `stopMode`, `spinOnce`, `tcp_in_callback`, `setOsatState`, `setOsatTimeout`, `findClients`, `setConfig` | messages of an earlier game, a mode replaced while it runs | server and devices agree on who is lit |
| `Mode*` | `_running`, `_states`, `_finish_up`, counters | `setAction`, `tick`, `start`, `reset`, `getRandomIds` | a flag set in one call and read in another; a loop that depends on chance | a game ends, and reports only when it ended |
| `ModeHandler` | `_modes` | `create`, `get` | a second load of a name | |
| `ClientList` | id -> ip -> config | `insert`, `contains`, `at`, `front`, `update_config` | stale entries, shared ids, devices that change by themselves | what is in the list is what the device has |
| firmware | `_state`, `old_state`, LED, timer, EEPROM, `_serverClient` | `setup`, `loop`, `tickTcpIn`, `parseCmd`, `transmit` | commands during a report, late bytes, power cuts, the timer | one report per activation, configuration kept |
| terminal's scan | detached threads, `num_thrds` | `findClients` | threads that count themselves late | devices are found |
| `osat_set_id_tool` | `OsatManager` behind a mutex | spin, `thread_write` | two threads, exit with the mutex held, exit while the other thread runs | it ends, and its devices get the id |
| TcpClient (receiving), Udp, Time, Timer | | | | see "Not modelled" |

## Modules

| module | models | state and actions |
|---|---|---|
| `LineChannel` | what a TcpServer promises its read callback | bytes of a connection come once, in order, in pieces that hold a line end |
| `TcpServer` | `TcpServer` and `TcpServerClient`, `src/ip/Tcp.h` | one variable per member that threads share, `acc`, `reader[e]` and `main` for where the threads are; one action per stretch of code between two points another thread can notice |
| `TcpServerProofs` | | theorems about `TcpServer` |
| `Modes` | the three modes | functions from a mode record to the record after `start`, `reset`, `setAction`, `tick` |
| `GetRandomIds` | `Mode::getRandomIds`, draw by draw | shown to return what `Modes!RandomIds` says in one step |
| `GetRandomIdsProofs` | | theorems about `GetRandomIds` |
| `OsatServer` | terminal loop, OsatManager, ModeHandler, client list, on top of `Modes`; Osats as buttons | `HandleConfig`/`HandleAction` are `tcp_in_callback`, `Tick*` is `_mode->tick()`, `Load`/`LoadMalformed`/`Start`/`Stop`/`Thresh` are the operator's commands, `Lose`/`PowerCut` the faults |
| `OsatServerProofs`, `OsatServerLightProofs`, `OsatServerForeignProofs` | | theorems about `OsatServer`; the second is about who is lit, the third about the ids of answers |
| `ClientList` | `ClientList.h` | operators on functions from pairs of an id and an address |
| `OsatFleet` | the configurations of the devices, `osat_set_id_tool`, `findClients`, `setConfig`, `thresh` | `main`, `writer` and `scan[a]` are the places of the threads, `mtx` the mutex; `Check`, `SetConfig`, `Exit` are `thread_write`; `Tear` is the other thread after `exit` |
| `OsatFleetProofs`, `OsatFleetToolProofs` | | theorems about `OsatFleet`; the second is about the tool |
| `Button` | what a server may believe of an Osat | commands heard, light, reports told |
| `Firmware` | `firmware/full` | `pc` is the place in `setup()`/`loop()`; `TickTcpIn` with `ParseCmd`, `ParseCfg`, `ParseRest`; one action per case of the switch; `Erase`/`Program` for `EEPROM.end()`; `Transmit` |
| `FirmwareProofs` | | theorems about `Firmware` |
| `MC*` | | instances for TLC |

Operators called `Seeded...` are the faults the properties were tried against:
each is what a plausible slip would have made of the definition below it. They
are not part of any specification.

Abstractions, where they matter:

* A byte is its position in its connection, a line is `LineLen` bytes. A piece
  of input is a range of bytes, so loss, repetition and order are visible and
  content is not.
* An elapsed interval is a choice (`Choices` offers the empty set). Durations
  in a report are left out.
* `Mode::getRandomIds` is a set of possible results; `GetRandomIds` justifies
  it against the loop.
  `activate_count` reaches it cut to eight bits (`% 256`): a multiple of 256
  lights nothing. No mode of the instances has one, and where a mode does, the
  fairness of `TickLights` below asks for nothing.
* A `mode_type` nobody knows becomes `random_n` in `ModeHandler::create`
  before the record exists, as in the code. A file that does not open is no
  action, since nothing changes; one that does not parse or lacks a field
  (`Malformed`) throws out of `readConfig`, and the process ends.
* A value of a configuration command is in the range the device accepts or not:
  `Receive` announces or refuses. Both answers of a device that is listed under
  its id change nothing in the server and are left out; from any other device
  the server asks for its configuration.
* In `OsatServer` a fault is a lost command or a power cut, up to `MaxFaults` of
  them. Ids whose last state command reached no device, because it was lost or
  because there is no client, are collected in `dropped`, and properties speak
  of the rest. A device that loses its power while it saves comes back with id
  255. `Disks` and `Fitted` are sets of worlds to start in: which mode files
  there are, and which ids the devices were given. The files of a disk do not
  change (`create_mode_cfg` writes one; a disk that has it is another world).
* `OsatFleet` has no games: devices start as a game or another program left
  them (`Fleets`: configurations, lights and unread commands). A device is one
  thread, so it takes no command while it waits in `transmit` for a program
  that listens. Addresses are numbers in the order of the map; `std::map` has
  them in the order of their text, which is another order on the same set.
  `timeout_ms` and the signal strength in messages are left out. A device
  announces itself again and again; where that would change nothing it is left
  out, and one such message waits at a time.
* `bound` in `OsatFleet` is a history variable: devices that the running
  program has to reach and that no fault has met since it started; the tool's
  `Check` keeps of them those that are in the list with nothing under way.
* A thread of the scan that adds to `num_thrds` after `findClients` returned
  writes to a stack frame that is gone. This does nothing, or ends the process.
  So does `exit()` of the tool while the other thread is in `spinOnce`.
* In `Firmware` the six EEPROM bytes are one value. `Blank` is any content whose
  crc does not match; an erased sector is such content (crc8 of five 0xFF is
  0x44). The clock advances in steps of `Tick` milliseconds.

## What is checked

| run | what it shows |
|---|---|
| `tcp_osat` | the server as OsatManager uses it: one place, two peers, lines of two bytes, two lines each, so that lines come split and joined. Capacity, object lifetime, `InOrder` (refinement of `LineChannel`), delivery of every line, every closed client handled; no deadlock |
| `tcp_terminal` | two places, three peers (interchangeable), one or two answers per line, resets. Where an answer can miss, what an exception needs, and what alone leaves a dead client in its place |
| `server_games` | games of each type over two Osats, a disk with a file that is no configuration, and games of different types over one Osat, so that a timeout of random_n is handled in a fill; two start, stop or thresh commands, two hits, any number of timeouts, one fault. Server and devices agree on who is lit, stopped games are dark, a random_n report is earned, and with modes over the same ids the server dies of a foreign id only if a device lost its own |
| `server_ends` | the same devices with ids of their own or one id for both; one game, one fault: it ends |
| `random_ids` | every assignment of states to three ids, two wanted |
| `fleet` | two devices and an empty address; a set-id tool or a terminal is started once, may be interrupted, and one fault or thresh command happens. One fleet is what a game leaves (one device dark, one lit), the other what an interrupted set-id tool leaves (a command not read yet). The list is fresh, the tool sets what it should, devices are found, the tool ends |
| `firmware` | three commands out of six kinds (with one configuration and one invalid), one hit, one power cut, connections whose bytes are late |

These runs hold. Five more runs show where the code does not do what a comment
of it says; each names its property in the section at the end of its module.

| run | what happens |
|---|---|
| `tcp_accepts_again` | "start accepting again" (Tcp.h:240): the new accepter fails `try_lock` while the old one is about to leave, and nobody accepts any more |
| `tcp_write_missing` | "not available ... do nothing" (Tcp.h:276): `_mtx_cl` stays locked |
| `server_one_mode` | "only one mode at a time possible" (OsatManager.h:160): the Osats of the mode that was replaced stay lit |
| `server_second_start` | a fill mode stopped between two ticks reports as soon as it is started again, since `reset` keeps `_finish_up` |
| `firmware_early` | a device activated in the turn after its report keeps the old timer (line 246 of the firmware says what it should do) |

### Bounds

Two Osats and two ids are the least that let one id be lit while another is
answered; two commands are the least for a game started after another one was
stopped or replaced, and two hits for a hit of the first game that arrives in
the second and a board of two cleared. One fault shows what it breaks and what
it must not: everything the properties excuse is the device it met. In
`server_ends` one start is enough, since every game that runs has to end, and
what an earlier game leaves behind is in `server_games`. There one Osat is
enough for games of different types one after the other: what the second game
finds is in its light, its commands and its messages, and a fault gives it the
id that no mode has. For the fleet two
devices are the least for a list with two ids, and for one device whose entry
decides what the other is sent; `MaxThreads` is 1, so that the scan waits for
room. The two theorems about the list and the tool hold without these bounds. Two peers at one place are the least for
one to wait while the other leaves; three peers at two places let one leave
while another is being accepted. Four bytes of two-byte lines let a read end in
the middle of a line and hold two line ends. Three commands let one connection
replace another that was not read while the first is being acted on. The clock
needs three values: before, at and after the timeout. Counters that only
measure the bounds (`hits`, `commands`, `cuts`, `faults`, `launches`, `events`) guard environment actions only.
Deadlock is checked where the system never stops (`tcp_osat`,
`tcp_accepts_again`, the firmware, whose clock and turns always go on); the
terminal instance may block for ever or die (that is what its properties are
about), the server dies in the ways `crashed` names, and in the fleet programs
end.

### Fairness

* `TcpServer`: weak fairness of each thread (the scheduler runs what can run)
  and of closing (every client of this code closes what it opened:
  `writeOnce`, and `transmit` in the firmware). Nothing makes a peer connect.
* What is said below of messages that reach the server assumes that its
  `TcpServer` goes on accepting. `tcp_accepts_again` shows that the accepter can
  be lost for ever, and `DeadOnlyByLateInsert` names the way a dead client keeps
  the only place; after either the server hears nothing more. `TimedGameEnds`,
  `ClearingGameEnds` and `DevicesAreFound` hold as long as that has not
  happened.
* `OsatServer`: the loop turns; messages are handled (strong, because the tick
  that follows an empty queue disables handling until the next turn); devices
  take commands; a lit device is hit or times out; and a tick that keeps
  getting the chance lights something (strong: the interval elapses and the
  draws succeed with probability one).
* `OsatFleet`: threads run. The writer gets the mutex in the end (strong: the
  main thread gives it back at every turn and sleeps 50 ms before it wants it
  again); messages are handled and devices take commands (strong, since both
  are disabled now and then by what the other side does). Nobody has to start
  a program or press Enter, and no idle device has to announce itself, so that
  what is found is found by the scan.
* `Firmware`: the processor runs, which includes that a `connect` to the server
  succeeds in the end; bytes that were sent arrive; the clock ticks.

## What is proved

For every value of the constants, with no assumption but the named `ASSUME`s of
the modules (finite sets of endpoints and ids, at least one place, `num` a
uint8, no mode that uses the id 255 of a device nobody has given one, a mark for
"no connection" that is no connection):

* `TypeCorrect`: the type invariant of `TcpServer`.
* `CapacityHolds`: `Cardinality(clients) <= MaxNumClients`. Not inductive: the
  accepter checks, waits in `accept`, and inserts later without looking again.
  `CapacityInv` adds that the counter is the size of the map and that room
  found is still there (`RoomKept`), because only the holder of `_mtx_accept`
  adds clients.
* `ReadersAreSafe`: no reader outlives its object. `AliveInv` adds that every
  entry of the stopped queue belongs to a reader that has ended
  (`StoppedAreDone`), because `spinOnce` destroys whatever that queue names.
* `AnswerMisses` and `CrashHasLeaver`: `SeenInv` (a queued or served message
  has had a reader) and `LeftInv` (a reader ends only when its peer has left)
  on top of these.
* `DeadByLateInsert`: `DeadOnlyByLateInsert`, from the types alone: ending,
  queueing and erasing a client each keep that it is going to be erased.
* `ChannelIsImplemented`: `TcpServer` implements `LineChannel` (`InOrder`). The
  mapping is what the callback has seen. `OrderInv` adds that what the callback
  has seen, what waits in the queue and what the reader has taken but not queued
  are one range of bytes after the other without a gap (`SeenBefore`), and that
  each piece in the queue holds a line end; then serving the first piece of an
  endpoint is `LineChannel`'s step and everything else a stutter.
* `CallTypes`: the types of `GetRandomIds`, and that a call gives up after
  `CntMax + 2` draws, whatever is drawn.
* `NeverTwice`, `LoopRefinesChoice`: the loop of `getRandomIds`. The invariant
  counts draws against picks: a draw that added nothing could miss, so a short
  result is possible only when missing was.
* `AnnouncedSaved`, `LitWaits`: `SavedInv` (the EEPROM differs from the
  configuration only inside `write_osat_config` and before it was read) and
  `LitInv` (the old state tells whether the LED may be on).
* `FirmwareTypes`: the types of `Firmware`; configuration and EEPROM stay in the
  ranges `parseCmd` checks (`ConfiguredIsConfig`).
* `ButtonIsImplemented`: `Firmware` implements `Button` (`IsButton`). `SendInv`
  adds that a hit or timeout waits in `transmit` only while the state that
  earned it holds, since `_state` changes after the report, not before it. The
  commands a button has heard are those of `_serverClient` and, behind it, of
  the connections in the backlog; lemmas about that sequence (`Cmds`, `Conns`)
  say that taking the oldest connection, whatever is held, loses at most its
  first element, so that a turn is `Take`, `Lose` or a stutter.

* `ServerTypes`: the types of `OsatServer`. The board of a mode object is over
  the ids of its configuration, whatever answers arrive.
* `CountedIsEarned`: `CountedReportEarned`. Not inductive: `start` and `reset`
  keep `_finish_up`, so a game could inherit the flag. `EarnedInv` adds that no
  loaded random_n object has it while the operator can type, because it is set
  in `spinOnce` and the tick of the same turn consumes it.
* `NoOsatIsLost`, `StoppedIsDark`: `NoLostOsat` and `StoppedGameIsDark`.
  `BeliefInv` adds that a device has, is listed under and speaks under one id at
  most besides the default (`OneId`), that a device not listed under an id of
  its own is dark and has no state command (`Unlisted`), and that the game's board and what becomes of the
  devices agree id by id (`Believed`). Lemmas about `Final` say what a list of
  commands leaves a device in when commands are put behind it or taken off.

* `FleetTypes`: the types of `OsatFleet`. It says more than types: the id of a
  message is that of the configuration behind it, and every entry of the list is
  under the id its configuration has.
* `CacheIsFresh`: `CacheFresh`. Not inductive, since it speaks only of devices
  with nothing under way. `FreshInv` adds what is under way: a configuration
  being transmitted is what the device has now; if none is, the last one that
  waits in the program is; if none waits, the list has it, and a device heard
  under any id is there under its own.
* `ToolSetsEach`: `ToolSets`. `SetInv` says of each device that is bound to get
  the configuration that it has it, or that what it lacks is among its commands,
  or that an entry with the difference is still to be written to, and that no
  command says anything else. It needs `FreshInv` when `Check` reads the list,
  and `ControlInv` (who holds the mutex, where the other thread is) to know
  that the list stays as it is meanwhile and that a tool that ended without
  clients is never torn.

* `ForeignIsDefault`: `ForeignIdIsDefault`, under the assumption `OneBoard`, which
  is the property's condition and not one of the model: on each disk all modes
  (`Malformed` aside) are over the same ids.
  `Unaddressed` adds that a device not listed under an id of that board is dark
  and has no state to take, and `Answers` that every hit or timeout on its way has an
  id of that board, or comes from a device that lost its id. It rests on the
  lemmas of `BeliefInv` about quiet commands.

With these every safety invariant and both refinements of the passing runs hold
for every value of the constants. Model-checked only: when a game ends and what
that needs, and all liveness (`LinesDelivered`, `StoppedHandled`, the games, the
call, the commands and activations of a device, the scan and the tool), which
the prover does not do.

## Not modelled

* `firmware/offline_flash`: the full firmware with its network commented out;
  its one state FLASH is an action of `Firmware`.
* The receiving half of `TcpClient` (with its reconnecting thread) and `Udp.h`:
  used by the manual test programs only, never by a program of the system.
* `Time.h`, `Timer.h`, `Utility.h`: wrappers of the clock and of two string
  helpers; an elapsed interval is a choice. `thrdparty`: vendored.
* The text of configurations and commands. Only the firmware writes the one and
  only `OsatCommand` the other; a message is a record of what they say.
* Functions without a caller: both `erase` of `ClientList`, `spin` and `stop` of
  `OsatManager`.
* Durations in reports (`_fist_hit` of reverse_fill is listed as a hazard).
* What `buffer_cast<const char*>` finds behind the bytes received (Tcp.h:137): the
  buffer of a line is not terminated by a zero, so the string can run on into
  what lies behind it. A line of the model ends where its bytes end.
* A send that blocks on a full buffer, a port reused by a connection while the
  old one is still in the map, a configuration with no ids (undefined
  behaviour in `getRandomIds`).
* Hardware and CAD files.

## Plan

Done: 1. `LineChannel`, `TcpServer` and proofs. 2. `Modes`, `GetRandomIds`,
`OsatServer`. 3. `Button`, `Firmware` and first proofs. 4. Faults, shared ids and
`thresh` in `OsatServer`. 5. `ClientList`, `OsatFleet` with the set-id tool and
the scan, and proofs of its safety. 6. Proofs of `OsatServer`'s types and safety.
7. The two refinements, `ForeignIdIsDefault` and the remaining types.

What would come next: that `OsatServer` lets its devices do whatever a `Button`
does, so that what is proved of the firmware meets what is proved of the games,
and proofs of what a fill mode's board says when it reports.
