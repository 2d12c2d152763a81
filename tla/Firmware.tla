------------------------------ MODULE Firmware ------------------------------
(***************************************************************************)
(* The firmware of one Osat (firmware/full/wemos_osat_full.ino): setup(),  *)
(* then loop() again and again. It is one thread; connections of the       *)
(* server, the piezo, the clock and the power are its environment.         *)
(*                                                                         *)
(* A turn of loop() is tickTcpIn (pc "tcp") and the switch on the state    *)
(* (pc "switch"). EEPROM.end() erases the flash sector and programs it     *)
(* again (pc "erase", "program"), and transmit() waits for the server for  *)
(* as long as it takes (pc "transmit"): both stop the loop meanwhile.      *)
(*                                                                         *)
(* The six EEPROM bytes are one value, Blank if their crc does not match.  *)
(* The receive buffer and the brightness of the LED are left out, and      *)
(* "VIOLETT" stands for every colour of setup(). A connection of the       *)
(* server carries one command (TcpClient::writeOnce).                      *)
(***************************************************************************)
EXTENDS Naturals, Sequences

CONSTANTS
  Commands,      \* what the server may send: records [kind, value]
  Blank,         \* an EEPROM without a valid configuration
  NoConn,        \* _serverClient has nothing (more) to read
  Tick,          \* milliseconds by which the clock advances
  MaxAge,        \* bound: the clock stops to matter above it
  AnnounceEvery, \* idle turns between two announcements (100)
  MaxCommands,   \* bound: commands of the server
  MaxHits,       \* bound: hits on the piezo
  MaxCuts        \* bound: power cuts

DefaultConfig == [id |-> 255, hit_thresh |-> 50, timeout_ms |-> 1500]

Conn == [cmd : Commands, here : BOOLEAN]
Upper == [id |-> 255, hit_thresh |-> 1023, timeout_ms |-> 10000]
Config == [id : 1 .. Upper.id, hit_thresh : 1 .. Upper.hit_thresh, timeout_ms : 1 .. Upper.timeout_ms]

ASSUME FirmwareAssumption ==
  /\ NoConn \notin Conn
  /\ \A c \in Commands : c.kind \in STRING /\ c.value \in Nat
  /\ AnnounceEvery \in Nat \ {0}
  /\ Tick \in Nat \ {0} /\ MaxAge \in Nat /\ MaxCommands \in Nat /\ MaxHits \in Nat /\ MaxCuts \in Nat

VARIABLES
  pc,            \* where the processor is
  state,         \* OsatComm::_state
  old_state,
  led,
  age,           \* millis() - timeout
  cnt,           \* the turn counter, modulo AnnounceEvery
  config,        \* OsatComm::_osat_config
  flash,         \* the EEPROM
  backlog,       \* connections of the server nobody has taken from _server
  serverClient,  \* _serverClient
  todo,          \* what is being transmitted, and then
  back,          \* where the processor goes after it
  told,          \* the hits and timeouts the server has been sent
  since,         \* history: how long the state has been ACTIVE_TO
  commands, hits, cuts  \* history: what has been used of the bounds

loopVars == <<pc, state, old_state, led, cnt, todo, back>>
cfgVars == <<config, flash>>
netVars == <<backlog, serverClient, commands>>
timeVars == <<age, since>>
vars == <<loopVars, cfgVars, netVars, timeVars, told, hits, cuts>>

States == {"IDLE", "ACTIVE", "ACTIVE_TO", "INACTIVE", "FLASH"}

LoopTypes ==
  /\ pc \in {"setup", "erase", "program", "transmit", "tcp", "switch"}
  /\ state \in States /\ old_state \in States
  /\ led \in {"OFF", "VIOLETT", "ORANGE", "RED", "WHITE"}
  /\ cnt \in 0 .. AnnounceEvery - 1
  /\ todo \in Seq({"config", "rssi", "invalid", "hit", "timeout"})
  /\ pc = "transmit" => todo # <<>>
  /\ back \in {"tcp", "switch"}

ConfigTypes ==
  /\ config \in Config /\ flash \in Config \cup {Blank}
  /\ flash \in {config, Blank} \/ pc = "erase" \/ pc = "setup"

NetTypes == backlog \in Seq(Conn) /\ serverClient \in Conn \cup {NoConn}

HistoryTypes ==
  /\ told \in Seq({"hit", "timeout"})
  /\ age \in 0 .. MaxAge /\ since \in 0 .. MaxAge
  /\ commands \in 0 .. MaxCommands /\ hits \in 0 .. MaxHits /\ cuts \in 0 .. MaxCuts

TypeOK == LoopTypes /\ ConfigTypes /\ NetTypes /\ HistoryTypes

Init ==
  /\ pc = "setup" /\ state = "IDLE" /\ old_state = "IDLE" /\ led = "OFF"
  /\ cnt = 0 /\ todo = <<>> /\ back = "tcp"
  /\ config = DefaultConfig /\ flash \in {Blank, [DefaultConfig EXCEPT !.id = 1]}
  /\ backlog = <<>> /\ serverClient = NoConn
  /\ age = MaxAge /\ since = 0
  /\ told = <<>> /\ commands = 0 /\ hits = 0 /\ cuts = 0

-----------------------------------------------------------------------------
(* The environment. *)

ServerWrites(c) ==
  /\ pc # "setup" /\ commands < MaxCommands
  /\ backlog' = Append(backlog, [cmd |-> c, here |-> FALSE])
  /\ commands' = commands + 1
  /\ UNCHANGED <<loopVars, cfgVars, serverClient, timeVars, told, hits, cuts>>

\* The bytes follow their connection.
BytesArrive ==
  /\ \/ /\ serverClient # NoConn /\ ~serverClient.here
        /\ serverClient' = [serverClient EXCEPT !.here = TRUE]
        /\ UNCHANGED backlog
     \/ /\ \E i \in 1 .. Len(backlog) :
             ~backlog[i].here /\ backlog' = [backlog EXCEPT ![i].here = TRUE]
        /\ UNCHANGED serverClient
  /\ UNCHANGED <<loopVars, cfgVars, timeVars, told, commands, hits, cuts>>

Later(t) == IF t + Tick < MaxAge THEN t + Tick ELSE MaxAge

TimePasses ==
  /\ age < MaxAge \/ since < MaxAge
  /\ age' = Later(age) /\ since' = IF state = "ACTIVE_TO" THEN Later(since) ELSE 0
  /\ UNCHANGED <<loopVars, cfgVars, netVars, told, hits, cuts>>

\* Everything but the EEPROM is gone, the connections of the server too.
PowerCut ==
  /\ cuts < MaxCuts /\ cuts' = cuts + 1
  /\ pc' = "setup" /\ state' = "IDLE" /\ old_state' = "IDLE" /\ led' = "OFF"
  /\ cnt' = 0 /\ todo' = <<>> /\ back' = "tcp"
  /\ config' = DefaultConfig
  /\ backlog' = <<>> /\ serverClient' = NoConn
  /\ age' = MaxAge /\ since' = 0
  /\ UNCHANGED <<flash, told, commands, hits>>

-----------------------------------------------------------------------------
(* setup(), the EEPROM and transmit(). *)

\* check_osat_config and read_osat_config; the device then says hello.
Setup ==
  /\ pc = "setup"
  /\ IF flash = Blank
     THEN config' = DefaultConfig /\ pc' = "erase" /\ UNCHANGED <<todo, back, led>>
     ELSE /\ config' = flash /\ pc' = "transmit"
          /\ todo' = <<"config">> /\ back' = "tcp" /\ led' = "VIOLETT"
  /\ UNCHANGED <<state, old_state, cnt, flash, netVars, timeVars, told, hits, cuts>>

Erase ==
  /\ pc = "erase"
  /\ flash' = Blank /\ pc' = "program"
  /\ UNCHANGED <<state, old_state, led, cnt, todo, back, config, netVars, timeVars,
                 told, hits, cuts>>

\* Seeded fault: the bytes that changed are forgotten, the defaults go in.
SeededProgram ==
  /\ pc = "program"
  /\ flash' = DefaultConfig
  /\ pc' = IF todo = <<>> THEN "setup" ELSE "transmit"
  /\ UNCHANGED <<state, old_state, led, cnt, todo, back, config, netVars, timeVars,
                 told, hits, cuts>>

\* Back in check_osat_config, or on to the answer that was prepared.
Program ==
  /\ pc = "program"
  /\ flash' = config
  /\ pc' = IF todo = <<>> THEN "setup" ELSE "transmit"
  /\ UNCHANGED <<state, old_state, led, cnt, todo, back, config, netVars, timeVars,
                 told, hits, cuts>>

\* One message reaches the server. After a hit or a timeout the caller sets
\* the state, except in FLASH.
Transmit ==
  /\ pc = "transmit"
  /\ todo' = Tail(todo)
  /\ pc' = IF todo' = <<>> THEN back ELSE pc
  /\ told' = IF Head(todo) \in {"hit", "timeout"} THEN Append(told, Head(todo)) ELSE told
  /\ state' = IF Head(todo) \in {"hit", "timeout"} /\ state # "FLASH" THEN "INACTIVE" ELSE state
  /\ since' = IF state' = "ACTIVE_TO" THEN since ELSE 0
  /\ UNCHANGED <<old_state, led, cnt, back, cfgVars, netVars, age, hits, cuts>>

-----------------------------------------------------------------------------
(* tickTcpIn() and parseCmd(). *)

Field == [id |-> "ID", hit_thresh |-> "THRESH", timeout_ms |-> "TIMEOUT"]

\* What the parser makes of a command: the configuration it leaves.
Configured(c) ==
  {[config EXCEPT ![f] = c.value] :
     f \in {g \in DOMAIN Field : Field[g] = c.kind /\ c.value \in 1 .. Upper[g]}}

\* Seeded fault: the configuration is answered before it is saved.
SeededParseCfg(c) ==
  /\ Configured(c) # {}
  /\ config' \in Configured(c)
  /\ todo' = <<"config">> /\ back' = "switch" /\ pc' = "transmit"
  /\ UNCHANGED <<state, since>>

\* EEPROM.end() touches the flash only if a byte has changed.
ParseCfg(c) ==
  /\ Configured(c) # {}
  /\ config' \in Configured(c)
  /\ todo' = <<"config">> /\ back' = "switch"
  /\ pc' = IF config' = flash THEN "transmit" ELSE "erase"
  /\ UNCHANGED <<state, since>>

ParseCmd(c) ==
  /\ c.kind \in States \ {"IDLE"}
  /\ state' = c.kind /\ pc' = "switch"
  /\ since' = IF c.kind = "ACTIVE_TO" /\ state = "ACTIVE_TO" THEN since ELSE 0
  /\ UNCHANGED <<todo, back, config>>

ParseRest(c) ==
  /\ c.kind \notin States \ {"IDLE"} /\ Configured(c) = {}
  /\ todo' = <<IF c.kind = "REQUEST" THEN "config" ELSE "invalid">>
  /\ back' = "switch" /\ pc' = "transmit"
  /\ UNCHANGED <<state, since, config>>

\* Seeded fault: the newest connection is taken first.
SeededClaimNewest == IF backlog = <<>> THEN serverClient ELSE backlog[Len(backlog)]

\* The connection tickTcpIn reads: a new one replaces _serverClient, read or not.
Claim == IF backlog = <<>> THEN serverClient ELSE Head(backlog)

\* Seeded fault: an old connection is not looked at again.
SeededTickTcpIn ==
  /\ pc = "tcp"
  /\ backlog' = IF backlog = <<>> THEN backlog ELSE Tail(backlog)
  /\ IF backlog # <<>> /\ Claim.here
     THEN /\ serverClient' = NoConn
          /\ ParseCfg(Claim.cmd) \/ ParseCmd(Claim.cmd) \/ ParseRest(Claim.cmd)
     ELSE serverClient' = Claim /\ pc' = "switch" /\ UNCHANGED <<todo, back, config, state, since>>
  /\ UNCHANGED <<old_state, led, cnt, flash, commands, age, told, hits, cuts>>

TickTcpIn ==
  /\ pc = "tcp"
  /\ backlog' = IF backlog = <<>> THEN backlog ELSE Tail(backlog)
  /\ IF Claim # NoConn /\ Claim.here
     THEN /\ serverClient' = NoConn
          /\ ParseCfg(Claim.cmd) \/ ParseCmd(Claim.cmd) \/ ParseRest(Claim.cmd)
     ELSE serverClient' = Claim /\ pc' = "switch" /\ UNCHANGED <<todo, back, config, state, since>>
  /\ UNCHANGED <<old_state, led, cnt, flash, commands, age, told, hits, cuts>>

-----------------------------------------------------------------------------
(* The switch of loop(). *)

Send(msgs) == todo' = msgs /\ back' = "tcp" /\ pc' = "transmit"

\* checkHit(): the piezo is above the threshold, or it is not. The LED a
\* struck device shows is the first argument.
CheckHit(struck, waiting) ==
  \/ /\ hits < MaxHits /\ hits' = hits + 1
     /\ led' = struck
     /\ Send(<<"hit">>)
  \/ /\ led' = waiting /\ pc' = "tcp"
     /\ UNCHANGED <<todo, back, hits>>

TurnOf(s) ==
  /\ pc = "switch" /\ state = s
  /\ cnt' = (cnt + 1) % AnnounceEvery
  /\ UNCHANGED <<state, cfgVars, netVars, since, told, cuts>>

Active ==
  /\ TurnOf("ACTIVE") /\ old_state' = "ACTIVE"
  /\ CheckHit("OFF", IF old_state # "ACTIVE" THEN "ORANGE" ELSE led)
  /\ UNCHANGED age

\* Seeded fault: the timer is started in every turn.
SeededActiveTo ==
  /\ TurnOf("ACTIVE_TO") /\ old_state' = "ACTIVE_TO"
  /\ age' = 0
  /\ CheckHit("OFF", IF old_state # "ACTIVE_TO" THEN "RED" ELSE led)

ActiveTo ==
  /\ TurnOf("ACTIVE_TO") /\ old_state' = "ACTIVE_TO"
  /\ age' = IF old_state # "ACTIVE_TO" THEN 0 ELSE age
  /\ IF age' > config.timeout_ms
     THEN led' = "OFF" /\ Send(<<"timeout">>) /\ UNCHANGED hits
     ELSE CheckHit("OFF", IF old_state # "ACTIVE_TO" THEN "RED" ELSE led)

\* Seeded fault: the LED is left alone.
SeededInactive ==
  /\ TurnOf("INACTIVE") /\ old_state' = "INACTIVE"
  /\ pc' = "tcp" /\ UNCHANGED <<led, todo, back, age, hits>>

Inactive ==
  /\ TurnOf("INACTIVE") /\ old_state' = "INACTIVE"
  /\ led' = IF old_state # "INACTIVE" THEN "OFF" ELSE led
  /\ pc' = "tcp" /\ UNCHANGED <<todo, back, age, hits>>

Flash ==
  /\ TurnOf("FLASH") /\ old_state' = "FLASH"
  /\ CheckHit("WHITE", IF old_state # "FLASH" THEN "WHITE" ELSE led)
  /\ UNCHANGED age

Idle ==
  /\ TurnOf("IDLE") /\ UNCHANGED <<old_state, age, hits>>
  /\ IF cnt = 0
     THEN led' = "OFF" /\ Send(<<"config", "rssi">>)
     ELSE pc' = "tcp" /\ UNCHANGED <<led, todo, back>>

Loop == TickTcpIn \/ Active \/ ActiveTo \/ Inactive \/ Flash \/ Idle
Processor == Setup \/ Erase \/ Program \/ Transmit \/ Loop
Environment == (\E c \in Commands : ServerWrites(c)) \/ BytesArrive \/ TimePasses \/ PowerCut

Next == Processor \/ Environment

Spec == Init /\ [][Next]_vars

\* The processor runs, the server can be reached, sent bytes arrive and the
\* clock ticks. Nothing makes the server write or a player hit.
Fairness == WF_vars(Processor) /\ WF_vars(BytesArrive) /\ WF_vars(TimePasses)
FairSpec == Spec /\ Fairness

-----------------------------------------------------------------------------
(* Safety. *)

\* Commands that have been written and not been taken.
Heard ==
  LET conns == (IF serverClient = NoConn THEN <<>> ELSE <<serverClient>>) \o backlog
  IN  [i \in 1 .. Len(conns) |-> conns[i].cmd]

Abstract == INSTANCE Button WITH light <- state, heard <- Heard

\* The device is the button the server takes it for: each activation ends in
\* one report, a command is lost only to a newer one or a power cut, and
\* none is taken twice or overtaken, however connections, bytes, the clock
\* and the piezo interleave with the loop (tickTcpIn, line 289).
IsButton == Abstract!Spec

\* A configuration is announced only when a restart would bring it back: it
\* was saved before the answer, at whatever point the power goes (parseCmd,
\* lines 441-483, "permanently saved in EEPROM" line 250).
AnnouncedIsSaved == (pc = "transmit" /\ Head(todo) = "config") => flash = config

\* At the start of a turn a device shines only if it counts hits: no order
\* of commands, hits and timeouts leaves it lit and deaf (lines 575, 585,
\* 632).
LitMeansWaiting ==
  (pc = "tcp" /\ led \in {"ORANGE", "RED", "WHITE"}) =>
    state \in {"ACTIVE", "ACTIVE_TO", "FLASH"}

(* Liveness. *)

\* Every command is taken or replaced in the end, though a turn that finds a
\* connection without its bytes goes on without it (lines 298-307).
CommandsDrain == []<>(Heard = <<>>)

\* An activation with a timeout ends, whatever else is received meanwhile
\* (lines 607-616).
ActivationEnds == (state = "ACTIVE_TO") ~> (state # "ACTIVE_TO")

-----------------------------------------------------------------------------
(* What a comment of the code says, and the code does not do. *)

\* Line 246: "waiting for hit, but sets it inactive after timout (from
\* cfg)": a timeout is reported only when the configured time has passed
\* since the device was activated.
TimeoutNotEarly == (pc = "transmit" /\ Head(todo) = "timeout") => since > config.timeout_ms
=============================================================================
