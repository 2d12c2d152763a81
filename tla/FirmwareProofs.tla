--------------------------- MODULE FirmwareProofs ---------------------------
(***************************************************************************)
(* Proofs about the firmware for any commands, clock and bounds.           *)
(***************************************************************************)
EXTENDS Firmware, SequenceTheorems, TLAPS

(***************************************************************************)
(* The EEPROM and the configuration differ only inside write_osat_config   *)
(* and before setup() has read it.                                         *)
(***************************************************************************)
SavedInv == pc \in {"tcp", "switch", "transmit"} => flash = config

LEMMA SavedStep == SavedInv /\ [Next]_vars => SavedInv'
<1> SUFFICES ASSUME SavedInv, [Next]_vars PROVE SavedInv'
  OBVIOUS
<1> USE DEF SavedInv
<1>1. CASE Setup  BY <1>1 DEF Setup
<1>2. CASE Erase  BY <1>2 DEF Erase
<1>3. CASE Program  BY <1>3 DEF Program
<1>4. CASE Transmit  BY <1>4 DEF Transmit, cfgVars
<1>5. CASE TickTcpIn
  <2>1. flash' = flash /\ flash = config  BY <1>5 DEF TickTcpIn
  <2>2. CASE config' = config  BY <2>1, <2>2
  <2>3. CASE \E c : ParseCfg(c)
    BY <2>1, <2>3 DEF ParseCfg
  <2>4. config' = config \/ \E c : ParseCfg(c)
    BY <1>5 DEF TickTcpIn, ParseCmd, ParseRest
  <2> QED  BY <2>2, <2>3, <2>4
<1>6. CASE Active \/ ActiveTo \/ Inactive \/ Flash \/ Idle
  <2>1. pc = "switch" /\ UNCHANGED <<config, flash>>
    BY <1>6 DEF Active, ActiveTo, Inactive, Flash, Idle, TurnOf, cfgVars
  <2> QED  BY <2>1
<1>7. CASE PowerCut  BY <1>7 DEF PowerCut
<1>8. CASE (\E c \in Commands : ServerWrites(c)) \/ BytesArrive \/ TimePasses \/ UNCHANGED vars
  BY <1>8 DEF ServerWrites, BytesArrive, TimePasses, vars, loopVars, cfgVars
<1> QED
  BY <1>1, <1>2, <1>3, <1>4, <1>5, <1>6, <1>7, <1>8
  DEF Next, Processor, Loop, Environment

\* What a device announces is what a restart would bring back, whatever
\* configuration commands arrive and whenever the power goes.
THEOREM AnnouncedSaved == Spec => []AnnouncedIsSaved
<1>1. Init => SavedInv
  BY DEF Init, SavedInv
<1>2. SavedInv => AnnouncedIsSaved
  BY DEF SavedInv, AnnouncedIsSaved
<1> QED  BY <1>1, <1>2, SavedStep, PTL DEF Spec

(***************************************************************************)
(* The LED is switched on in the turn that sees a new state, and off in    *)
(* the turn that sees another or before a report leaves. So it is the old  *)
(* state that tells whether it may be on; a report is the one moment when  *)
(* it is off while both states still say active.                           *)
(***************************************************************************)
Lit == led \in {"ORANGE", "RED", "WHITE"}

LitInv ==
  /\ back \in {"tcp", "switch"}
  /\ old_state \in {"INACTIVE", "IDLE"} => ~Lit
  /\ state = "IDLE" => old_state = "IDLE"
  /\ pc = "tcp" /\ Lit => state \in {"ACTIVE", "ACTIVE_TO", "FLASH"}
  /\ pc \in {"transmit", "erase", "program"} /\ back = "tcp" /\ Lit => state = "FLASH"
  /\ pc = "setup" \/ (pc \in {"erase", "program"} /\ todo = <<>>) => ~Lit

LEMMA LitStep == LitInv /\ [Next]_vars => LitInv'
<1> SUFFICES ASSUME LitInv, [Next]_vars PROVE LitInv'
  OBVIOUS
<1> USE DEF LitInv, Lit
<1>1. CASE Setup \/ Erase \/ Program
  <2>1. CASE Setup  BY <2>1 DEF Setup
  <2>2. CASE Erase  BY <2>2 DEF Erase
  <2>3. CASE Program  BY <2>3 DEF Program
  <2> QED  BY <1>1, <2>1, <2>2, <2>3
<1>2. CASE Transmit
  BY <1>2 DEF Transmit
<1>3. CASE TickTcpIn
  <2>1. UNCHANGED <<led, old_state>> /\ pc = "tcp"
    BY <1>3 DEF TickTcpIn
  <2>2. \/ state' = state /\ pc' = "switch"
        \/ /\ state' = state /\ back' = "switch"
           /\ pc' \in {"transmit", "erase"} /\ todo' # <<>>
        \/ state' \in States \ {"IDLE"} /\ pc' = "switch"
    <3>1. CASE serverClient' = Claim /\ pc' = "switch" /\ UNCHANGED <<todo, back, config, state, since>>
      BY <3>1
    <3>2. CASE ParseCfg(Claim.cmd)
      <4>1. state' = state /\ back' = "switch" /\ todo' = <<"config">>
        BY <3>2 DEF ParseCfg
      <4>2. pc' = "transmit" \/ pc' = "erase"
        BY <3>2, Zenon DEF ParseCfg
      <4>3. <<"config">> # <<>>
        OBVIOUS
      <4> QED  BY <4>1, <4>2, <4>3
    <3>3. CASE ParseCmd(Claim.cmd)
      BY <3>3 DEF ParseCmd
    <3>4. CASE ParseRest(Claim.cmd)
      BY <3>4 DEF ParseRest
    <3> QED  BY <1>3, <3>1, <3>2, <3>3, <3>4 DEF TickTcpIn
  <2>3. back' \in {"tcp", "switch"}
    BY <1>3 DEF TickTcpIn, ParseCfg, ParseCmd, ParseRest
  <2> QED  BY <2>1, <2>2, <2>3
<1>4. CASE Active
  BY <1>4 DEF Active, TurnOf, CheckHit, Send
<1>5. CASE ActiveTo
  BY <1>5 DEF ActiveTo, TurnOf, CheckHit, Send
<1>6. CASE Inactive
  BY <1>6 DEF Inactive, TurnOf
<1>7. CASE Flash
  BY <1>7 DEF Flash, TurnOf, CheckHit, Send
<1>8. CASE Idle
  BY <1>8 DEF Idle, TurnOf, Send
<1>9. CASE PowerCut
  BY <1>9 DEF PowerCut
<1>10. CASE (\E c \in Commands : ServerWrites(c)) \/ BytesArrive \/ TimePasses \/ UNCHANGED vars
  BY <1>10 DEF ServerWrites, BytesArrive, TimePasses, vars, loopVars
<1> QED
  BY <1>1, <1>2, <1>3, <1>4, <1>5, <1>6, <1>7, <1>8, <1>9, <1>10
  DEF Next, Processor, Loop, Environment

\* A device that shines at the start of a turn counts hits.
THEOREM LitWaits == Spec => []LitMeansWaiting
<1>1. Init => LitInv
  BY DEF Init, LitInv, Lit
<1>2. LitInv => LitMeansWaiting
  BY DEF LitInv, Lit, LitMeansWaiting
<1> QED  BY <1>1, <1>2, LitStep, PTL DEF Spec

-----------------------------------------------------------------------------
(***************************************************************************)
(* Types. What is to be transmitted is one of seven lists, and where the   *)
(* processor is tells which; a hit or a timeout waits to leave while the   *)
(* state that earned it still holds. The flash sector is erased before it  *)
(* is programmed.                                                          *)
(***************************************************************************)
Outbox == {<<>>, <<"config">>, <<"rssi">>, <<"config", "rssi">>, <<"invalid">>, <<"hit">>,
           <<"timeout">>}

SendInv ==
  /\ todo \in Outbox
  /\ pc = "transmit" => todo # <<>>
  /\ pc \in {"erase", "program"} => todo \in {<<>>, <<"config">>}
  /\ pc \in {"setup", "tcp", "switch"} => todo = <<>>
  /\ pc = "transmit" /\ todo = <<"hit">> => state \in {"ACTIVE", "ACTIVE_TO", "FLASH"}
  /\ pc = "transmit" /\ todo = <<"timeout">> => state = "ACTIVE_TO"
  /\ pc = "program" => flash = Blank

\* Tail and Head of what can be under way.
LEMMA OutboxTail ==
  /\ Tail(<<"config", "rssi">>) = <<"rssi">> /\ Head(<<"config", "rssi">>) = "config"
  /\ \A m : Tail(<<m>>) = <<>> /\ Head(<<m>>) = m /\ <<m>> # <<>>
  /\ <<"config", "rssi">> # <<>>
  /\ \A m, n : <<m>> = <<n>> => m = n
  /\ \A m : <<m>> # <<"config", "rssi">>
OBVIOUS

LEMMA SendStep == LitInv /\ SendInv /\ [Next]_vars => SendInv'
<1> SUFFICES ASSUME LitInv, SendInv, [Next]_vars PROVE SendInv'
  OBVIOUS
<1> USE OutboxTail DEF SendInv, Outbox
<1>1. CASE Setup
  BY <1>1 DEF Setup
<1>2. CASE Erase
  BY <1>2 DEF Erase
<1>3. CASE Program
  BY <1>3 DEF Program
<1>4. CASE Transmit
  <2>1. /\ pc = "transmit" /\ todo' = Tail(todo) /\ back \in {"tcp", "switch"}
        /\ pc' = IF todo' = <<>> THEN back ELSE pc
    BY <1>4 DEF Transmit, LitInv
  <2>2. CASE todo = <<"config", "rssi">>
    BY <2>1, <2>2
  <2>3. CASE \E m : todo = <<m>>
    <3>1. todo' = <<>>
      BY <2>1, <2>3
    <3> QED  BY <2>1, <3>1
  <2> QED  BY <2>1, <2>2, <2>3
<1>5. CASE TickTcpIn
  <2>1. flash' = flash /\ pc = "tcp" /\ todo = <<>>
    BY <1>5 DEF TickTcpIn
  <2>2. \/ pc' = "switch" /\ todo' = todo
        \/ pc' \in {"transmit", "erase"} /\ todo' \in {<<"config">>}
        \/ pc' = "transmit" /\ todo' \in {<<"config">>, <<"invalid">>}
    <3>1. CASE ParseCfg(Claim.cmd)
      BY <3>1 DEF ParseCfg
    <3>2. CASE ParseCmd(Claim.cmd)
      BY <3>2 DEF ParseCmd
    <3>3. CASE ParseRest(Claim.cmd)
      BY <3>3 DEF ParseRest
    <3> QED  BY <1>5, <3>1, <3>2, <3>3 DEF TickTcpIn
  <2> QED  BY <2>1, <2>2
<1>6. CASE Active
  BY <1>6 DEF Active, TurnOf, CheckHit, Send, cfgVars
<1>7. CASE ActiveTo
  BY <1>7 DEF ActiveTo, TurnOf, CheckHit, Send, cfgVars
<1>8. CASE Inactive
  BY <1>8 DEF Inactive, TurnOf, cfgVars
<1>9. CASE Flash
  BY <1>9 DEF Flash, TurnOf, CheckHit, Send, cfgVars
<1>10. CASE Idle
  BY <1>10 DEF Idle, TurnOf, Send, cfgVars
<1>11. CASE PowerCut
  BY <1>11 DEF PowerCut
<1>12. CASE (\E c \in Commands : ServerWrites(c)) \/ BytesArrive \/ TimePasses \/ UNCHANGED vars
  BY <1>12 DEF ServerWrites, BytesArrive, TimePasses, vars, loopVars, cfgVars
<1> QED
  BY <1>1, <1>2, <1>3, <1>4, <1>5, <1>6, <1>7, <1>8, <1>9, <1>10, <1>11, <1>12
  DEF Next, Processor, Loop, Environment

\* The parser leaves a configuration within its bounds.
LEMMA ConfiguredIsConfig ==
  ASSUME config \in Config, NEW c
  PROVE  Configured(c) \subseteq Config
<1>1. \A v \in 1 .. Upper.id : [config EXCEPT !.id = v] \in Config
  BY DEF Config
<1>2. \A v \in 1 .. Upper.hit_thresh : [config EXCEPT !.hit_thresh = v] \in Config
  BY DEF Config
<1>3. \A v \in 1 .. Upper.timeout_ms : [config EXCEPT !.timeout_ms = v] \in Config
  BY DEF Config
<1>4. DOMAIN Field = {"id", "hit_thresh", "timeout_ms"}
  BY DEF Field
<1> SUFFICES ASSUME NEW f \in DOMAIN Field, c.value \in 1 .. Upper[f]
             PROVE  [config EXCEPT ![f] = c.value] \in Config
  BY DEF Configured
<1>5. CASE f = "id"
  BY <1>1, <1>5, Zenon
<1>6. CASE f = "hit_thresh"
  BY <1>2, <1>6, Zenon
<1>7. CASE f = "timeout_ms"
  BY <1>3, <1>7, Zenon
<1> QED  BY <1>4, <1>5, <1>6, <1>7

\* What can be under way is a sequence of messages.
LEMMA OutboxTypes == Outbox \subseteq Seq({"config", "rssi", "invalid", "hit", "timeout"})
BY DEF Outbox

\* The place in the loop, the light and the messages keep their types; cnt is
\* counted modulo AnnounceEvery.
LEMMA LoopStep ==
  ASSUME TypeOK, LitInv, LitInv', SendInv', [Next]_vars
  PROVE  LoopTypes'
<1> USE FirmwareAssumption DEF LoopTypes
<1>1. todo' \in Seq({"config", "rssi", "invalid", "hit", "timeout"}) /\ (pc' = "transmit" => todo' # <<>>)
  BY OutboxTypes DEF SendInv
<1>2. back' \in {"tcp", "switch"} /\ back \in {"tcp", "switch"}
  BY DEF LitInv
<1>3. cnt' \in 0 .. AnnounceEvery - 1
  <2>1. cnt' \in {cnt, 0, (cnt + 1) % AnnounceEvery}
    BY DEF Next, Processor, Environment, Setup, Erase, Program, Transmit, Loop, TickTcpIn,
           Active, ActiveTo, Inactive, Flash, Idle, TurnOf, ServerWrites, BytesArrive,
           TimePasses, PowerCut, vars, loopVars
  <2>2. cnt \in Nat /\ \A n \in Nat : n % AnnounceEvery \in 0 .. AnnounceEvery - 1
    BY DEF TypeOK
  <2>3. cnt \in 0 .. AnnounceEvery - 1 /\ 0 \in 0 .. AnnounceEvery - 1
    BY DEF TypeOK
  <2> QED  BY <2>1, <2>2, <2>3
<1>4. state' \in States
  BY DEF TypeOK, States, Next, Processor, Environment, Setup, Erase, Program, Transmit, Loop,
         TickTcpIn, ParseCfg, ParseCmd, ParseRest, Active, ActiveTo, Inactive, Flash, Idle,
         TurnOf, ServerWrites, BytesArrive, TimePasses, PowerCut, vars, loopVars
<1>5. old_state' \in States
  BY DEF TypeOK, States, Next, Processor, Environment, Setup, Erase, Program, Transmit, Loop,
         TickTcpIn, Active, ActiveTo, Inactive, Flash, Idle,
         ServerWrites, BytesArrive, TimePasses, PowerCut, vars, loopVars
<1>6. led' \in {"OFF", "VIOLETT", "ORANGE", "RED", "WHITE"}
  BY DEF TypeOK, Next, Processor, Environment, Setup, Erase, Program, Transmit, Loop, TickTcpIn,
         Active, ActiveTo, Inactive, Flash, Idle, CheckHit, Send,
         ServerWrites, BytesArrive, TimePasses, PowerCut, vars, loopVars
<1>7. pc' \in {"setup", "erase", "program", "transmit", "tcp", "switch"}
  BY <1>2 DEF TypeOK, Next, Processor, Environment, Setup, Erase, Program, Transmit, Loop,
         TickTcpIn, ParseCfg, ParseCmd, ParseRest, Active, ActiveTo, Inactive, Flash, Idle,
         CheckHit, Send, ServerWrites, BytesArrive, TimePasses, PowerCut, vars, loopVars
<1> QED  BY <1>1, <1>2, <1>3, <1>4, <1>5, <1>6, <1>7

\* A configuration is the default one, the one in the flash or a parsed one.
LEMMA ConfigStep ==
  ASSUME TypeOK, SavedInv', SendInv', LoopTypes', [Next]_vars
  PROVE  ConfigTypes'
<1>1. DefaultConfig \in Config
  BY DEF DefaultConfig, Config, Upper
<1>2. config' \in Config
  <2>1. \A c : Configured(c) \subseteq Config
    BY ConfiguredIsConfig DEF TypeOK, ConfigTypes
  <2>2. CASE TickTcpIn
    BY <2>1, <2>2 DEF TickTcpIn, ParseCfg, ParseCmd, ParseRest, TypeOK, ConfigTypes
  <2>3. CASE ~TickTcpIn
    BY <1>1, <2>3 DEF TypeOK, ConfigTypes, Next, Processor, Environment, Setup, Erase, Program,
         Transmit, Loop, Active, ActiveTo, Inactive, Flash, Idle, TurnOf, ServerWrites,
         BytesArrive, TimePasses, PowerCut, vars, cfgVars
  <2> QED  BY <2>2, <2>3
<1>3. flash' \in {flash, Blank, config}
  BY DEF Next, Processor, Environment, Setup, Erase, Program, Transmit, Loop, TickTcpIn,
         Active, ActiveTo, Inactive, Flash, Idle, TurnOf, ServerWrites,
         BytesArrive, TimePasses, PowerCut, vars, cfgVars
<1>4. flash' \in {config', Blank} \/ pc' = "erase" \/ pc' = "setup"
  BY DEF SavedInv, SendInv, LoopTypes
<1> QED  BY <1>2, <1>3, <1>4 DEF TypeOK, ConfigTypes

\* Connections are added by the server and taken by the loop.
LEMMA NetStep ==
  ASSUME TypeOK, [Next]_vars
  PROVE  NetTypes'
<1> USE DEF TypeOK, NetTypes
<1>1. ASSUME NEW c \in Commands, ServerWrites(c) PROVE NetTypes'
  <2>1. [cmd |-> c, here |-> FALSE] \in Conn
    BY DEF Conn
  <2> QED  BY <1>1, <2>1, AppendProperties DEF ServerWrites
<1>2. CASE BytesArrive
  <2>0. \A k \in Conn : [k EXCEPT !.here = TRUE] \in Conn
    BY DEF Conn
  <2>1. CASE serverClient # NoConn /\ serverClient' = [serverClient EXCEPT !.here = TRUE]
             /\ UNCHANGED backlog
    BY <2>0, <2>1
  <2>2. ASSUME NEW i \in 1 .. Len(backlog), backlog' = [backlog EXCEPT ![i].here = TRUE],
               UNCHANGED serverClient
        PROVE  NetTypes'
    <3>1. backlog[i] \in Conn
      BY ElementOfSeq
    <3>2. backlog' = [backlog EXCEPT ![i] = [backlog[i] EXCEPT !.here = TRUE]]
      BY <2>2
    <3> QED  BY <2>0, <2>2, <3>1, <3>2, ExceptSeq
  <2> QED  BY <1>2, <2>1, <2>2 DEF BytesArrive
<1>3. CASE TickTcpIn
  <2>1. backlog' \in Seq(Conn) /\ Claim \in Conn \cup {NoConn}
    <3>1. CASE backlog = <<>>
      BY <1>3, <3>1 DEF TickTcpIn, Claim
    <3>2. CASE backlog # <<>>
      BY <1>3, <3>2, HeadTailProperties DEF TickTcpIn, Claim
    <3> QED  BY <3>1, <3>2
  <2> QED  BY <1>3, <2>1 DEF TickTcpIn
<1>4. CASE PowerCut
  BY <1>4, EmptySeq DEF PowerCut
<1>5. CASE ~PowerCut /\ ~TickTcpIn /\ ~BytesArrive /\ ~\E c \in Commands : ServerWrites(c)
  BY <1>5 DEF Next, Processor, Environment, Setup, Erase, Program, Transmit, Loop,
         Active, ActiveTo, Inactive, Flash, Idle, TurnOf, TimePasses, vars, netVars
<1> QED  BY <1>1, <1>2, <1>3, <1>4, <1>5

\* The histories and the clock keep their types and bounds.
LEMMA HistoryStep ==
  ASSUME TypeOK, [Next]_vars
  PROVE  HistoryTypes'
<1> USE FirmwareAssumption DEF TypeOK, HistoryTypes
<1>1. told' \in Seq({"hit", "timeout"})
  <2>1. told' = told \/ \E m \in {"hit", "timeout"} : told' = Append(told, m)
    BY DEF Next, Processor, Environment, Setup, Erase, Program, Transmit, Loop, TickTcpIn,
         Active, ActiveTo, Inactive, Flash, Idle, TurnOf, ServerWrites,
         BytesArrive, TimePasses, PowerCut, vars
  <2> QED  BY <2>1, AppendProperties
<1>2. \A t \in Nat : Later(t) \in 0 .. MaxAge
  BY DEF Later
<1>3. age' \in {age, 0, MaxAge, Later(age)}
  BY DEF Next, Processor, Environment, Setup, Erase, Program, Transmit, Loop, TickTcpIn,
         Active, ActiveTo, Inactive, Flash, Idle, ServerWrites,
         BytesArrive, TimePasses, PowerCut, vars, timeVars
<1>4. since' \in {since, 0, Later(since)}
  BY DEF Next, Processor, Environment, Setup, Erase, Program, Transmit, Loop, TickTcpIn,
         ParseCfg, ParseCmd, ParseRest, Active, ActiveTo, Inactive, Flash, Idle, TurnOf,
         ServerWrites, BytesArrive, TimePasses, PowerCut, vars, timeVars
<1>5. commands' = commands \/ (commands < MaxCommands /\ commands' = commands + 1)
  BY DEF Next, Processor, Environment, Setup, Erase, Program, Transmit, Loop, TickTcpIn,
         Active, ActiveTo, Inactive, Flash, Idle, TurnOf, ServerWrites,
         BytesArrive, TimePasses, PowerCut, vars, netVars
<1>6. hits' = hits \/ (hits < MaxHits /\ hits' = hits + 1)
  BY DEF Next, Processor, Environment, Setup, Erase, Program, Transmit, Loop, TickTcpIn,
         Active, ActiveTo, Inactive, Flash, Idle, CheckHit, ServerWrites,
         BytesArrive, TimePasses, PowerCut, vars
<1>7. cuts' = cuts \/ (cuts < MaxCuts /\ cuts' = cuts + 1)
  BY DEF Next, Processor, Environment, Setup, Erase, Program, Transmit, Loop, TickTcpIn,
         Active, ActiveTo, Inactive, Flash, Idle, TurnOf, ServerWrites,
         BytesArrive, TimePasses, PowerCut, vars
<1>8. age' \in 0 .. MaxAge /\ since' \in 0 .. MaxAge
  <2>1. age \in Nat /\ since \in Nat /\ {age, since, 0, MaxAge} \subseteq 0 .. MaxAge
    OBVIOUS
  <2> QED  BY <1>2, <1>3, <1>4, <2>1
<1>9. commands' \in 0 .. MaxCommands
  BY <1>5
<1>10. hits' \in 0 .. MaxHits /\ cuts' \in 0 .. MaxCuts
  BY <1>6, <1>7
<1> QED  BY <1>1, <1>8, <1>9, <1>10

\* The named invariants hold together; types need them and they need types.
LEMMA InvariantsHold == Spec => [](TypeOK /\ SavedInv /\ LitInv /\ SendInv)
<1>1. Init => TypeOK /\ SavedInv /\ LitInv /\ SendInv
  <2> SUFFICES ASSUME Init PROVE TypeOK /\ SavedInv /\ LitInv /\ SendInv
    OBVIOUS
  <2> USE FirmwareAssumption DEF Init
  <2>1. DefaultConfig \in Config /\ [DefaultConfig EXCEPT !.id = 1] \in Config
    <3>1. DefaultConfig \in Config
      BY DEF DefaultConfig, Config, Upper
    <3>2. [DefaultConfig EXCEPT !.id = 1] = [id |-> 1, hit_thresh |-> 50, timeout_ms |-> 1500]
      BY DEF DefaultConfig
    <3>3. [id |-> 1, hit_thresh |-> 50, timeout_ms |-> 1500] \in Config
      BY DEF Config, Upper
    <3> QED  BY <3>1, <3>2, <3>3
  <2>2. LoopTypes
    BY DEF LoopTypes, States
  <2>3. ConfigTypes
    BY <2>1 DEF ConfigTypes
  <2>4. NetTypes /\ HistoryTypes
    BY EmptySeq DEF NetTypes, HistoryTypes
  <2>5. SavedInv /\ LitInv /\ SendInv
    BY DEF SavedInv, LitInv, Lit, SendInv, Outbox
  <2> QED  BY <2>2, <2>3, <2>4, <2>5 DEF TypeOK
<1>2. TypeOK /\ SavedInv /\ LitInv /\ SendInv /\ [Next]_vars
        => TypeOK' /\ SavedInv' /\ LitInv' /\ SendInv'
  BY SavedStep, LitStep, SendStep, LoopStep, ConfigStep, NetStep, HistoryStep DEF TypeOK
<1> QED  BY <1>1, <1>2, PTL DEF Spec

\* The variables of a device keep their types, for any commands, clock and
\* bounds: its configuration stays within what the parser accepts, and the
\* EEPROM holds that configuration, or none, whenever the loop runs.
THEOREM FirmwareTypes == Spec => []TypeOK
  BY InvariantsHold, PTL

-----------------------------------------------------------------------------
(***************************************************************************)
(* The device is the button of module Button. What it has heard are the    *)
(* commands of Conns(h, b): the connection h it holds, if any, and the     *)
(* backlog b. A turn takes the oldest of b, whatever h is: it reads it (or *)
(* h, when b is empty) or puts it in the place of h.                       *)
(***************************************************************************)
Cmds(s) == [i \in 1 .. Len(s) |-> s[i].cmd]
Conns(h, b) == (IF h = NoConn THEN <<>> ELSE <<h>>) \o b

\* The commands of a sequence of connections, position by position.
LEMMA CmdsFacts ==
  ASSUME NEW s \in Seq(Conn)
  PROVE  /\ Cmds(s) \in Seq(Commands) /\ Len(Cmds(s)) = Len(s)
         /\ \A i \in 1 .. Len(s) : Cmds(s)[i] = s[i].cmd
<1>1. \A i \in 1 .. Len(s) : s[i].cmd \in Commands
  <2>1. \A k \in Conn : k.cmd \in Commands
    BY DEF Conn
  <2> QED  BY <2>1, ElementOfSeq
<1>2. Len(s) \in Nat
  OBVIOUS
<1> QED  BY <1>1, <1>2 DEF Cmds

\* Whether the bytes are there does not matter to what has been heard.
LEMMA CmdsSame ==
  ASSUME NEW s \in Seq(Conn), NEW t \in Seq(Conn), Len(s) = Len(t),
         \A i \in 1 .. Len(s) : s[i].cmd = t[i].cmd
  PROVE  Cmds(s) = Cmds(t)
BY DEF Cmds

\* A connection behind the others adds its command behind theirs.
LEMMA CmdsAppend ==
  ASSUME NEW s \in Seq(Conn), NEW k \in Conn
  PROVE  Cmds(Append(s, k)) = Append(Cmds(s), k.cmd)
<1>1. k.cmd \in Commands
  BY DEF Conn
<1>2. PICK t \in Seq(Conn) : t = Append(s, k)
  BY AppendProperties
<1>3. PICK u \in Seq(Commands) : u = Append(Cmds(s), k.cmd)
  BY <1>1, AppendProperties, CmdsFacts
<1>4. Len(t) = Len(s) + 1 /\ t[Len(s) + 1] = k /\ \A i \in 1 .. Len(s) : t[i] = s[i]
  BY <1>2, AppendProperties
<1>5. Len(u) = Len(s) + 1 /\ u[Len(s) + 1] = k.cmd /\ \A i \in 1 .. Len(s) : u[i] = s[i].cmd
  BY <1>1, <1>3, AppendProperties, CmdsFacts
<1>6. Len(s) \in Nat
  OBVIOUS
<1>7. \A i \in 1 .. Len(s) + 1 : Cmds(t)[i] = u[i]
  <2> SUFFICES ASSUME NEW i \in 1 .. Len(s) + 1 PROVE Cmds(t)[i] = u[i]
    OBVIOUS
  <2>1. Cmds(t)[i] = t[i].cmd
    BY <1>4, CmdsFacts
  <2>2. i \in 1 .. Len(s) \/ i = Len(s) + 1
    BY <1>6
  <2> QED  BY <1>4, <1>5, <2>1, <2>2
<1>8. Cmds(t) = u
  BY <1>4, <1>5, <1>7, CmdsFacts, SeqEqual
<1> QED  BY <1>2, <1>3, <1>8

\* What is left after the first k.
LEMMA CmdsDrop ==
  ASSUME NEW s \in Seq(Conn), NEW t \in Seq(Conn), NEW k \in 0 .. Len(s),
         Len(t) = Len(s) - k, \A i \in 1 .. Len(t) : t[i] = s[i + k]
  PROVE  Cmds(t) = SubSeq(Cmds(s), k + 1, Len(Cmds(s)))
<1>1. PICK u \in Seq(Commands) : u = Cmds(s) /\ Len(u) = Len(s)
  BY CmdsFacts
<1>2. Len(s) \in Nat /\ k \in Nat /\ k <= Len(s)
  OBVIOUS
<1>3. PICK n \in Nat : n = Len(s)
  BY <1>2
<1>4. \A i \in k + 1 .. n : u[i] \in Commands
  BY <1>1, <1>2, <1>3, ElementOfSeq
<1>5. PICK v : v = SubSeq(u, k + 1, n)
  OBVIOUS
<1>6. /\ v \in Seq(Commands) /\ Len(v) = n - k
      /\ \A i \in 1 .. n - k : v[i] = u[i + k]
  <2>1. k + 1 \in Int /\ n \in Int
    BY <1>2
  <2>2. /\ v \in Seq(Commands) /\ Len(v) = IF k + 1 <= n THEN n - (k + 1) + 1 ELSE 0
        /\ \A i \in 1 .. n - (k + 1) + 1 : v[i] = u[k + 1 + i - 1]
    BY <1>4, <1>5, <2>1, SubSeqProperties
  <2>3. n - (k + 1) + 1 = n - k
    BY <1>2
  <2>4. \A i \in 1 .. n - k : k + 1 + i - 1 = i + k
    BY <1>2
  <2> QED  BY <1>2, <1>3, <2>2, <2>3, <2>4
<1>7. \A i \in 1 .. n - k : Cmds(t)[i] = v[i]
  <2> SUFFICES ASSUME NEW i \in 1 .. n - k PROVE Cmds(t)[i] = v[i]
    OBVIOUS
  <2>1. i + k \in 1 .. Len(s)
    BY <1>2, <1>3
  <2>2. Cmds(t)[i] = t[i].cmd /\ t[i] = s[i + k]
    BY <1>3, CmdsFacts
  <2> QED  BY <1>1, <1>6, <2>1, <2>2, CmdsFacts
<1>8. Cmds(t) = v
  BY <1>3, <1>6, <1>7, CmdsFacts, SeqEqual
<1> QED  BY <1>1, <1>3, <1>5, <1>8

\* With nothing to read, the connections are those of the backlog.
LEMMA ConnsFree ==
  ASSUME NEW b \in Seq(Conn)
  PROVE  Conns(NoConn, b) = b
BY ConcatEmptySeq DEF Conns

\* A held connection comes before the backlog.
LEMMA ConnsHeld ==
  ASSUME NEW h \in Conn, NEW b \in Seq(Conn)
  PROVE  /\ Conns(h, b) \in Seq(Conn) /\ Len(Conns(h, b)) = Len(b) + 1 /\ Conns(h, b)[1] = h
         /\ \A i \in 1 .. Len(b) : Conns(h, b)[i + 1] = b[i]
<1>1. <<h>> \in Seq(Conn) /\ Len(<<h>>) = 1 /\ <<h>>[1] = h
  OBVIOUS
<1>2. PICK u \in Seq(Conn) : u = <<h>>
  BY <1>1
<1>3. /\ u \o b \in Seq(Conn) /\ Len(u \o b) = 1 + Len(b)
      /\ \A i \in 1 .. 1 + Len(b) : (u \o b)[i] = IF i <= 1 THEN u[i] ELSE b[i - 1]
  BY <1>1, <1>2, ConcatProperties
<1>4. Len(b) \in Nat
  OBVIOUS
<1>5. \A i \in 1 .. Len(b) : (u \o b)[i + 1] = b[i]
  <2> SUFFICES ASSUME NEW i \in 1 .. Len(b) PROVE (u \o b)[i + 1] = b[i]
    OBVIOUS
  <2>1. i + 1 \in 1 .. 1 + Len(b) /\ ~(i + 1 <= 1) /\ i + 1 - 1 = i
    BY <1>4
  <2> QED  BY <1>3, <2>1
<1>6. 1 \in 1 .. 1 + Len(b)
  BY <1>4
<1>7. Conns(h, b) = u \o b
  BY <1>2, FirmwareAssumption DEF Conns
<1> QED  BY <1>1, <1>2, <1>3, <1>4, <1>5, <1>6, <1>7

\* Both cases together: the connections are a sequence of them.
LEMMA ConnsTyped ==
  ASSUME NEW h \in Conn \cup {NoConn}, NEW b \in Seq(Conn)
  PROVE  Conns(h, b) \in Seq(Conn)
<1>1. CASE h = NoConn
  BY <1>1, ConnsFree
<1>2. CASE h \in Conn
  BY <1>2, ConnsHeld
<1> QED  BY <1>1, <1>2

\* Holding the first connection of the backlog changes no order.
LEMMA ConnsHead ==
  ASSUME NEW b \in Seq(Conn), b # <<>>
  PROVE  Conns(Head(b), Tail(b)) = b
<1>1. /\ Head(b) \in Conn /\ Head(b) # NoConn /\ Tail(b) \in Seq(Conn)
      /\ Len(Tail(b)) = Len(b) - 1 /\ \A i \in 1 .. Len(Tail(b)) : Tail(b)[i] = b[i + 1]
  BY HeadTailProperties, FirmwareAssumption
<1>2. PICK t \in Seq(Conn) : t = Conns(Head(b), Tail(b))
  BY <1>1, ConnsTyped
<1>3. PICK n \in Nat \ {0} : n = Len(b)
  BY EmptySeq
<1>4. Len(t) = n /\ t[1] = Head(b) /\ \A i \in 1 .. n - 1 : t[i + 1] = b[i + 1]
  <2>1. /\ Len(t) = n - 1 + 1 /\ t[1] = Head(b)
        /\ \A i \in 1 .. n - 1 : t[i + 1] = Tail(b)[i] /\ Tail(b)[i] = b[i + 1]
    <3>1. PICK c \in Seq(Conn) : c = Tail(b)
      BY <1>1
    <3>2. PICK h \in Conn : h = Head(b)
      BY <1>1
    <3>3. Len(Conns(h, c)) = Len(c) + 1 /\ Conns(h, c)[1] = h /\ \A i \in 1 .. Len(c) : Conns(h, c)[i + 1] = c[i]
      BY ConnsHeld
    <3> QED  BY <1>1, <1>2, <1>3, <3>1, <3>2, <3>3
  <2>2. n - 1 + 1 = n
    BY <1>3
  <2> QED  BY <2>1, <2>2
<1>5. Head(b) = b[1]
  OBVIOUS
<1>6. \A i \in 1 .. n : t[i] = b[i]
  <2> SUFFICES ASSUME NEW i \in 1 .. n, i # 1 PROVE t[i] = b[i]
    BY <1>4, <1>5
  <2>1. i - 1 \in 1 .. n - 1 /\ i - 1 + 1 = i
    BY <1>3
  <2> QED  BY <1>4, <2>1
<1> QED  BY <1>2, <1>3, <1>4, <1>6, SeqEqual

\* A turn that reads its connection takes one command and all before it.
LEMMA TurnTakes ==
  ASSUME NEW h \in Conn \cup {NoConn}, NEW b \in Seq(Conn), h # NoConn \/ b # <<>>
  PROVE  \E k \in 1 .. Len(Cmds(Conns(h, b))) :
           /\ Cmds(Conns(h, b))[k] = (IF b = <<>> THEN h ELSE Head(b)).cmd
           /\ Cmds(Conns(NoConn, IF b = <<>> THEN b ELSE Tail(b)))
                = SubSeq(Cmds(Conns(h, b)), k + 1, Len(Cmds(Conns(h, b))))
<1>1. PICK s \in Seq(Conn) : s = Conns(h, b)
  BY ConnsTyped
<1>2. PICK t \in Seq(Conn) : t = IF b = <<>> THEN b ELSE Tail(b)
  BY HeadTailProperties
<1>3. Conns(NoConn, t) = t
  BY <1>2, ConnsFree
<1>4. PICK n \in Nat : n = Len(b)
  OBVIOUS
<1>5. ASSUME NEW k \in 1 .. Len(s), s[k] = IF b = <<>> THEN h ELSE Head(b),
             Len(t) = Len(s) - k, \A i \in 1 .. Len(t) : t[i] = s[i + k]
      PROVE  \E j \in 1 .. Len(Cmds(s)) :
               /\ Cmds(s)[j] = (IF b = <<>> THEN h ELSE Head(b)).cmd
               /\ Cmds(t) = SubSeq(Cmds(s), j + 1, Len(Cmds(s)))
  <2>1. k \in 0 .. Len(s)
    OBVIOUS
  <2>2. Cmds(t) = SubSeq(Cmds(s), k + 1, Len(Cmds(s)))
    BY <1>5, <2>1, CmdsDrop
  <2>3. k \in 1 .. Len(Cmds(s)) /\ Cmds(s)[k] = s[k].cmd
    BY CmdsFacts
  <2> QED  BY <1>5, <2>2, <2>3
<1>6. CASE b = <<>>
  <2>1. Len(b) = 0
    BY <1>6
  <2>2. h \in Conn /\ Len(t) = 0
    BY <1>2, <1>6, <2>1
  <2>3. Len(s) = 0 + 1 /\ s[1] = h
    BY <1>1, <2>1, <2>2, ConnsHeld
  <2> QED  BY <1>1, <1>2, <1>3, <1>5, <1>6, <2>2, <2>3
<1>7. CASE b # <<>> /\ h = NoConn
  <2>1. s = b /\ Len(b) \in Nat \ {0} /\ Head(b) = b[1]
    BY <1>1, <1>7, ConnsFree, EmptySeq
  <2>2. Len(t) = Len(b) - 1 /\ \A i \in 1 .. Len(t) : t[i] = b[i + 1]
    BY <1>2, <1>7, HeadTailProperties
  <2>3. 1 \in 1 .. Len(s) /\ s[1] = Head(b)
    BY <2>1
  <2> QED  BY <1>1, <1>2, <1>3, <1>5, <1>7, <2>1, <2>2, <2>3
<1>8. CASE b # <<>> /\ h # NoConn
  <2>0. h \in Conn /\ n # 0 /\ Head(b) = b[1]
    BY <1>4, <1>8, EmptySeq
  <2>1. Len(s) = n + 1 /\ \A i \in 1 .. n : s[i + 1] = b[i]
    <3>1. Len(Conns(h, b)) = Len(b) + 1 /\ \A i \in 1 .. Len(b) : Conns(h, b)[i + 1] = b[i]
      BY <2>0, ConnsHeld
    <3> QED  BY <1>1, <1>4, <3>1
  <2>2. Len(t) = n - 1 /\ \A i \in 1 .. n - 1 : t[i] = b[i + 1]
    BY <1>2, <1>4, <1>8, HeadTailProperties
  <2>3. 2 \in 1 .. Len(s) /\ Len(t) = Len(s) - 2
    BY <1>4, <2>1, <2>2
  <2>4. s[2] = Head(b)
    <3>1. 1 \in 1 .. n /\ 1 + 1 = 2
      BY <1>4, <2>0
    <3> QED  BY <2>0, <2>1, <3>1
  <2>5. \A i \in 1 .. n - 1 : t[i] = s[i + 2]
    <3> SUFFICES ASSUME NEW i \in 1 .. n - 1 PROVE t[i] = s[i + 2]
      OBVIOUS
    <3>1. i + 1 \in 1 .. n /\ (i + 1) + 1 = i + 2
      BY <1>4
    <3> QED  BY <2>1, <2>2, <3>1
  <2> QED  BY <1>1, <1>2, <1>3, <1>5, <1>8, <2>2, <2>3, <2>4, <2>5
<1> QED  BY <1>6, <1>7, <1>8

\* A turn that does not read loses at most the connection it held, and that
\* only to a newer one.
LEMMA TurnKeeps ==
  ASSUME NEW h \in Conn \cup {NoConn}, NEW b \in Seq(Conn), b # <<>>
  PROVE  \/ Cmds(Conns(Head(b), Tail(b))) = Cmds(Conns(h, b))
         \/ /\ Len(Cmds(Conns(h, b))) > 1
            /\ Cmds(Conns(Head(b), Tail(b))) = Tail(Cmds(Conns(h, b)))
<1>1. Conns(Head(b), Tail(b)) = b
  BY ConnsHead
<1>2. CASE h = NoConn
  BY <1>1, <1>2, ConnsFree
<1>3. CASE h # NoConn
  <2>1. PICK s \in Seq(Conn) : s = Conns(h, b)
    BY ConnsTyped
  <2>2. PICK n \in Nat \ {0} : n = Len(b)
    BY EmptySeq
  <2>0. h \in Conn
    BY <1>3
  <2>3. Len(s) = n + 1 /\ \A i \in 1 .. n : s[i + 1] = b[i]
    <3>1. Len(Conns(h, b)) = Len(b) + 1 /\ \A i \in 1 .. Len(b) : Conns(h, b)[i + 1] = b[i]
      BY <2>0, ConnsHeld, Zenon
    <3>2. Len(s) = Len(b) + 1 /\ \A i \in 1 .. Len(b) : s[i + 1] = b[i]
      BY <2>1, <3>1, Zenon
    <3> QED  BY <2>2, <3>2
  <2>4. Cmds(b) = SubSeq(Cmds(s), 2, Len(Cmds(s)))
    <3>1. 1 \in 0 .. Len(s) /\ Len(b) = Len(s) - 1 /\ \A i \in 1 .. Len(b) : b[i] = s[i + 1]
      BY <2>2, <2>3
    <3>2. Cmds(b) = SubSeq(Cmds(s), 1 + 1, Len(Cmds(s)))
      BY <3>1, CmdsDrop
    <3> QED  BY <3>2
  <2>5. Cmds(s) \in Seq(Commands) /\ Len(Cmds(s)) = n + 1 /\ Cmds(s) # <<>>
    BY <2>2, <2>3, CmdsFacts, EmptySeq
  <2> QED  BY <1>1, <2>1, <2>2, <2>4, <2>5, TailIsSubSeq
<1> QED  BY <1>2, <1>3

\* Bytes that arrive change nothing of the command.
LEMMA HereIsConn ==
  ASSUME NEW k \in Conn
  PROVE  [k EXCEPT !.here = TRUE] \in Conn /\ [k EXCEPT !.here = TRUE].cmd = k.cmd
<1>1. [k EXCEPT !.here = TRUE] \in Conn
  BY DEF Conn
<1>2. DOMAIN k = {"cmd", "here"}
  BY DEF Conn
<1>3. [k EXCEPT !.here = TRUE]["cmd"] = k["cmd"]
  BY <1>2, Zenon
<1> QED  BY <1>1, <1>3

\* What Button calls heard, in the terms of the lemmas, before and after a step.
LEMMA HeardIs ==
  /\ Heard = Cmds(Conns(serverClient, backlog))
  /\ Heard' = Cmds(Conns(serverClient', backlog'))
BY DEF Heard, Cmds, Conns

\* A connection of the server is a Command of the button.
LEMMA WriteIsCommand ==
  ASSUME TypeOK, NEW c \in Commands, ServerWrites(c)
  PROVE  Abstract!Command(c)
<1>1. PICK k \in Conn : k = [cmd |-> c, here |-> FALSE]
  BY DEF Conn
<1>2. /\ backlog' = Append(backlog, k) /\ serverClient' = serverClient
      /\ UNCHANGED <<state, told>>
  BY <1>1 DEF ServerWrites, loopVars
<1>3. PICK h \in Conn \cup {NoConn}, b \in Seq(Conn) : h = serverClient /\ b = backlog
  BY DEF TypeOK, NetTypes
<1>4. Conns(h, Append(b, k)) = Append(Conns(h, b), k)
  <2>1. CASE h = NoConn
    <3>1. Append(b, k) \in Seq(Conn)
      BY AppendProperties
    <3>2. Conns(NoConn, Append(b, k)) = Append(b, k) /\ Conns(NoConn, b) = b
      BY <3>1, ConnsFree, Zenon
    <3> QED  BY <2>1, <3>2, Zenon
  <2>2. CASE h # NoConn
    <3>0. \A x \in Conn : <<x>> \in Seq(Conn)
      OBVIOUS
    <3>1. PICK u \in Seq(Conn) : u = <<h>>
      BY <2>2, <3>0
    <3>2. PICK v \in Seq(Conn) : v = <<k>>
      BY <3>0
    <3>3. (u \o b) \o v = u \o (b \o v) /\ u \o b \in Seq(Conn)
      BY ConcatAssociative, ConcatProperties
    <3>4. Append(b, k) = b \o v /\ Append(u \o b, k) = (u \o b) \o v
      BY <3>2, <3>3, AppendIsConcat
    <3>5. Conns(h, b) = u \o b /\ Conns(h, b \o v) = u \o (b \o v)
      BY <2>2, <3>1 DEF Conns
    <3> QED  BY <3>3, <3>4, <3>5
  <2> QED  BY <2>1, <2>2
<1>5. Cmds(Append(Conns(h, b), k)) = Append(Cmds(Conns(h, b)), k.cmd)
  BY ConnsTyped, CmdsAppend
<1>6. Heard' = Append(Heard, c)
  BY <1>1, <1>2, <1>3, <1>4, <1>5, HeardIs
<1> QED  BY <1>2, <1>6 DEF Abstract!Command

\* That bytes arrive is a stutter of the button.
LEMMA BytesAreNotHeard ==
  ASSUME TypeOK, BytesArrive
  PROVE  Heard' = Heard
<1>1. PICK h \in Conn \cup {NoConn}, b \in Seq(Conn) : h = serverClient /\ b = backlog
  BY DEF TypeOK, NetTypes
<1>2. CASE h # NoConn /\ serverClient' = [h EXCEPT !.here = TRUE] /\ backlog' = b
  <2>1. PICK k \in Conn : k = serverClient' /\ k.cmd = h.cmd
    BY <1>2, HereIsConn
  <2>2. PICK s \in Seq(Conn), t \in Seq(Conn) : s = Conns(h, b) /\ t = Conns(k, b)
    BY ConnsTyped
  <2>3. PICK n \in Nat : n = Len(b)
    OBVIOUS
  <2>4. h \in Conn
    BY <1>2
  <2>5. /\ Len(s) = n + 1 /\ s[1] = h /\ \A i \in 1 .. n : s[i + 1] = b[i]
        /\ Len(t) = n + 1 /\ t[1] = k /\ \A i \in 1 .. n : t[i + 1] = b[i]
    <3>1. /\ Len(Conns(h, b)) = Len(b) + 1 /\ Conns(h, b)[1] = h
          /\ \A i \in 1 .. Len(b) : Conns(h, b)[i + 1] = b[i]
      BY <2>4, ConnsHeld
    <3>2. /\ Len(Conns(k, b)) = Len(b) + 1 /\ Conns(k, b)[1] = k
          /\ \A i \in 1 .. Len(b) : Conns(k, b)[i + 1] = b[i]
      BY ConnsHeld
    <3> QED  BY <2>2, <2>3, <3>1, <3>2
  <2>6. \A i \in 1 .. n + 1 : s[i].cmd = t[i].cmd
    <3> SUFFICES ASSUME NEW i \in 1 .. n + 1, i # 1 PROVE s[i] = t[i]
      BY <2>1, <2>5
    <3>1. i - 1 \in 1 .. n /\ i - 1 + 1 = i
      BY <2>3
    <3> QED  BY <2>5, <3>1
  <2>7. Cmds(s) = Cmds(t)
    BY <2>5, <2>6, CmdsSame
  <2> QED  BY <1>1, <1>2, <2>1, <2>2, <2>7, HeardIs
<1>3. ASSUME NEW j \in 1 .. Len(b), backlog' = [b EXCEPT ![j].here = TRUE], serverClient' = h
      PROVE  Heard' = Heard
  <2>1. PICK k \in Conn : k = [b[j] EXCEPT !.here = TRUE] /\ k.cmd = b[j].cmd
    <3>1. b[j] \in Conn
      BY ElementOfSeq
    <3> QED  BY <3>1, HereIsConn
  <2>2. backlog' = [b EXCEPT ![j] = k]
    BY <1>3, <2>1
  <2>3. PICK d \in Seq(Conn) : d = backlog' /\ Len(d) = Len(b)
                               /\ \A i \in 1 .. Len(b) : d[i] = IF i = j THEN k ELSE b[i]
    BY <2>2, ExceptSeq
  <2>4. \A i \in 1 .. Len(b) : d[i].cmd = b[i].cmd
    BY <2>1, <2>3
  <2>5. CASE h = NoConn
    <3>1. Cmds(d) = Cmds(b)
      BY <2>3, <2>4, CmdsSame
    <3> QED  BY <1>1, <1>3, <2>3, <2>5, <3>1, ConnsFree, HeardIs
  <2>6. CASE h \in Conn
    <3>1. PICK s \in Seq(Conn), t \in Seq(Conn) : s = Conns(h, b) /\ t = Conns(h, d)
      BY ConnsTyped
    <3>2. PICK n \in Nat : n = Len(b)
      OBVIOUS
    <3>3. /\ Len(s) = n + 1 /\ s[1] = h /\ \A i \in 1 .. n : s[i + 1] = b[i]
          /\ Len(t) = n + 1 /\ t[1] = h /\ \A i \in 1 .. n : t[i + 1] = d[i]
      <4>1. /\ Len(Conns(h, b)) = Len(b) + 1 /\ Conns(h, b)[1] = h
            /\ \A i \in 1 .. Len(b) : Conns(h, b)[i + 1] = b[i]
        BY <2>6, ConnsHeld
      <4>2. /\ Len(Conns(h, d)) = Len(d) + 1 /\ Conns(h, d)[1] = h
            /\ \A i \in 1 .. Len(d) : Conns(h, d)[i + 1] = d[i]
        BY <2>6, ConnsHeld
      <4> QED  BY <2>3, <3>1, <3>2, <4>1, <4>2
    <3>4. \A i \in 1 .. n + 1 : s[i].cmd = t[i].cmd
      <4> SUFFICES ASSUME NEW i \in 1 .. n + 1, i # 1 PROVE s[i].cmd = t[i].cmd
        BY <3>3
      <4>1. i - 1 \in 1 .. n /\ i - 1 + 1 = i
        BY <3>2
      <4> QED  BY <2>4, <3>2, <3>3, <4>1
    <3>5. Cmds(s) = Cmds(t)
      BY <3>3, <3>4, CmdsSame
    <3> QED  BY <1>1, <1>3, <2>3, <3>1, <3>5, HeardIs
  <2> QED  BY <2>5, <2>6
<1> QED  BY <1>1, <1>2, <1>3 DEF BytesArrive

\* A turn that reads a command is Take, even if it drops one before it.
LEMMA TurnIsTake ==
  ASSUME TypeOK, TickTcpIn, Claim # NoConn, Claim.here
  PROVE  Abstract!Take
<1>1. PICK h \in Conn \cup {NoConn}, b \in Seq(Conn) : h = serverClient /\ b = backlog
  BY DEF TypeOK, NetTypes
<1>2. PICK n : n = Claim
  OBVIOUS
<1>3. n = (IF b = <<>> THEN h ELSE Head(b)) /\ (h # NoConn \/ b # <<>>)
  BY <1>1, <1>2 DEF Claim
<1>4. /\ serverClient' = NoConn /\ backlog' = (IF b = <<>> THEN b ELSE Tail(b))
      /\ ParseCfg(n.cmd) \/ ParseCmd(n.cmd) \/ ParseRest(n.cmd)
      /\ told' = told
  BY <1>1, <1>2 DEF TickTcpIn
<1>5. PICK k \in 1 .. Len(Heard) :
        Heard[k] = n.cmd /\ Heard' = SubSeq(Heard, k + 1, Len(Heard))
  BY <1>1, <1>3, <1>4, TurnTakes, HeardIs
<1>6. state' = IF n.cmd.kind \in Abstract!Lights THEN n.cmd.kind ELSE state
  <2>1. CASE ParseCfg(n.cmd)
    <3>1. PICK f \in DOMAIN Field : Field[f] = n.cmd.kind
      BY <2>1 DEF ParseCfg, Configured
    <3>2. n.cmd.kind \in {"ID", "THRESH", "TIMEOUT"}
      BY <3>1 DEF Field
    <3> QED  BY <2>1, <3>2 DEF ParseCfg, Abstract!Lights
  <2>2. CASE ParseCmd(n.cmd)
    BY <2>2 DEF ParseCmd, States, Abstract!Lights
  <2>3. CASE ParseRest(n.cmd)
    BY <2>3 DEF ParseRest, States, Abstract!Lights
  <2> QED  BY <1>2, <2>1, <2>2, <2>3 DEF TickTcpIn
<1> QED  BY <1>4, <1>5, <1>6 DEF Abstract!Take

\* A turn that reads nothing is a stutter, or Lose if it drops a connection.
LEMMA TurnIsLose ==
  ASSUME TypeOK, TickTcpIn, ~(Claim # NoConn /\ Claim.here)
  PROVE  UNCHANGED <<state, Heard, told>> \/ Abstract!Lose
<1>1. PICK h \in Conn \cup {NoConn}, b \in Seq(Conn) : h = serverClient /\ b = backlog
  BY DEF TypeOK, NetTypes
<1>2. /\ serverClient' = (IF b = <<>> THEN h ELSE Head(b))
      /\ backlog' = (IF b = <<>> THEN b ELSE Tail(b))
      /\ UNCHANGED <<state, told>>
  BY <1>1 DEF TickTcpIn, Claim
<1>3. CASE b = <<>>
  BY <1>1, <1>2, <1>3, HeardIs
<1>4. CASE b # <<>>
  <2>1. \/ Cmds(Conns(Head(b), Tail(b))) = Cmds(Conns(h, b))
        \/ /\ Len(Cmds(Conns(h, b))) > 1
           /\ Cmds(Conns(Head(b), Tail(b))) = Tail(Cmds(Conns(h, b)))
    BY <1>4, TurnKeeps
  <2>2. Heard' = Heard \/ (Len(Heard) > 1 /\ Heard' = Tail(Heard))
    BY <1>1, <1>2, <1>4, <2>1, HeardIs
  <2> QED  BY <1>2, <2>2 DEF Abstract!Lose
<1> QED  BY <1>3, <1>4

\* A hit or timeout that reaches the server is Hit or Timeout of the button.
LEMMA TransmitIsReport ==
  ASSUME SendInv, Transmit
  PROVE  UNCHANGED <<state, Heard, told>> \/ Abstract!Hit \/ Abstract!Timeout
<1>1. todo \in Outbox /\ todo # <<>> /\ pc = "transmit"
  BY DEF SendInv, Transmit
<1>2. Heard' = Heard
  BY HeardIs DEF Transmit, netVars
<1>3. CASE todo = <<"hit">>
  <2>1. Head(todo) = "hit" /\ state \in {"ACTIVE", "ACTIVE_TO", "FLASH"}
    BY <1>1, <1>3 DEF SendInv
  <2> QED  BY <1>2, <2>1 DEF Transmit, Abstract!Hit
<1>4. CASE todo = <<"timeout">>
  <2>1. Head(todo) = "timeout" /\ state = "ACTIVE_TO"
    BY <1>1, <1>4 DEF SendInv
  <2> QED  BY <1>2, <2>1 DEF Transmit, Abstract!Timeout
<1>5. CASE todo \in {<<"config">>, <<"rssi">>, <<"config", "rssi">>, <<"invalid">>}
  <2>1. Head(todo) \in {"config", "rssi", "invalid"}
    BY <1>5
  <2> QED  BY <1>2, <2>1 DEF Transmit
<1> QED  BY <1>1, <1>3, <1>4, <1>5 DEF Outbox

\* Everything else but a power cut is a stutter of the button.
LEMMA RestIsSilent ==
  ASSUME Setup \/ Erase \/ Program \/ Active \/ ActiveTo \/ Inactive \/ Flash \/ Idle
           \/ TimePasses \/ UNCHANGED vars
  PROVE  UNCHANGED <<state, Heard, told>>
<1>1. UNCHANGED <<serverClient, backlog, state, told>>
  BY DEF Setup, Erase, Program, Active, ActiveTo, Inactive, Flash, Idle, TurnOf, TimePasses, vars,
         loopVars, netVars
<1> QED  BY <1>1, HeardIs

\* However connections, bytes, the clock and the piezo interleave with the
\* loop (line 289), a device is the button the server takes it for: no
\* command is taken twice or overtaken, one is lost only to a newer one or
\* to a power cut, and each activation ends in one report.
THEOREM ButtonIsImplemented == Spec => IsButton
<1>1. Init => Abstract!Init
  <2> SUFFICES ASSUME Init PROVE Abstract!Init
    OBVIOUS
  <2>1. Conns(NoConn, <<>>) = <<>>
    BY ConnsFree, EmptySeq
  <2>2. Heard = <<>>
    BY <2>1, HeardIs DEF Init, Cmds
  <2> QED  BY <2>2 DEF Init, Abstract!Init
<1>2. TypeOK /\ SendInv /\ [Next]_vars => [Abstract!Next]_<<state, Heard, told>>
  <2> SUFFICES ASSUME TypeOK, SendInv, [Next]_vars
               PROVE  Abstract!Next \/ UNCHANGED <<state, Heard, told>>
    OBVIOUS
  <2>1. ASSUME NEW c \in Commands, ServerWrites(c) PROVE Abstract!Next
    BY <2>1, WriteIsCommand DEF Abstract!Next
  <2>2. CASE BytesArrive
    BY <2>2, BytesAreNotHeard DEF BytesArrive, loopVars
  <2>3. CASE TickTcpIn
    BY <2>3, TurnIsTake, TurnIsLose DEF Abstract!Next
  <2>4. CASE Transmit
    BY <2>4, TransmitIsReport DEF Abstract!Next
  <2>5. CASE PowerCut
    <3>1. Conns(NoConn, <<>>) = <<>>
      BY ConnsFree, EmptySeq
    <3>2. Heard' = <<>>
      BY <2>5, <3>1, HeardIs DEF PowerCut, Cmds
    <3> QED  BY <2>5, <3>2 DEF PowerCut, Abstract!PowerCut, Abstract!Next
  <2> QED  BY <2>1, <2>2, <2>3, <2>4, <2>5, RestIsSilent DEF Next, Processor, Loop, Environment
<1> QED  BY <1>1, <1>2, InvariantsHold, PTL DEF Spec, IsButton, Abstract!Spec
=============================================================================
