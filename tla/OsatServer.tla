---------------------------- MODULE OsatServer -----------------------------
(***************************************************************************)
(* The running terminal server: the loop of osat_server_terminal.cpp, the  *)
(* OsatManager, its ClientList and current Mode, the ModeHandler, and the  *)
(* Osats the firmware turns into buttons that light up and report a hit.   *)
(*                                                                         *)
(* One turn of the loop handles messages of Osats, ticks the current mode, *)
(* then handles commands of the operator. Osats run at any time between    *)
(* these steps. Every command travels on a connection of its own and is    *)
(* taken in order; every message an Osat sends is kept by the backlog of   *)
(* the server's socket and handled in the order the connections were made. *)
(* Faults are few (MaxFaults): a command does not reach its device, or a   *)
(* device loses its power, its configuration too if it was saving it.      *)
(***************************************************************************)
EXTENDS Modes, Sequences

CONSTANTS
  Osats,        \* the devices, each with an address of its own
  Fitted,       \* the ids the devices may have been given: functions on Osats
  Disks,        \* what may lie on the disk: sets of files
  None,         \* no mode
  Malformed,    \* a file that is no configuration, or lacks a field
  MaxHits,      \* bound: hits of the players
  MaxCommands,  \* bound: start, stop and thresh commands of the operator
  MaxFaults     \* bound: lost commands and power cuts

DefaultId == 255
Files == (UNION Disks) \ {Malformed}
Names == {f.mode_name : f \in Files}
Ids == (UNION {f.ids : f \in Files}) \cup {ids[o] : ids \in Fitted, o \in Osats}
       \cup {DefaultId}

States == UNION {[f.ids -> OsatStates] : f \in Files}
Mode == {m \in [cfg : Files, running : BOOLEAN, finish_up : BOOLEAN, hits : Nat,
                timeouts : Nat, states : States] : DOMAIN m.states = m.cfg.ids}

\* No mode uses the id of a device that nobody has given one.
ASSUME OsatServerAssumption ==
  /\ IsFiniteSet(Osats) /\ IsFiniteSet(Files) /\ IsFiniteSet(Ids)
  /\ \A ids \in Fitted : ids \in [Osats -> Ids]
  /\ \A f \in Files :
       /\ f.mode_type \in {"random_n", "random_fill", "reverse_fill"}
       /\ f.ids # {} /\ DefaultId \notin f.ids
       /\ f.max_timeout_count \in Nat /\ f.activate_count \in Nat
  /\ None \notin Names /\ None \notin Mode
  /\ MaxHits \in Nat /\ MaxCommands \in Nat /\ MaxFaults \in Nat

VARIABLES
  disk,      \* the files the operator can load
  pc,        \* "data": in OsatManager::spinOnce; "cmd": in g_srv.spinOnce
  modes,     \* ModeHandler::_modes, None for a name not loaded
  current,   \* the name of OsatManager::_mode
  clients,   \* the ClientList: pairs of an id and an Osat
  inbox,     \* messages of Osats not handled yet
  toOsat,    \* toOsat[o]: commands written and not taken by o yet
  light,     \* light[o]: the state of the device
  id,        \* id[o]: the id the device has saved
  crashed,   \* why the process died, "no" while it lives
  over,      \* history: the current game has met its own end condition
  dropped,   \* history: ids whose last state command reached no device
  hits, commands, faults  \* history: what has been used of the bounds

serverVars == <<disk, pc, modes, current, clients, crashed, over, commands>>
osatVars == <<light, id, hits, faults>>
vars == <<serverVars, inbox, toOsat, dropped, osatVars>>

Message == [osat : Osats, id : Ids, payload : {"config", "invalid", "hit", "timeout"}]
Saving == {"CFG-TIMEOUT", "CFG-THRESH"}
Command == {"ACTIVE", "ACTIVE_TO", "INACTIVE", "CFG-REQUEST"} \cup Saving
Loaded == {n \in Names : modes[n] # None}

GameTypes ==
  /\ disk \in Disks /\ pc \in {"data", "cmd"}
  /\ modes \in [Names -> Mode \cup {None}]
  /\ current \in Loaded \cup {None}
  /\ crashed \in {"no", "foreign_id", "null_mode", "malformed_file"} /\ over \in BOOLEAN
ListTypes == clients \subseteq Ids \X Osats /\ dropped \subseteq Ids
MailTypes == inbox \in Seq(Message) /\ toOsat \in [Osats -> Seq(Command)]
DeviceTypes == light \in [Osats -> OsatStates \cup {"IDLE"}] /\ id \in [Osats -> Ids]
Bounds == hits \in 0 .. MaxHits /\ commands \in 0 .. MaxCommands /\ faults \in 0 .. MaxFaults

TypeOK == GameTypes /\ ListTypes /\ MailTypes /\ DeviceTypes /\ Bounds

Init ==
  /\ disk \in Disks /\ id \in Fitted
  /\ pc = "data"
  /\ modes = [n \in Names |-> None] /\ current = None
  /\ clients = {} /\ inbox = <<>>
  /\ toOsat = [o \in Osats |-> <<>>]
  /\ light = [o \in Osats |-> "IDLE"]
  /\ crashed = "no" /\ over = FALSE /\ dropped = {}
  /\ hits = 0 /\ commands = 0 /\ faults = 0

\* The ids under which the ClientList has a device, and the devices of ids.
IdsOf(o) == {i \in Ids : <<i, o>> \in clients}
Under(ids) == {o \in Osats : IdsOf(o) \cap ids # {}}

\* setOsatState and setOsatTimeout for each id of a set: every client under
\* the id gets the commands; an id without a client gets nothing.
WriteTo(ids, cmds) ==
  /\ toOsat' = [o \in Osats |-> IF o \in Under(ids) THEN toOsat[o] \o cmds ELSE toOsat[o]]
  /\ dropped' = (dropped \ ids) \cup {i \in ids : Under({i}) = {}}

-----------------------------------------------------------------------------
(* The Osats, as far as the server can tell. *)

OsatSends(o, payload) ==
  inbox' = Append(inbox, [osat |-> o, id |-> id[o], payload |-> payload])

\* A device sends its configuration when it is idle and when it is asked.
\* From a device the list has under its id that only refreshes an entry
\* nothing here reads, so it is left out; of another, one message waits at
\* most (bound).
OsatAnnounces(o) ==
  IF \/ <<id[o], o>> \in clients
     \/ \E k \in 1 .. Len(inbox) : inbox[k] = [osat |-> o, id |-> id[o], payload |-> "config"]
  THEN UNCHANGED inbox
  ELSE OsatSends(o, "config")

Announce(o) ==
  /\ light[o] = "IDLE"
  /\ OsatAnnounces(o)
  /\ UNCHANGED <<serverVars, toOsat, dropped, osatVars>>

\* Seeded fault: every command is taken for a state.
SeededReceive(o) ==
  /\ toOsat[o] # <<>>
  /\ toOsat' = [toOsat EXCEPT ![o] = Tail(@)]
  /\ light' = [light EXCEPT ![o] = Head(toOsat[o])]
  /\ UNCHANGED <<serverVars, inbox, dropped, id, hits, faults>>

\* "Got invalid Command ...": of a device the list has under its id the
\* server only prints it, so that it is left out too.
OsatRefuses(o) ==
  IF <<id[o], o>> \in clients THEN UNCHANGED inbox ELSE OsatSends(o, "invalid")

\* parseCmd: a state is taken over, a configuration is announced, and one
\* whose value is out of range is refused.
Receive(o) ==
  /\ toOsat[o] # <<>>
  /\ toOsat' = [toOsat EXCEPT ![o] = Tail(@)]
  /\ \/ /\ Head(toOsat[o]) \in OsatStates
        /\ light' = [light EXCEPT ![o] = Head(toOsat[o])]
        /\ UNCHANGED inbox
     \/ /\ Head(toOsat[o]) \notin OsatStates
        /\ OsatAnnounces(o)
        /\ UNCHANGED light
     \/ /\ Head(toOsat[o]) \in Saving
        /\ OsatRefuses(o)
        /\ UNCHANGED light
  /\ UNCHANGED <<serverVars, dropped, id, hits, faults>>

\* Seeded fault: hits are reported by an object that has not read the
\* configuration.
SeededHit(o) ==
  /\ light[o] \in {"ACTIVE", "ACTIVE_TO"} /\ hits < MaxHits
  /\ inbox' = Append(inbox, [osat |-> o, id |-> DefaultId, payload |-> "hit"])
  /\ light' = [light EXCEPT ![o] = "INACTIVE"]
  /\ hits' = hits + 1
  /\ UNCHANGED <<serverVars, toOsat, dropped, id, faults>>

Hit(o) ==
  /\ light[o] \in {"ACTIVE", "ACTIVE_TO"} /\ hits < MaxHits
  /\ OsatSends(o, "hit")
  /\ light' = [light EXCEPT ![o] = "INACTIVE"]
  /\ hits' = hits + 1
  /\ UNCHANGED <<serverVars, toOsat, dropped, id, faults>>

Timeout(o) ==
  /\ light[o] = "ACTIVE_TO"
  /\ OsatSends(o, "timeout")
  /\ light' = [light EXCEPT ![o] = "INACTIVE"]
  /\ UNCHANGED <<serverVars, toOsat, dropped, id, hits, faults>>

-----------------------------------------------------------------------------
(* Faults. What write_to returns is not looked at. *)

\* A command is lost: its connection failed, or a newer one replaced it
\* before the device had read it (Button!Lose).
Lose(o) ==
  /\ faults < MaxFaults /\ faults' = faults + 1
  /\ \E k \in 1 .. Len(toOsat[o]) :
       LET later == SubSeq(toOsat[o], k + 1, Len(toOsat[o]))
       IN  /\ toOsat' = [toOsat EXCEPT ![o] = SubSeq(@, 1, k - 1) \o later]
           /\ dropped' = IF /\ toOsat[o][k] \in OsatStates
                            /\ \A j \in 1 .. Len(later) : later[j] \notin OsatStates
                         THEN dropped \cup IdsOf(o) ELSE dropped
  /\ UNCHANGED <<serverVars, inbox, light, id, hits>>

\* Button!PowerCut. A device that was saving a configuration comes up with
\* the default one (Firmware!Erase, Firmware!Setup).
PowerCut(o) ==
  /\ faults < MaxFaults /\ faults' = faults + 1
  /\ toOsat' = [toOsat EXCEPT ![o] = <<>>]
  /\ light' = [light EXCEPT ![o] = "IDLE"]
  /\ dropped' = dropped \cup IdsOf(o)
  /\ \/ UNCHANGED id
     \/ /\ toOsat[o] # <<>> /\ Head(toOsat[o]) \in Saving
        /\ id' = [id EXCEPT ![o] = DefaultId]
  /\ UNCHANGED <<serverVars, inbox, hits>>

-----------------------------------------------------------------------------
(* OsatManager::spinOnce: messages of Osats, then one tick. *)

Running == current # None /\ modes[current].running

\* tcp_in_callback of a configuration: insert the client or update it.
HandleConfig ==
  /\ pc = "data" /\ inbox # <<>> /\ Head(inbox).payload = "config"
  /\ inbox' = Tail(inbox)
  /\ clients' = clients \cup {<<Head(inbox).id, Head(inbox).osat>>}
  /\ UNCHANGED <<disk, pc, modes, current, crashed, over, dropped, commands,
                 toOsat, osatVars>>

\* tcp_in_callback of anything else: ask an unknown sender for its
\* configuration, then hand an action to the current mode. _states.at
\* throws for an id the mode does not have; nothing catches it. What the mode
\* does not count, and what is no action, changes no game.
HandleAction ==
  /\ pc = "data" /\ inbox # <<>> /\ Head(inbox).payload # "config"
  /\ inbox' = Tail(inbox)
  /\ LET o == Head(inbox).osat
         i == Head(inbox).id
         action == Head(inbox).payload
         m == modes[current]
     IN  /\ toOsat' = IF <<i, o>> \in clients THEN toOsat
                      ELSE [toOsat EXCEPT ![o] = Append(@, "CFG-REQUEST")]
         /\ CASE ~Running \/ ~Counts(m, action) ->
                   UNCHANGED <<modes, crashed, over>>
              [] Running /\ Counts(m, action) /\ i \in m.cfg.ids ->
                   /\ modes' = [modes EXCEPT ![current] = ActOn(m, i, action)]
                   /\ over' = (over \/ (modes'[current].finish_up /\ ~m.finish_up))
                   /\ UNCHANGED crashed
              [] OTHER -> crashed' = "foreign_id" /\ UNCHANGED <<modes, over>>
  /\ UNCHANGED <<disk, pc, current, clients, dropped, commands, osatVars>>

\* The rest of the turn starts: the queue was found empty, though a message
\* may have arrived since.
TickStopped ==
  /\ pc = "data" /\ ~Running
  /\ pc' = "cmd"
  /\ UNCHANGED <<disk, modes, current, clients, crashed, over, dropped, commands,
                 inbox, toOsat, osatVars>>

TickReport ==
  /\ pc = "data" /\ Running /\ modes[current].finish_up
  /\ modes' = [modes EXCEPT ![current] = ReportTick(@)]
  /\ WriteTo(modes[current].cfg.ids, <<"INACTIVE">>)
  /\ pc' = "cmd"
  /\ UNCHANGED <<disk, current, clients, crashed, over, commands, inbox, osatVars>>

TickPlay ==
  /\ pc = "data" /\ Running /\ ~modes[current].finish_up
  /\ \E lit \in Choices(modes[current]) :
       /\ modes' = [modes EXCEPT ![current] = PlayTick(@, lit)]
       /\ WriteTo(lit, <<LitState(modes[current])>>)
  /\ over' = (over \/ modes'[current].finish_up)
  /\ pc' = "cmd"
  /\ UNCHANGED <<disk, current, clients, crashed, commands, inbox, osatVars>>

-----------------------------------------------------------------------------
(* g_srv.spinOnce: commands of the operator. *)

\* ModeHandler::create: insert does not replace a mode of that name.
Load(f) ==
  /\ pc = "cmd" /\ f \in disk
  /\ modes[f.mode_name] = None
  /\ modes' = [modes EXCEPT ![f.mode_name] = NewMode(f)]
  /\ UNCHANGED <<disk, pc, current, clients, crashed, over, dropped, commands,
                 inbox, toOsat, osatVars>>

\* readConfig of a file that does not parse, or lacks a field, throws, and
\* nothing catches it.
LoadMalformed ==
  /\ pc = "cmd" /\ Malformed \in disk
  /\ crashed' = "malformed_file"
  /\ UNCHANGED <<disk, pc, modes, current, clients, over, dropped, commands,
                 inbox, toOsat, osatVars>>

\* startMode: the mode that was current is replaced as it stands.
Start(n) ==
  /\ pc = "cmd" /\ commands < MaxCommands
  /\ modes[n] # None
  /\ current' = n
  /\ modes' = [modes EXCEPT ![n] = StartMode(@)]
  /\ WriteTo(modes[n].cfg.ids, StartCommands(modes[n]))
  /\ over' = FALSE
  /\ commands' = commands + 1
  /\ UNCHANGED <<disk, pc, clients, crashed, inbox, osatVars>>

\* Seeded fault: the mode is halted and the devices are not told.
SeededStop ==
  /\ pc = "cmd" /\ commands < MaxCommands /\ current # None
  /\ modes' = [modes EXCEPT ![current].running = FALSE]
  /\ commands' = commands + 1
  /\ UNCHANGED <<disk, pc, current, clients, over, inbox, osatVars, crashed, toOsat, dropped>>

\* stopMode: whatever its argument, the current mode is reset. Without one
\* the null pointer is followed.
Stop ==
  /\ pc = "cmd" /\ commands < MaxCommands
  /\ IF current = None
     THEN crashed' = "null_mode" /\ UNCHANGED <<modes, toOsat, dropped>>
     ELSE /\ modes' = [modes EXCEPT ![current] = ResetMode(@)]
          /\ WriteTo(modes[current].cfg.ids, <<"INACTIVE">>)
          /\ UNCHANGED crashed
  /\ commands' = commands + 1
  /\ UNCHANGED <<disk, pc, current, clients, over, inbox, osatVars>>

\* setOsatThreshAll: every entry of the list gets the threshold, a device
\* with two entries twice; modes are not told.
Thresh ==
  /\ pc = "cmd" /\ commands < MaxCommands
  /\ toOsat' = [o \in Osats |->
                  toOsat[o] \o [k \in 1 .. Cardinality(IdsOf(o)) |-> "CFG-THRESH"]]
  /\ commands' = commands + 1
  /\ UNCHANGED <<disk, pc, modes, current, clients, crashed, over, dropped, inbox, osatVars>>

NextTurn ==
  /\ pc = "cmd"
  /\ pc' = "data"
  /\ UNCHANGED <<disk, modes, current, clients, crashed, over, dropped, commands,
                 inbox, toOsat, osatVars>>

Tick == TickStopped \/ TickReport \/ TickPlay
HandleMessage == HandleConfig \/ HandleAction
Operator ==
  \/ \E f \in Files : Load(f)
  \/ LoadMalformed
  \/ \E n \in Names : Start(n)
  \/ Stop
  \/ Thresh
Osat(o) == Announce(o) \/ Receive(o) \/ Hit(o) \/ Timeout(o)
Fault(o) == Lose(o) \/ PowerCut(o)

Next ==
  /\ crashed = "no"
  /\ HandleMessage \/ Tick \/ Operator \/ NextTurn
     \/ \E o \in Osats : Osat(o) \/ Fault(o)

Spec == Init /\ [][Next]_vars

(***************************************************************************)
(* The loop turns for ever and messages reach it (TcpServer goes on        *)
(* accepting: the run tcp_accepts_again shows that it may cease to),       *)
(* devices run, a lit device that is not hit times out or, in a game       *)
(* without timeouts, is hit in the end, and the random choice does not     *)
(* avoid lighting something for ever. Nothing makes the operator type a    *)
(* command.                                                                *)
(***************************************************************************)
TickLights == TickPlay /\ modes[current].states # modes'[current].states

Fairness ==
  LET Alive(A) == crashed = "no" /\ A
  IN  /\ WF_vars(Alive(Tick \/ NextTurn))
      /\ SF_vars(Alive(HandleMessage))
      /\ SF_vars(Alive(TickLights))
      /\ \A o \in Osats : /\ WF_vars(Alive(Receive(o)))
                          /\ WF_vars(Alive(Hit(o) \/ Timeout(o)))

FairSpec == Spec /\ Fairness

-----------------------------------------------------------------------------
(* Safety. *)

\* The commands of a sequence that set the state; the last one decides.
StatesIn(cmds) == {k \in DOMAIN cmds : cmds[k] \in OsatStates}
Final(cmds, state) ==
  IF StatesIn(cmds) = {} THEN state
  ELSE cmds[CHOOSE k \in StatesIn(cmds) : \A j \in StatesIn(cmds) : j <= k]

\* The state a device will be in when it has taken what was written to it.
Destined(o) == Final(toOsat[o], light[o])

Answered(o) ==
  \E k \in 1 .. Len(inbox) : inbox[k].osat = o /\ inbox[k].payload \in {"hit", "timeout"}

\* The server never waits in vain: an id it takes for lit, and whose last
\* command was not lost, has a device that is lit or going to be, or whose
\* answer is on its way. Answers of earlier games, late configurations,
\* threshold commands and faults of other devices do not break it
\* (Mode_RandomN.h:29 against Mode.h:254).
NoLostOsat ==
  (Running /\ crashed = "no") =>
    \A i \in modes[current].cfg.ids \ dropped :
      modes[current].states[i] # "INACTIVE" =>
        \E o \in Under({i}) : Destined(o) \in {"ACTIVE", "ACTIVE_TO"} \/ Answered(o)

\* When the current mode is not running, every device of it is dark once it
\* has taken its commands, however the game ended (reset in Mode_RandomN.h:104
\* and its siblings, and the devices a hit or a timeout reached first), unless
\* the command itself was lost.
StoppedGameIsDark ==
  (current # None /\ ~Running) =>
    \A o \in Under(modes[current].cfg.ids \ dropped) : Destined(o) \in {"INACTIVE", "IDLE"}

\* A game of random_n reports only after its timeouts have been counted since
\* it was started, whatever the operator did in between (_finish_up is set in
\* one call and read in another, Mode_RandomN.h:43 and :57).
CountedReportEarned ==
  (Running /\ modes[current].finish_up /\ modes[current].cfg.mode_type = "random_n") => over

\* Where all modes have the same ids, the server dies of an id its mode does
\* not have (_states.at, Mode_RandomN.h:29) only after a device has lost its
\* configuration: neither a stopped game nor a late answer does it.
ForeignIdIsDefault == crashed = "foreign_id" => \E o \in Osats : id[o] = DefaultId

(* Liveness. *)

GameOf(f) == Running /\ modes[current].cfg = f /\ crashed = "no"
GameOver(f) == ~Running \/ modes[current].cfg # f \/ crashed # "no"

\* A game that ends by time comes to its end once the players rest, unless
\* the operator starts another: random_fill fills the board, random_n collects
\* its timeouts as long as one of its ids is not lost, whatever happens to the
\* others.
TimedGameEnds ==
  LET Healthy(f) == f.mode_type = "random_n" => ~(f.ids \subseteq dropped)
  IN  \A f \in {g \in Files : g.mode_type # "reverse_fill"} :
        (GameOf(f) /\ Healthy(f)) ~> (GameOver(f) \/ ~Healthy(f))

\* A reverse_fill game ends once the players have hit every device that is
\* lit: only a device still lit when the bound on hits is used up, or one that
\* is lost, keeps it going.
ClearingGameEnds ==
  LET Lit == \E o \in Osats : Destined(o) = "ACTIVE"
  IN  \A f \in {g \in Files : g.mode_type = "reverse_fill"} :
        (GameOf(f) /\ dropped = {}) ~> (GameOver(f) \/ dropped # {} \/ (hits = MaxHits /\ Lit))

-----------------------------------------------------------------------------
(* What the code is said to do, and does not do. *)

\* OsatManager.h:160 "only one mode at a time possible": a device that is lit
\* and has no command waiting belongs to the mode that is current.
OneModeAtATime ==
  \A o \in Osats :
    (light[o] \in {"ACTIVE", "ACTIVE_TO"} /\ toOsat[o] = <<>>) =>
      id[o] \in modes[current].cfg.ids

\* osat_server_terminal.cpp:113 "starts Mode by mode name": a game of any type
\* reports only after it has met its own end condition since it was started.
ReportEarned == (Running /\ modes[current].finish_up) => over
=============================================================================
