----------------------------- MODULE OsatFleet ------------------------------
(***************************************************************************)
(* The configurations of the Osats and the programs that look after them.  *)
(* osat_set_id_tool gives every client one id: its main thread turns       *)
(* spinOnce, a second thread waits for Enter and then writes, and a mutex  *)
(* is between them. The terminal server scans the network for clients when *)
(* it starts and sets thresholds. Both listen on port 1337, so one program *)
(* runs at a time, each with a ClientList of its own. Games are            *)
(* OsatServer's; here they have left their devices in some state.          *)
(*                                                                         *)
(* A device is one thread: while it waits in transmit() for a program that *)
(* listens it takes no command. It takes commands in the order they were   *)
(* written, and its messages are handled in the order it sent them.        *)
(* timeout_ms is left out, since no program here reads or writes it, and   *)
(* so is the signal strength, which no handler looks at.                   *)
(***************************************************************************)
EXTENDS ClientList, Sequences, FiniteSets

CONSTANTS
  Osats,        \* the devices: numbers, in the order of their addresses
  Vacant,       \* addresses that are scanned and have no device
  Fleets,       \* how earlier programs may have left the devices: records of
                \* functions saved, light and toOsat
  Target,       \* the argument of osat_set_id_tool
  Typed,        \* arguments of the terminal's thresh
  MaxThreads,   \* threads of a scan that may count at once (100)
  None,         \* nothing to say
  MaxLaunches,  \* bound: programs started
  MaxEvents     \* bound: lost commands, power cuts and thresh commands, together

DefaultConfig == [id |-> 255, hit_thresh |-> 50]
Configs == [id : 1 .. 255, hit_thresh : 1 .. 1023]
Lights == {"IDLE", "ACTIVE", "INACTIVE"}
Addresses == Osats \cup Vacant
Message == [osat : Osats, id : 1 .. 255, payload : {"config", "hit", "invalid"}, cfg : Configs]
Command == [kind : {"CFG-ID", "CFG-THRESH", "CFG-REQUEST"}, value : Nat]

ASSUME OsatFleetAssumption ==
  /\ Osats \subseteq Nat /\ Vacant \subseteq Nat \ Osats /\ IsFiniteSet(Addresses)
  /\ \A f \in Fleets : /\ f.saved \in [Osats -> Configs]
                       /\ f.light \in [Osats -> Lights]
                       /\ f.toOsat \in [Osats -> Seq(Command)]
  /\ Target \in 1 .. 255 /\ Typed \subseteq Nat
  /\ None \notin Message
  /\ MaxThreads \in Nat \ {0}
  /\ MaxLaunches \in Nat /\ MaxEvents \in Nat

VARIABLES
  saved,    \* saved[o]: the configuration of the device
  light,    \* light[o]: its state; an idle one announces itself
  sending,  \* sending[o]: what it is transmitting
  toOsat,   \* toOsat[o]: commands written and not taken by it yet
  prog,     \* the program that runs
  clients,  \* its ClientList
  inbox,    \* messages that reached it and are not handled yet
  main,     \* where its main thread is
  writer,   \* where thread_write of the tool is
  mtx,      \* mtx_osat: who holds it
  cfg,      \* the configuration the tool writes
  ids,      \* the ids it has not written to yet
  scan,     \* scan[a]: where the thread for an address is
  ended,    \* how the last program ended
  bound,    \* history: devices the program has to reach, whom no fault has met
  launches, events  \* history: what has been used of the bounds

osatVars == <<saved, light, sending>>
toolVars == <<writer, mtx, cfg, ids>>
runVars == <<prog, main, scan, ended>>
history == <<bound, launches, events>>
vars == <<osatVars, toOsat, inbox, clients, toolVars, runVars, history>>

\* The id before the bar is that of the configuration behind it.
Honest(m) == m.id = m.cfg.id

DeviceTypes == saved \in [Osats -> Configs] /\ light \in [Osats -> Lights]
MailTypes ==
  /\ sending \in [Osats -> Message \cup {None}]
  /\ \A o \in Osats : sending[o] # None => sending[o].osat = o /\ Honest(sending[o])
  /\ toOsat \in [Osats -> Seq(Command)]
  /\ inbox \in Seq(Message)
  /\ \A k \in DOMAIN inbox : Honest(inbox[k])
ListTypes ==
  /\ DOMAIN clients \subseteq (1 .. 255) \X Osats
  /\ \A pair \in DOMAIN clients : clients[pair] \in Configs /\ clients[pair].id = pair[1]
  /\ writer = "write" => cfg \in Configs
  /\ ids \subseteq getIds(clients)
RunTypes ==
  /\ prog \in {"none", "tool", "terminal"}
  /\ main \in {"none", "lock", "spin", "scan", "loop"}
  /\ writer \in {"none", "getchar", "lock", "check", "write", "exit", "gone"}
  /\ mtx \in {"free", "main", "writer"}
  /\ scan \in [Addresses -> {"none", "made", "counted", "done"}]
  /\ ended \in {"no", "success", "failure", "torn", "signal", "smashed"}
  /\ bound \subseteq Osats
  /\ launches \in 0 .. MaxLaunches /\ events \in 0 .. MaxEvents

TypeOK == DeviceTypes /\ MailTypes /\ ListTypes /\ RunTypes

Init ==
  /\ \E f \in Fleets : saved = f.saved /\ light = f.light /\ toOsat = f.toOsat
  /\ sending = [o \in Osats |-> None]
  /\ prog = "none" /\ clients = EmptyList /\ inbox = <<>>
  /\ main = "none" /\ writer = "none" /\ mtx = "free" /\ cfg = DefaultConfig /\ ids = {}
  /\ scan = [a \in Addresses |-> "none"]
  /\ ended = "no" /\ bound = {}
  /\ launches = 0 /\ events = 0

-----------------------------------------------------------------------------
(* The devices. *)

Says(o, config, payload) == [osat |-> o, id |-> config.id, payload |-> payload, cfg |-> config]

Free(o) == sending[o] = None
FromOsat(o) == {k \in DOMAIN inbox : inbox[k].osat = o}

\* The program has the device as it is.
Known(o) == Contains(clients, saved[o].id, o) /\ clients[<<saved[o].id, o>>] = saved[o]

\* An idle device announces itself again and again. Where that would change
\* nothing it is left out, and one message at most waits meanwhile (bound).
Announce(o) ==
  /\ light[o] = "IDLE" /\ Free(o) /\ FromOsat(o) = {} /\ ~Known(o)
  /\ sending' = [sending EXCEPT ![o] = Says(o, saved[o], "config")]
  /\ UNCHANGED <<saved, light, toOsat, inbox, clients, toolVars, runVars, history>>

\* A device that a game has left active; one with a timeout, which reports
\* once as well, is not told apart.
Hit(o) ==
  /\ light[o] = "ACTIVE" /\ Free(o)
  /\ sending' = [sending EXCEPT ![o] = Says(o, saved[o], "hit")]
  /\ light' = [light EXCEPT ![o] = "INACTIVE"]
  /\ UNCHANGED <<saved, toOsat, inbox, clients, toolVars, runVars, history>>

\* transmit(): connect is tried until somebody listens.
Transmit(o) ==
  /\ ~Free(o) /\ prog # "none"
  /\ inbox' = Append(inbox, sending[o])
  /\ sending' = [sending EXCEPT ![o] = None]
  /\ UNCHANGED <<saved, light, toOsat, clients, toolVars, runVars, history>>

\* Seeded fault: numbers are taken as they come.
SeededParsed(config, c) ==
  CASE c.kind = "CFG-ID"     -> [config EXCEPT !.id = c.value]
    [] c.kind = "CFG-THRESH" -> [config EXCEPT !.hit_thresh = c.value]
    [] OTHER                 -> config

\* What parseCmd makes of a configuration; out of range it is left as it is.
Parsed(config, c) ==
  CASE c.kind = "CFG-ID" /\ c.value \in 1 .. 255       -> [config EXCEPT !.id = c.value]
    [] c.kind = "CFG-THRESH" /\ c.value \in 1 .. 1023  -> [config EXCEPT !.hit_thresh = c.value]
    [] OTHER                                           -> config

Valid(c) == c.kind = "CFG-REQUEST" \/ (c.kind = "CFG-ID" /\ c.value \in 1 .. 255)
                                   \/ (c.kind = "CFG-THRESH" /\ c.value \in 1 .. 1023)

\* tickTcpIn: a command is taken, saved, and answered.
Receive(o) ==
  /\ Free(o) /\ toOsat[o] # <<>>
  /\ toOsat' = [toOsat EXCEPT ![o] = Tail(@)]
  /\ LET c == Head(toOsat[o])
         now == Parsed(saved[o], c)
     IN  /\ saved' = [saved EXCEPT ![o] = now]
         /\ sending' = [sending EXCEPT ![o] = Says(o, now, IF Valid(c) THEN "config" ELSE "invalid")]
  /\ UNCHANGED <<light, inbox, clients, toolVars, runVars, history>>

-----------------------------------------------------------------------------
(* Faults. *)

\* A command is lost: its connection failed, or a newer one replaced it
\* before the device had read it (Button!Lose).
Lose(o) ==
  /\ events < MaxEvents /\ events' = events + 1
  /\ \E k \in DOMAIN toOsat[o] :
       toOsat' = [toOsat EXCEPT ![o] = SubSeq(@, 1, k - 1) \o SubSeq(@, k + 1, Len(@))]
  /\ bound' = bound \ {o}
  /\ UNCHANGED <<osatVars, inbox, clients, toolVars, runVars, launches>>

\* The power goes and comes back: what had not left the device is gone, and
\* the configuration too if it was being saved (Firmware!Erase). setup()
\* ends with an announcement.
PowerCut(o) ==
  /\ events < MaxEvents /\ events' = events + 1
  /\ \E now \in {saved[o]} \cup
                (IF Free(o) /\ toOsat[o] # <<>> /\ Parsed(saved[o], Head(toOsat[o])) # saved[o]
                 THEN {DefaultConfig} ELSE {}) :
       /\ saved' = [saved EXCEPT ![o] = now]
       /\ sending' = [sending EXCEPT ![o] = Says(o, now, "config")]
  /\ light' = [light EXCEPT ![o] = "IDLE"]
  /\ toOsat' = [toOsat EXCEPT ![o] = <<>>]
  /\ bound' = bound \ {o}
  /\ UNCHANGED <<inbox, clients, toolVars, runVars, launches>>

-----------------------------------------------------------------------------
(* A program starts and ends. *)

Launch(p) ==
  /\ prog = "none" /\ launches < MaxLaunches
  /\ prog' = p /\ launches' = launches + 1
  /\ main' = IF p = "tool" THEN "lock" ELSE "scan"
  /\ writer' = IF p = "tool" THEN "getchar" ELSE "none"
  /\ ended' = "no" /\ bound' = Osats
  /\ UNCHANGED <<osatVars, toOsat, inbox, clients, mtx, cfg, ids, scan, events>>

\* The process is gone and with it its list, its mutex, its threads and the
\* messages it had not handled.
Ends(how) ==
  /\ prog' = "none" /\ ended' = how
  /\ clients' = EmptyList /\ inbox' = <<>> /\ ids' = {}
  /\ main' = "none" /\ writer' = "none" /\ mtx' = "free"
  /\ scan' = [a \in Addresses |-> "none"]
  /\ UNCHANGED <<osatVars, toOsat, cfg, history>>

\* SIGINT: the tool exits wherever it is, the terminal ends its loop.
Interrupt ==
  /\ (prog = "tool" /\ writer # "gone") \/ main = "loop"
  /\ Ends("signal")

-----------------------------------------------------------------------------
(* OsatManager::tcp_in_callback, called by spinOnce. *)

Write(o, cmds) == toOsat' = [toOsat EXCEPT ![o] = @ \o cmds]
Request == [kind |-> "CFG-REQUEST", value |-> 0]

Takes(m) ==
  /\ main = "loop" \/ (main = "spin" /\ writer # "gone")
  /\ m = Head(inbox)
  /\ inbox' = Tail(inbox)
  /\ UNCHANGED <<osatVars, toolVars, runVars, history>>

\* Seeded fault: a client of the list is not looked at again.
SeededHandleConfig(m) ==
  /\ Takes(m) /\ m.payload = "config"
  /\ clients' = IF Contains(clients, m.id, m.osat) THEN clients
                ELSE Insert(clients, m.id, m.osat, m.cfg)
  /\ UNCHANGED toOsat

\* A configuration: the client is inserted, or its entry is updated. The
\* entry under an id it had before stays.
HandleConfig(m) ==
  /\ Takes(m) /\ m.payload = "config"
  /\ clients' = IF Contains(clients, m.id, m.osat)
                THEN UpdateConfig(clients, m.id, m.osat, m.cfg)
                ELSE Insert(clients, m.id, m.osat, m.cfg)
  /\ UNCHANGED toOsat

\* Seeded fault: whether there is a mode is looked at first.
SeededHandleOther(m) ==
  /\ Takes(m) /\ m.payload # "config"
  /\ UNCHANGED <<toOsat, clients>>

\* Anything else: an unknown sender is asked for its configuration. There is
\* no mode here that an action could be for.
HandleOther(m) ==
  /\ Takes(m) /\ m.payload # "config"
  /\ IF Contains(clients, m.id, m.osat) THEN UNCHANGED toOsat ELSE Write(m.osat, <<Request>>)
  /\ UNCHANGED clients

-----------------------------------------------------------------------------
(* osat_set_id_tool: main() *)

MainLock ==
  /\ main = "lock" /\ mtx = "free" /\ writer # "gone"
  /\ main' = "spin" /\ mtx' = "main"
  /\ UNCHANGED <<osatVars, toOsat, inbox, clients, writer, cfg, ids, prog, scan, ended, history>>

\* The queue was found empty, though a message may have arrived since.
MainUnlock ==
  /\ main = "spin" /\ writer # "gone"
  /\ main' = "lock" /\ mtx' = "free"
  /\ UNCHANGED <<osatVars, toOsat, inbox, clients, writer, cfg, ids, prog, scan, ended, history>>

\* exit() of the writer has destroyed osat_manager and the main thread,
\* which the mutex no longer stops, uses it.
Tear ==
  /\ writer = "gone" /\ (main = "spin" \/ mtx = "free")
  /\ Ends("torn")

-----------------------------------------------------------------------------
(* osat_set_id_tool: thread_write() *)

Enter ==
  /\ writer = "getchar"
  /\ writer' = "lock"
  /\ UNCHANGED <<osatVars, toOsat, inbox, clients, mtx, cfg, ids, runVars, history>>

WriterLock ==
  /\ writer = "lock" /\ mtx = "free"
  /\ writer' = "check" /\ mtx' = "writer"
  /\ UNCHANGED <<osatVars, toOsat, inbox, clients, cfg, ids, runVars, history>>

\* A device is bound to get the id if the list has it and nothing is under
\* way between the two.
Settled == {o \in Osats : /\ \E id \in getIds(clients) : Contains(clients, id, o)
                          /\ Free(o) /\ FromOsat(o) = {} /\ toOsat[o] = <<>>}

\* Seeded fault: without clients the thread returns.
SeededCheck ==
  /\ writer = "check" /\ clients = EmptyList
  /\ writer' = "none"
  /\ UNCHANGED <<osatVars, toOsat, inbox, clients, mtx, cfg, ids, runVars, history>>

\* Without clients the tool exits with the mutex held. Else it takes the
\* configuration of the target id, or the first there is, for all.
Check ==
  /\ writer = "check"
  /\ IF clients = EmptyList
     THEN writer' = "gone" /\ ended' = "failure" /\ UNCHANGED <<cfg, ids, bound>>
     ELSE /\ cfg' = [IF Target \in getIds(clients) THEN First(clients, Target) ELSE Front(clients)
                       EXCEPT !.id = Target]
          /\ ids' = getIds(clients)
          /\ bound' = bound \cap Settled
          /\ writer' = "write" /\ UNCHANGED ended
  /\ UNCHANGED <<osatVars, toOsat, inbox, clients, mtx, prog, main, scan,
                 launches, events>>

\* What setConfig sends to a client: only what its entry has otherwise.
Different(old) ==
  (IF old.id # cfg.id THEN <<[kind |-> "CFG-ID", value |-> cfg.id]>> ELSE <<>>)
  \o (IF old.hit_thresh # cfg.hit_thresh
      THEN <<[kind |-> "CFG-THRESH", value |-> cfg.hit_thresh]>> ELSE <<>>)

\* Seeded fault: a client that has the id is passed over.
SeededSetConfig(id) ==
  /\ writer = "write" /\ ids # {} /\ id = Least(ids)
  /\ toOsat' = [o \in Osats |-> IF Contains(clients, id, o) /\ clients[<<id, o>>].id # cfg.id
                                THEN toOsat[o] \o Different(clients[<<id, o>>])
                                ELSE toOsat[o]]
  /\ ids' = ids \ {id}
  /\ UNCHANGED <<osatVars, inbox, clients, writer, mtx, cfg, runVars, history>>

\* setConfig for the next id. What write_to returns is not looked at.
SetConfig(id) ==
  /\ writer = "write" /\ ids # {} /\ id = Least(ids)
  /\ toOsat' = [o \in Osats |-> IF Contains(clients, id, o)
                                THEN toOsat[o] \o Different(clients[<<id, o>>])
                                ELSE toOsat[o]]
  /\ ids' = ids \ {id}
  /\ UNCHANGED <<osatVars, inbox, clients, writer, mtx, cfg, runVars, history>>

WriterUnlock ==
  /\ writer = "write" /\ ids = {}
  /\ writer' = "exit" /\ mtx' = "free"
  /\ UNCHANGED <<osatVars, toOsat, inbox, clients, cfg, ids, runVars, history>>

\* exit() destroys osat_manager, then the process ends.
Exit ==
  /\ writer = "exit"
  /\ writer' = "gone" /\ ended' = "success"
  /\ UNCHANGED <<osatVars, toOsat, inbox, clients, mtx, cfg, ids, prog, main, scan, history>>

Gone == writer = "gone" /\ Ends(ended)

-----------------------------------------------------------------------------
(* The terminal server: findClients(), and thresh. *)

Counted == {a \in Addresses : scan[a] = "counted"}

\* The next thread, if num_thrds allows it.
ScanNext(a) ==
  /\ main = "scan" /\ scan[a] = "none" /\ \A b \in Addresses : b < a => scan[b] # "none"
  /\ Cardinality(Counted) < MaxThreads
  /\ scan' = [scan EXCEPT ![a] = "made"]
  /\ UNCHANGED <<osatVars, toOsat, inbox, clients, toolVars, prog, main, ended, history>>

\* num_thrds++ of a thread. When findClients has returned, num_thrds is no
\* more: what the thread adds one to may do no harm, or end the process.
ScanCount(a) ==
  /\ scan[a] = "made"
  /\ \/ /\ scan' = [scan EXCEPT ![a] = "counted"]
        /\ UNCHANGED <<osatVars, toOsat, inbox, clients, toolVars, prog, main, ended, history>>
     \/ main = "loop" /\ Ends("smashed")

\* write_to and num_thrds--, which has the same choice.
ScanWrite(a) ==
  /\ scan[a] = "counted"
  /\ scan' = [scan EXCEPT ![a] = "done"]
  /\ IF a \in Osats THEN Write(a, <<Request>>) ELSE UNCHANGED toOsat
  /\ UNCHANGED <<osatVars, inbox, clients, toolVars, prog, main, ended, history>>

\* num_thrds is zero; a thread that has not counted itself is not noticed.
ScanDone ==
  /\ main = "scan" /\ \A a \in Addresses : scan[a] # "none"
  /\ Counted = {}
  /\ main' = "loop"
  /\ UNCHANGED <<osatVars, toOsat, inbox, clients, toolVars, prog, scan, ended, history>>

\* setOsatThreshAll: the number is cut to uint16; every entry gets it.
Thresh(v) ==
  /\ main = "loop" /\ events < MaxEvents
  /\ events' = events + 1
  /\ LET Entries(o) == {id \in getIds(clients) : Contains(clients, id, o)}
     IN  toOsat' = [o \in Osats |-> toOsat[o] \o
           [k \in 1 .. Cardinality(Entries(o)) |-> [kind |-> "CFG-THRESH", value |-> v % 65536]]]
  /\ UNCHANGED <<osatVars, inbox, clients, toolVars, runVars, bound, launches>>

-----------------------------------------------------------------------------
Handle == inbox # <<>> /\ (HandleConfig(Head(inbox)) \/ HandleOther(Head(inbox)))
MainThread == MainLock \/ MainUnlock \/ Handle
WriterThread == Check \/ (\E id \in ids : SetConfig(id)) \/ WriterUnlock \/ Exit \/ Gone
Scan == (\E a \in Addresses : ScanNext(a) \/ ScanCount(a) \/ ScanWrite(a)) \/ ScanDone
User == (\E p \in {"tool", "terminal"} : Launch(p)) \/ Enter \/ Interrupt
        \/ (\E v \in Typed : Thresh(v))
Osat(o) == Announce(o) \/ Hit(o) \/ Transmit(o) \/ Receive(o)
Fault(o) == Lose(o) \/ PowerCut(o)

Next ==
  \/ MainThread \/ WriterLock \/ WriterThread \/ Tear \/ Scan \/ User
  \/ \E o \in Osats : Osat(o) \/ Fault(o)

Spec == Init /\ [][Next]_vars

(***************************************************************************)
(* Threads run, devices run, spinOnce comes to the messages that wait, and *)
(* the main thread sleeps between two turns, so that the writer gets the   *)
(* mutex in the end. Nothing makes anybody start a program or press Enter. *)
(***************************************************************************)
Fairness ==
  /\ WF_vars(MainLock) /\ WF_vars(MainUnlock) /\ SF_vars(Handle)
  /\ SF_vars(WriterLock) /\ WF_vars(WriterThread)
  /\ WF_vars(Scan)
  /\ \A o \in Osats : WF_vars(Transmit(o)) /\ SF_vars(Receive(o))

FairSpec == Spec /\ Fairness

-----------------------------------------------------------------------------
(* Safety. *)

\* A program that has nothing under way from a device, and has it under its
\* id, has its configuration as it is: whatever was changed by commands, by
\* a power cut or by a program that has ended was announced (parseCmd's answer
\* at wemos_osat_full.ino:483, OsatManager.cpp:247-257).
CacheFresh ==
  \A o \in Osats :
    (Free(o) /\ FromOsat(o) = {} /\ Contains(clients, saved[o].id, o)) =>
      clients[<<saved[o].id, o>>] = saved[o]

\* "set the given ID ... to all connected osat clients" (osat_set_id_tool.cpp:73),
\* which comes to: when the tool has ended by itself, each device it had in its
\* list with nothing under way gets the configuration that was written as soon
\* as it has taken its commands, unless a command or its power was lost; stale
\* entries, commands of earlier programs and the race at exit do not prevent it.
ToolSets ==
  (prog = "none" /\ ended \in {"success", "torn"}) =>
    \A o \in bound : toOsat[o] = <<>> => saved[o] = cfg

(* Liveness. *)

Listed(o) == Contains(clients, saved[o].id, o)

\* A device is found, that is, gets into the list, if the terminal scans for
\* it, whatever state a game has left it in and though the threads of the scan
\* are not waited for properly, and if the program hears any message of it:
\* only a fault or the end of the program prevents it, as long as TcpServer
\* goes on accepting (the run tcp_accepts_again shows that it may cease to).
DevicesAreFound ==
  LET Sought(o) == prog = "terminal" \/ FromOsat(o) # {}
  IN  \A o \in Osats :
        (Sought(o) /\ o \in bound) ~> (Listed(o) \/ prog = "none" \/ o \notin bound)

\* Once Enter is pressed the tool ends, with or without clients, though the
\* failing exit keeps the mutex and the other thread wants it for every turn.
ToolEnds == writer = "lock" ~> prog = "none"
=============================================================================
