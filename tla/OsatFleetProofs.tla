-------------------------- MODULE OsatFleetProofs --------------------------
(***************************************************************************)
(* Proofs about OsatFleet for any number of devices, addresses, threads,   *)
(* launches and faults.                                                    *)
(***************************************************************************)
EXTENDS OsatFleet, FiniteSetTheorems, SequenceTheorems, WellFoundedInduction, TLAPS

(***************************************************************************)
(* Lemmas about what the module is built from.                             *)
(***************************************************************************)

LEMMA LeastIsMember ==
  ASSUME NEW S, S \subseteq Nat, S # {}
  PROVE  Least(S) \in S
<1>1. PICK n \in S : \A k \in S : <<k, n>> \notin OpToRel(<, Nat)
  BY WFMin, NatLessThanWellFounded, Zenon
<1>2. \A k \in S : ~(k < n)
  BY <1>1, Zenon DEF OpToRel
<1>3. \A k \in S : n <= k
  BY <1>2
<1> QED  BY <1>3 DEF Least

\* A device keeps a valid configuration whatever it is sent.
LEMMA ParsedIsConfig ==
  ASSUME NEW config \in Configs, NEW c \in Command
  PROVE  Parsed(config, c) \in Configs /\ (~Valid(c) => Parsed(config, c) = config)
<1>1. CASE c.kind = "CFG-ID" /\ c.value \in 1 .. 255
  <2>1. Parsed(config, c) = [config EXCEPT !.id = c.value] /\ Valid(c)
    BY <1>1 DEF Parsed, Valid
  <2> QED  BY <1>1, <2>1 DEF Configs
<1>2. CASE c.kind = "CFG-THRESH" /\ c.value \in 1 .. 1023
  <2>1. Parsed(config, c) = [config EXCEPT !.hit_thresh = c.value] /\ Valid(c)
    BY <1>2 DEF Parsed, Valid
  <2> QED  BY <1>2, <2>1 DEF Configs
<1>3. CASE /\ ~(c.kind = "CFG-ID" /\ c.value \in 1 .. 255)
           /\ ~(c.kind = "CFG-THRESH" /\ c.value \in 1 .. 1023)
  BY <1>3 DEF Parsed
<1> QED  BY <1>1, <1>2, <1>3

LEMMA SaysMessage ==
  ASSUME NEW o \in Osats, NEW config \in Configs, NEW p \in {"config", "hit", "invalid"}
  PROVE  Says(o, config, p) \in Message /\ Says(o, config, p).osat = o
         /\ Honest(Says(o, config, p))
BY DEF Says, Message, Configs, Honest

LEMMA InitTypes == Init => TypeOK
<1> SUFFICES ASSUME Init PROVE TypeOK
  OBVIOUS
<1>1. PICK f \in Fleets : saved = f.saved /\ light = f.light /\ toOsat = f.toOsat
  BY DEF Init
<1>2. DeviceTypes /\ MailTypes
  BY <1>1, OsatFleetAssumption DEF Init, DeviceTypes, MailTypes
<1>3. ListTypes /\ RunTypes
  BY OsatFleetAssumption DEF Init, ListTypes, RunTypes, EmptyList, getIds
<1> QED  BY <1>2, <1>3 DEF TypeOK

(***************************************************************************)
(* Steps of the devices leave the program alone, but for a message.        *)
(***************************************************************************)
LEMMA OsatTypes ==
  ASSUME TypeOK, NEW o \in Osats, Osat(o)
  PROVE  TypeOK'
<1> USE DEF TypeOK
<1>1. ListTypes' /\ RunTypes'
  BY DEF Osat, Announce, Hit, Transmit, Receive, ListTypes, RunTypes, toolVars, runVars, history
<1>2. CASE Announce(o)
  BY <1>1, <1>2, SaysMessage DEF Announce, DeviceTypes, MailTypes
<1>3. CASE Hit(o)
  BY <1>1, <1>3, SaysMessage DEF Hit, DeviceTypes, MailTypes, Lights
<1>4. CASE Transmit(o)
  <2>1. sending[o] \in Message /\ Honest(sending[o]) /\ DeviceTypes'
    BY <1>4 DEF Transmit, Free, DeviceTypes, MailTypes
  <2>2. inbox' \in Seq(Message) /\ \A k \in DOMAIN inbox' : Honest(inbox'[k])
    BY <1>4, <2>1 DEF Transmit, MailTypes
  <2>3. MailTypes'
    BY <1>4, <2>2 DEF Transmit, MailTypes, Honest
  <2> QED  BY <1>1, <2>1, <2>3
<1>5. CASE Receive(o)
  <2>1. Head(toOsat[o]) \in Command /\ Tail(toOsat[o]) \in Seq(Command)
    BY <1>5 DEF Receive, MailTypes
  <2> QED  BY <1>1, <1>5, <2>1, ParsedIsConfig, SaysMessage DEF Receive, DeviceTypes, MailTypes
<1> QED  BY <1>2, <1>3, <1>4, <1>5 DEF Osat

LEMMA FaultTypes ==
  ASSUME TypeOK, NEW o \in Osats, Fault(o)
  PROVE  TypeOK'
<1> USE DEF TypeOK
<1>1. UNCHANGED <<clients, toolVars, runVars, launches>> /\ bound' = bound \ {o}
  BY DEF Fault, Lose, PowerCut
<1>2. events < MaxEvents /\ events' = events + 1
  BY DEF Fault, Lose, PowerCut
<1>3. ListTypes' /\ RunTypes'
  <2>1. ListTypes'
    BY <1>1 DEF ListTypes, toolVars
  <2>2. events' \in 0 .. MaxEvents
    BY <1>2, OsatFleetAssumption DEF RunTypes
  <2>3. RunTypes'
    BY <1>1, <2>2 DEF RunTypes, toolVars, runVars
  <2> QED  BY <2>1, <2>3
<1>4. CASE Lose(o)
  <2>1. PICK k \in DOMAIN toOsat[o] :
          toOsat' = [toOsat EXCEPT ![o] = SubSeq(@, 1, k - 1) \o SubSeq(@, k + 1, Len(@))]
    BY <1>4 DEF Lose
  <2>2. toOsat[o] \in Seq(Command)
    BY DEF MailTypes
  <2>3. k \in 1 .. Len(toOsat[o]) /\ \A n \in 1 .. Len(toOsat[o]) : toOsat[o][n] \in Command
    BY <2>1, <2>2, LenProperties, ElementOfSeq
  <2>4. /\ SubSeq(toOsat[o], 1, k - 1) \in Seq(Command)
        /\ SubSeq(toOsat[o], k + 1, Len(toOsat[o])) \in Seq(Command)
    BY <2>2, <2>3, SubSeqProperties
  <2>5. SubSeq(toOsat[o], 1, k - 1) \o SubSeq(toOsat[o], k + 1, Len(toOsat[o])) \in Seq(Command)
    BY <2>4, ConcatProperties
  <2>6. toOsat' \in [Osats -> Seq(Command)]
    <3> DEFINE rest == SubSeq(toOsat[o], 1, k - 1) \o SubSeq(toOsat[o], k + 1, Len(toOsat[o]))
    <3>1. toOsat' = [toOsat EXCEPT ![o] = rest]
      BY <2>1
    <3>2. rest \in Seq(Command)
      BY <2>5
    <3> HIDE DEF rest
    <3> QED  BY <3>1, <3>2 DEF MailTypes
  <2> QED  BY <1>3, <1>4, <2>6 DEF Lose, DeviceTypes, MailTypes, osatVars
<1>5. CASE PowerCut(o)
  <2>1. PICK now : /\ now = saved[o] \/ now = DefaultConfig
                   /\ saved' = [saved EXCEPT ![o] = now]
                   /\ sending' = [sending EXCEPT ![o] = Says(o, now, "config")]
    BY <1>5 DEF PowerCut
  <2>2. now \in Configs
    BY <2>1 DEF DeviceTypes, DefaultConfig, Configs
  <2> QED  BY <1>3, <1>5, <2>1, <2>2, SaysMessage DEF PowerCut, DeviceTypes, MailTypes, Lights
<1> QED  BY <1>4, <1>5 DEF Fault

(***************************************************************************)
(* A program starts and ends, and its user.                                *)
(***************************************************************************)
LEMMA EndsTypes ==
  ASSUME TypeOK, NEW how \in {"success", "failure", "torn", "signal", "smashed", "no"}, Ends(how)
  PROVE  TypeOK'
<1> USE DEF TypeOK
<1>1. DeviceTypes' /\ MailTypes'
  BY DEF Ends, DeviceTypes, MailTypes, osatVars
<1>2. ListTypes' /\ RunTypes'
  BY DEF Ends, ListTypes, RunTypes, history, EmptyList, getIds
<1> QED  BY <1>1, <1>2

LEMMA LaunchTypes ==
  ASSUME TypeOK, NEW p \in {"tool", "terminal"}, Launch(p)
  PROVE  TypeOK'
<1> USE DEF TypeOK
<1>1. DeviceTypes' /\ MailTypes'
  BY DEF Launch, DeviceTypes, MailTypes, osatVars
<1>2. ListTypes' /\ RunTypes'
  BY OsatFleetAssumption DEF Launch, ListTypes, RunTypes
<1> QED  BY <1>1, <1>2

LEMMA HandleTypes ==
  ASSUME TypeOK, Handle
  PROVE  TypeOK'
<1> USE DEF TypeOK
<1> DEFINE m == Head(inbox)
<1>1. m \in Message /\ Honest(m) /\ Tail(inbox) \in Seq(Message)
  <2>1. inbox \in Seq(Message) /\ inbox # <<>>
    BY DEF Handle, MailTypes
  <2>2. m = inbox[1] /\ 1 \in DOMAIN inbox
    BY <2>1
  <2> QED  BY <2>1, <2>2 DEF MailTypes
<1>2. \A k \in DOMAIN Tail(inbox) : k + 1 \in DOMAIN inbox /\ Tail(inbox)[k] = inbox[k + 1]
  BY <1>1 DEF Handle, MailTypes
<1>3. Takes(m) /\ DeviceTypes' /\ RunTypes'
  BY DEF Handle, HandleConfig, HandleOther, Takes, DeviceTypes, RunTypes, osatVars, toolVars,
         runVars, history
<1>4. CASE HandleConfig(m)
  <2>1. MailTypes'
    BY <1>1, <1>2, <1>4 DEF HandleConfig, Takes, MailTypes, osatVars, Honest
  <2>2. m.osat \in Osats /\ m.id \in 1 .. 255 /\ m.cfg \in Configs /\ m.cfg.id = m.id
    BY <1>1 DEF Message, Honest
  <2>3. /\ DOMAIN clients' = DOMAIN clients \cup {<<m.id, m.osat>>}
        /\ \A pair \in DOMAIN clients' :
             clients'[pair] = IF pair = <<m.id, m.osat>> THEN m.cfg ELSE clients[pair]
    BY <1>4 DEF HandleConfig, Insert, UpdateConfig, Contains
  <2>4. ListTypes'
    BY <1>3, <2>2, <2>3 DEF Takes, ListTypes, toolVars, getIds
  <2> QED  BY <1>3, <2>1, <2>4
<1>5. CASE HandleOther(m)
  <2>1. toOsat' \in [Osats -> Seq(Command)]
    <3>1. m.osat \in Osats /\ Request \in Command
      BY <1>1 DEF Message, Request, Command
    <3>2. \A o \in Osats : toOsat[o] \o <<Request>> \in Seq(Command)
      BY <3>1 DEF MailTypes
    <3> QED  BY <1>5, <3>1, <3>2 DEF HandleOther, Write, MailTypes
  <2>2. MailTypes'
    BY <1>1, <1>2, <1>3, <2>1 DEF Takes, MailTypes, osatVars, Honest
  <2>3. ListTypes'
    BY <1>5 DEF HandleOther, Takes, ListTypes, toolVars
  <2> QED  BY <1>3, <2>2, <2>3
<1> QED  BY <1>4, <1>5 DEF Handle

(***************************************************************************)
(* The threads of the tool.                                                *)
(***************************************************************************)

\* What the tool writes is a configuration of its list.
LEMMA FirstIsListed ==
  ASSUME ListTypes, NEW id \in getIds(clients)
  PROVE  First(clients, id) \in Configs
<1>1. At(clients, id) \subseteq Nat /\ At(clients, id) # {}
  <2>1. \A pair \in DOMAIN clients : pair[2] \in Nat
    BY OsatFleetAssumption DEF ListTypes
  <2>2. PICK pair \in DOMAIN clients : pair[1] = id
    BY DEF getIds
  <2>3. pair[2] \in At(clients, id)
    BY <2>2 DEF At
  <2>4. At(clients, id) \subseteq Nat
    BY <2>1 DEF At
  <2> QED  BY <2>3, <2>4
<1>2. Least(At(clients, id)) \in At(clients, id)
  BY <1>1, LeastIsMember
<1>3. <<id, Least(At(clients, id))>> \in DOMAIN clients
  <2>1. PICK pair \in DOMAIN clients : pair[1] = id /\ pair[2] = Least(At(clients, id))
    BY <1>2 DEF At
  <2>2. pair = <<pair[1], pair[2]>>
    BY DEF ListTypes
  <2> QED  BY <2>1, <2>2
<1> QED  BY <1>3 DEF First, ListTypes

LEMMA CheckTypes ==
  ASSUME TypeOK, Check
  PROVE  TypeOK'
<1> USE DEF TypeOK
<1>1. DeviceTypes' /\ MailTypes'
  BY DEF Check, DeviceTypes, MailTypes, osatVars
<1>2. RunTypes'
  BY DEF Check, RunTypes
<1>3. ListTypes'
  <2>1. CASE clients = EmptyList
    BY <2>1 DEF Check, ListTypes
  <2>2. CASE clients # EmptyList
    <3>1. getIds(clients) # {}
      <4>1. DOMAIN clients # {}
        BY <2>2 DEF EmptyList, ListTypes
      <4> QED  BY <4>1 DEF getIds
    <3>2. getIds(clients) \subseteq Nat
      BY DEF getIds, ListTypes
    <3>3. Front(clients) \in Configs
      BY <3>1, <3>2, LeastIsMember, FirstIsListed DEF Front
    <3>4. cfg' \in Configs
      <4>1. PICK c \in Configs : cfg' = [c EXCEPT !.id = Target]
        BY <2>2, <3>3, FirstIsListed DEF Check
      <4>2. Target \in 1 .. 255
        BY OsatFleetAssumption
      <4> QED  BY <4>1, <4>2 DEF Configs
    <3> QED  BY <2>2, <3>4 DEF Check, ListTypes
  <2> QED  BY <2>1, <2>2
<1> QED  BY <1>1, <1>2, <1>3

\* The two settings of a configuration, each as the line that sets it.
LEMMA ConfigLines ==
  ASSUME NEW c \in Configs
  PROVE  /\ [kind |-> "CFG-ID", value |-> c.id] \in Command
         /\ [kind |-> "CFG-THRESH", value |-> c.hit_thresh] \in Command
<1>1. c.id \in 1 .. 255 /\ c.hit_thresh \in 1 .. 1023
  BY DEF Configs
<1>2. c.id \in Nat
  BY <1>1
<1>3. c.hit_thresh \in Nat
  BY <1>1
<1> QED  BY <1>2, <1>3 DEF Command

LEMMA SetConfigTypes ==
  ASSUME TypeOK, NEW id \in ids, SetConfig(id)
  PROVE  TypeOK'
<1> USE DEF TypeOK
<1>1. DeviceTypes' /\ ListTypes' /\ RunTypes'
  BY DEF SetConfig, DeviceTypes, ListTypes, RunTypes, osatVars, runVars, history
<1>2. \A old \in Configs : Different(old) \in Seq(Command)
  <2> SUFFICES ASSUME NEW old \in Configs PROVE Different(old) \in Seq(Command)
    OBVIOUS
  <2>1. cfg \in Configs
    BY DEF SetConfig, ListTypes
  <2>2. /\ [kind |-> "CFG-ID", value |-> cfg.id] \in Command
        /\ [kind |-> "CFG-THRESH", value |-> cfg.hit_thresh] \in Command
    BY <2>1, ConfigLines
  <2>3. /\ <<[kind |-> "CFG-ID", value |-> cfg.id]>> \in Seq(Command)
        /\ <<[kind |-> "CFG-THRESH", value |-> cfg.hit_thresh]>> \in Seq(Command)
        /\ <<>> \in Seq(Command)
    BY <2>2
  <2> QED  BY <2>3, ConcatProperties DEF Different
<1>3. MailTypes'
  <2>1. \A o \in Osats : toOsat'[o] \in Seq(Command)
    <3> SUFFICES ASSUME NEW o \in Osats PROVE toOsat'[o] \in Seq(Command)
      OBVIOUS
    <3>1. CASE Contains(clients, id, o)
      <4>1. clients[<<id, o>>] \in Configs
        BY <3>1 DEF Contains, ListTypes
      <4>2. toOsat[o] \o Different(clients[<<id, o>>]) \in Seq(Command)
        BY <1>2, <4>1, ConcatProperties DEF MailTypes
      <4> QED  BY <3>1, <4>2 DEF SetConfig
    <3>2. CASE ~Contains(clients, id, o)
      BY <3>2 DEF SetConfig, MailTypes
    <3> QED  BY <3>1, <3>2
  <2>2. toOsat' \in [Osats -> Seq(Command)]
    BY <2>1 DEF SetConfig
  <2> QED  BY <2>2 DEF SetConfig, MailTypes, osatVars
<1> QED  BY <1>1, <1>3

LEMMA ToolTypes ==
  ASSUME TypeOK, MainLock \/ MainUnlock \/ Enter \/ WriterLock \/ WriterUnlock \/ Exit
  PROVE  TypeOK'
<1> USE DEF TypeOK, MainLock, MainUnlock, Enter, WriterLock, WriterUnlock, Exit
<1>1. DeviceTypes' /\ MailTypes'
  BY DEF DeviceTypes, MailTypes, osatVars
<1>2. ListTypes' /\ RunTypes'
  BY DEF ListTypes, RunTypes, runVars, history
<1> QED  BY <1>1, <1>2

(***************************************************************************)
(* The scan and thresh.                                                    *)
(***************************************************************************)
LEMMA ScanTypes ==
  ASSUME TypeOK, Scan
  PROVE  TypeOK'
<1> USE DEF TypeOK
<1>1. CASE ScanDone
  <2>1. DeviceTypes' /\ MailTypes'
    BY <1>1 DEF ScanDone, DeviceTypes, MailTypes, osatVars
  <2>2. ListTypes' /\ RunTypes'
    BY <1>1 DEF ScanDone, ListTypes, RunTypes, toolVars, history
  <2> QED  BY <2>1, <2>2
<1>2. ASSUME NEW a \in Addresses, ScanNext(a) \/ ScanCount(a)
      PROVE  TypeOK'
  <2>1. CASE Ends("smashed")
    BY <2>1, EndsTypes
  <2>2. CASE ~Ends("smashed")
    <3>1. /\ UNCHANGED <<osatVars, toOsat, inbox, clients, toolVars, prog, main, ended, history>>
          /\ \E s \in {"made", "counted"} : scan' = [scan EXCEPT ![a] = s]
      BY <1>2, <2>2 DEF ScanNext, ScanCount
    <3>2. DeviceTypes' /\ MailTypes'
      BY <3>1 DEF DeviceTypes, MailTypes, osatVars
    <3>3. ListTypes' /\ RunTypes'
      BY <3>1 DEF ListTypes, RunTypes, toolVars, history
    <3> QED  BY <3>2, <3>3
  <2> QED  BY <2>1, <2>2
<1>3. ASSUME NEW a \in Addresses, ScanWrite(a)
      PROVE  TypeOK'
  <2>1. toOsat' \in [Osats -> Seq(Command)]
    <3>1. \A o \in Osats : toOsat[o] \o <<Request>> \in Seq(Command)
      BY DEF Request, Command, MailTypes
    <3> QED  BY <1>3, <3>1 DEF ScanWrite, Write, MailTypes
  <2>2. DeviceTypes' /\ MailTypes'
    BY <1>3, <2>1 DEF ScanWrite, DeviceTypes, MailTypes, osatVars
  <2>3. ListTypes' /\ RunTypes'
    BY <1>3 DEF ScanWrite, ListTypes, RunTypes, toolVars, history
  <2> QED  BY <2>2, <2>3
<1> QED  BY <1>1, <1>2, <1>3 DEF Scan

LEMMA ThreshTypes ==
  ASSUME TypeOK, NEW v \in Typed, Thresh(v)
  PROVE  TypeOK'
<1> USE DEF TypeOK
<1> DEFINE Entries(o) == {id \in getIds(clients) : Contains(clients, id, o)}
           Cmd == [kind |-> "CFG-THRESH", value |-> v % 65536]
<1>1. \A o \in Osats : Cardinality(Entries(o)) \in Nat
  <2>1. \A o \in Osats : Entries(o) \subseteq 1 .. 255
    BY DEF getIds, ListTypes
  <2>2. IsFiniteSet(1 .. 255)
    <3>1. 1 \in Int /\ 255 \in Int
      OBVIOUS
    <3> QED  BY <3>1, FS_Interval, Zenon
  <2> QED  BY <2>1, <2>2, FS_Subset, FS_CardinalityType
<1>2. Cmd \in Command
  <2>1. Typed \subseteq Nat
    BY OsatFleetAssumption
  <2>2. v \in Nat
    BY <2>1
  <2>3. v % 65536 \in Nat
    BY <2>2
  <2> QED  BY <2>3 DEF Command
<1>3. \A o \in Osats : [k \in 1 .. Cardinality(Entries(o)) |-> Cmd] \in Seq(Command)
  BY <1>1, <1>2
<1>4. toOsat' = [o \in Osats |-> toOsat[o] \o [k \in 1 .. Cardinality(Entries(o)) |-> Cmd]]
  BY DEF Thresh
<1>5. toOsat' \in [Osats -> Seq(Command)]
  <2> HIDE DEF Entries, Cmd
  <2>1. \A o \in Osats : toOsat[o] \o [k \in 1 .. Cardinality(Entries(o)) |-> Cmd] \in Seq(Command)
    BY <1>3, ConcatProperties DEF MailTypes
  <2> QED  BY <1>4, <2>1
<1>6. DeviceTypes' /\ MailTypes'
  <2>1. UNCHANGED <<saved, light, sending, inbox>>
    BY DEF Thresh, osatVars
  <2> HIDE DEF Entries, Cmd
  <2>2. DeviceTypes'
    BY <2>1 DEF DeviceTypes
  <2>3. MailTypes'
    BY <1>5, <2>1 DEF MailTypes
  <2> QED  BY <2>2, <2>3
<1>7. ListTypes' /\ RunTypes'
  BY OsatFleetAssumption DEF Thresh, ListTypes, RunTypes, toolVars, runVars
<1> QED  BY <1>6, <1>7

(***************************************************************************)
(* Type correctness: every device keeps a configuration it accepts, no     *)
(* message has an id other than that of its configuration, and every entry *)
(* of a list is under the id that its configuration has, which is what     *)
(* makes the stale entries harmless.                                       *)
(***************************************************************************)
LEMMA TypesStep == TypeOK /\ [Next]_vars => TypeOK'
<1> SUFFICES ASSUME TypeOK, [Next]_vars PROVE TypeOK'
  OBVIOUS
<1>1. CASE MainThread
  BY <1>1, ToolTypes, HandleTypes DEF MainThread
<1>2. CASE WriterLock \/ Enter
  BY <1>2, ToolTypes
<1>3. CASE WriterThread
  <2>1. CASE Gone
    <3>1. ended \in {"success", "failure", "torn", "signal", "smashed", "no"} /\ Ends(ended)
      BY <2>1 DEF Gone, TypeOK, RunTypes
    <3> QED  BY <3>1, EndsTypes
  <2> QED  BY <1>3, <2>1, CheckTypes, SetConfigTypes, ToolTypes DEF WriterThread
<1>4. CASE Tear \/ Interrupt
  <2>1. Ends("torn") \/ Ends("signal")
    BY <1>4 DEF Tear, Interrupt
  <2> QED  BY <2>1, EndsTypes
<1>5. CASE Scan
  BY <1>5, ScanTypes
<1>6. CASE User
  BY <1>2, <1>4, <1>6, LaunchTypes, ThreshTypes DEF User
<1>7. CASE \E o \in Osats : Osat(o) \/ Fault(o)
  BY <1>7, OsatTypes, FaultTypes
<1>8. CASE UNCHANGED vars
  <2> USE <1>8 DEF vars, osatVars, toolVars, runVars, history
  <2>1. DeviceTypes' /\ MailTypes'
    BY DEF TypeOK, DeviceTypes, MailTypes
  <2>2. ListTypes' /\ RunTypes'
    BY DEF TypeOK, ListTypes, RunTypes
  <2> QED  BY <2>1, <2>2 DEF TypeOK
<1> QED  BY <1>1, <1>2, <1>3, <1>4, <1>5, <1>6, <1>7, <1>8 DEF Next

THEOREM FleetTypes == Spec => []TypeOK
<1>1. Init => TypeOK
  BY InitTypes
<1>2. TypeOK /\ [Next]_vars => TypeOK'
  BY TypesStep
<1> QED  BY <1>1, <1>2, PTL DEF Spec

(***************************************************************************)
(* The list is fresh. CacheFresh speaks of devices with nothing under way; *)
(* it is kept because a configuration under way is never older than it may *)
(* be: the one a device is transmitting is what the device has now, and if *)
(* it transmits none, the last one that waits in the program is. Handling  *)
(* the messages in order then ends with the list as it should be: a device *)
(* that is in the list under any id is in it under the id it has.          *)
(***************************************************************************)
Pending(o) == ~Free(o) /\ sending[o].payload = "config"
ConfigsOf(o) == {k \in FromOsat(o) : inbox[k].payload = "config"}
LastOf(o) == {k \in ConfigsOf(o) : \A n \in ConfigsOf(o) : n <= k}
Heard(o) == \E id \in 1 .. 255 : Contains(clients, id, o)

FreshOf(o) ==
  /\ Pending(o) => sending[o].cfg = saved[o]
  /\ ~Pending(o) =>
       /\ \A k \in LastOf(o) : inbox[k].cfg = saved[o]
       /\ ConfigsOf(o) = {} /\ Heard(o) => Known(o)
FreshInv == \A o \in Osats : FreshOf(o)

LEMMA InitFresh == Init => FreshInv
<1> SUFFICES ASSUME Init, NEW o \in Osats PROVE FreshOf(o)
  BY DEF FreshInv
<1>1. inbox = <<>> /\ DOMAIN clients = {} /\ Free(o)
  BY DEF Init, EmptyList, Free
<1> QED  BY <1>1 DEF FreshOf, Pending, LastOf, ConfigsOf, FromOsat, Contains, Heard, Known

\* A step that touches none of what FreshOf is about.
LEMMA QuietFresh ==
  ASSUME NEW o \in Osats, FreshOf(o), saved'[o] = saved[o], sending'[o] = sending[o],
         UNCHANGED <<inbox, clients>>
  PROVE  FreshOf(o)'
BY DEF FreshOf, Pending, LastOf, ConfigsOf, FromOsat, Contains, Heard, Known, Free

\* A step after which the device transmits its configuration.
LEMMA SaysFresh ==
  ASSUME NEW o \in Osats, NEW config, sending'[o] = Says(o, config, "config"), saved'[o] = config,
         Says(o, config, "config") # None
  PROVE  FreshOf(o)'
BY DEF FreshOf, Pending, Free, Says

LEMMA EndsFresh ==
  ASSUME FreshInv, NEW how, Ends(how)
  PROVE  FreshInv'
<1> SUFFICES ASSUME NEW o \in Osats PROVE FreshOf(o)'
  BY DEF FreshInv
<1>1. inbox' = <<>> /\ DOMAIN clients' = {} /\ UNCHANGED <<saved, sending>>
  BY DEF Ends, EmptyList, osatVars
<1>2. FreshOf(o)
  BY DEF FreshInv
<1> QED  BY <1>1, <1>2 DEF FreshOf, Pending, LastOf, ConfigsOf, FromOsat, Contains, Heard, Known, Free

LEMMA OsatFresh ==
  ASSUME TypeOK, FreshInv, NEW p \in Osats, Osat(p) \/ PowerCut(p)
  PROVE  FreshInv'
<1> SUFFICES ASSUME NEW o \in Osats PROVE FreshOf(o)'
  BY DEF FreshInv
<1>1. FreshOf(o) /\ saved \in [Osats -> Configs] /\ sending \in [Osats -> Message \cup {None}]
  BY DEF FreshInv, TypeOK, DeviceTypes, MailTypes
<1>2. \A config \in Configs : Says(o, config, "config") # None
  <2>1. \A config \in Configs : Says(o, config, "config") \in Message
    BY SaysMessage
  <2>2. None \notin Message
    BY OsatFleetAssumption
  <2> QED  BY <2>1, <2>2
<1>3. CASE Announce(p)
  <2>1. CASE o = p
    BY <1>1, <1>2, <1>3, <2>1, SaysFresh DEF Announce
  <2>2. CASE o # p
    BY <1>1, <1>3, <2>2, QuietFresh DEF Announce
  <2> QED  BY <2>1, <2>2
<1>4. CASE Hit(p)
  <2>1. CASE o = p
    <3>1. Free(o) /\ sending'[o].payload # "config" /\ UNCHANGED <<saved, inbox, clients>>
      BY <1>1, <1>4, <2>1 DEF Hit, Says
    <3> QED  BY <1>1, <3>1 DEF FreshOf, Pending, LastOf, ConfigsOf, FromOsat, Contains, Heard, Known
  <2>2. CASE o # p
    BY <1>1, <1>4, <2>2, QuietFresh DEF Hit
  <2> QED  BY <2>1, <2>2
<1>5. CASE Transmit(p)
  <2> DEFINE n == Len(inbox) + 1
  <2>1. /\ inbox \in Seq(Message) /\ sending[p] \in Message /\ sending[p].osat = p
        /\ UNCHANGED <<saved, clients>>
    BY <1>5 DEF Transmit, Free, TypeOK, MailTypes
  <2>2. /\ DOMAIN inbox = 1 .. Len(inbox) /\ Len(inbox) \in Nat /\ DOMAIN inbox' = 1 .. n
        /\ inbox'[n] = sending[p] /\ \A k \in DOMAIN inbox : inbox'[k] = inbox[k]
    BY <1>5, <2>1 DEF Transmit
  <2>3. CASE o = p /\ Pending(o)
    <3>1. n \in ConfigsOf(o)' /\ Free(o)'
      BY <1>1, <1>5, <2>1, <2>2, <2>3 DEF Transmit, ConfigsOf, FromOsat, Pending, Free
    <3>2. LastOf(o)' \subseteq {n}
      BY <2>2, <3>1 DEF LastOf, ConfigsOf, FromOsat
    <3>3. inbox'[n].cfg = saved'[o]
      BY <1>1, <2>1, <2>2, <2>3 DEF FreshOf
    <3> QED  BY <3>1, <3>2, <3>3 DEF FreshOf, Pending
  <2>4. CASE ~(o = p /\ Pending(o))
    <3>1. Pending(o)' <=> Pending(o)
      BY <1>1, <1>5, <2>4 DEF Transmit, Pending, Free
    <3>2. Pending(o) => sending'[o] = sending[o]
      BY <1>1, <1>5, <2>4 DEF Transmit
    <3>3. ConfigsOf(o)' = ConfigsOf(o)
      BY <2>1, <2>2, <2>4, <1>5 DEF ConfigsOf, FromOsat, Pending, Transmit
    <3>4. LastOf(o)' = LastOf(o) /\ \A k \in LastOf(o) : inbox'[k] = inbox[k]
      BY <2>2, <3>3 DEF LastOf, ConfigsOf, FromOsat
    <3> QED  BY <1>1, <2>1, <3>1, <3>2, <3>3, <3>4 DEF FreshOf, Contains, Heard, Known
  <2> QED  BY <2>3, <2>4
<1>6. CASE Receive(p)
  <2>1. UNCHANGED <<inbox, clients>> /\ Free(p)
    BY <1>6 DEF Receive
  <2>2. CASE o # p
    BY <1>1, <1>6, <2>1, <2>2, QuietFresh DEF Receive
  <2>3. CASE o = p
    <3> DEFINE c == Head(toOsat[o])
               now == Parsed(saved[o], c)
    <3>1. c \in Command
      BY <1>6, <2>3 DEF Receive, TypeOK, MailTypes
    <3>2. now \in Configs /\ (~Valid(c) => now = saved[o])
      BY <1>1, <3>1, ParsedIsConfig
    <3>3. /\ saved'[o] = now
          /\ sending'[o] = Says(o, now, IF Valid(c) THEN "config" ELSE "invalid")
      BY <1>1, <1>6, <2>3 DEF Receive
    <3> HIDE DEF now, c
    <3>4. CASE Valid(c)
      BY <1>2, <3>2, <3>3, <3>4, SaysFresh
    <3>5. CASE ~Valid(c)
      <4>1. saved'[o] = saved[o] /\ ~Pending(o) /\ ~Pending(o)'
        BY <2>1, <2>3, <3>2, <3>3, <3>5 DEF Pending, Says
      <4> QED  BY <1>1, <2>1, <4>1 DEF FreshOf, LastOf, ConfigsOf, FromOsat, Contains, Heard, Known
    <3> QED  BY <3>4, <3>5
  <2> QED  BY <2>2, <2>3
<1>7. CASE PowerCut(p)
  <2>1. PICK now : /\ now = saved[p] \/ now = DefaultConfig
                   /\ saved' = [saved EXCEPT ![p] = now]
                   /\ sending' = [sending EXCEPT ![p] = Says(p, now, "config")]
    BY <1>7 DEF PowerCut
  <2>2. now \in Configs
    BY <1>1, <2>1 DEF DefaultConfig, Configs
  <2>3. CASE o = p
    BY <1>1, <1>2, <2>1, <2>2, <2>3, SaysFresh
  <2>4. CASE o # p
    <3>1. UNCHANGED <<inbox, clients>>
      BY <1>7 DEF PowerCut
    <3> QED  BY <1>1, <2>1, <2>4, <3>1, QuietFresh
  <2> QED  BY <2>3, <2>4
<1> QED  BY <1>3, <1>4, <1>5, <1>6, <1>7 DEF Osat

LEMMA HandleFresh ==
  ASSUME TypeOK, FreshInv, Handle
  PROVE  FreshInv'
<1> SUFFICES ASSUME NEW o \in Osats PROVE FreshOf(o)'
  BY DEF FreshInv
<1> DEFINE m == Head(inbox)
<1>1. /\ FreshOf(o) /\ inbox \in Seq(Message) /\ inbox # <<>>
      /\ \A k \in DOMAIN inbox : Honest(inbox[k])
  BY DEF FreshInv, TypeOK, MailTypes, Handle
<1>2. /\ Takes(m) /\ inbox' = Tail(inbox) /\ UNCHANGED <<saved, sending>>
  BY DEF Handle, HandleConfig, HandleOther, Takes, osatVars
<1>3. /\ DOMAIN inbox = 1 .. Len(inbox) /\ Len(inbox) \in Nat \ {0}
      /\ DOMAIN inbox' = 1 .. Len(inbox) - 1
      /\ \A k \in DOMAIN inbox' : inbox'[k] = inbox[k + 1]
      /\ m = inbox[1] /\ 1 \in DOMAIN inbox
  BY <1>1, <1>2
<1> HIDE DEF m
<1>4. \A k \in DOMAIN inbox' : k \in ConfigsOf(o)' <=> k + 1 \in ConfigsOf(o)
  BY <1>3 DEF ConfigsOf, FromOsat
<1>5. \A k \in LastOf(o)' : k + 1 \in LastOf(o)
  <2> SUFFICES ASSUME NEW k \in LastOf(o)', NEW n \in ConfigsOf(o) PROVE n <= k + 1
    BY <1>3, <1>4 DEF LastOf, ConfigsOf, FromOsat
  <2>1. n \in 1 .. Len(inbox) /\ k \in DOMAIN inbox'
    BY <1>3 DEF LastOf, ConfigsOf, FromOsat
  <2>2. CASE n = 1
    BY <1>3, <2>1, <2>2
  <2>3. CASE n # 1
    <3>1. n - 1 \in ConfigsOf(o)'
      BY <1>3, <1>4, <2>1, <2>3
    <3>2. n - 1 <= k
      BY <3>1 DEF LastOf
    <3> QED  BY <1>3, <2>1, <3>2
  <2> QED  BY <2>2, <2>3
<1>6. ~Pending(o) => \A k \in LastOf(o)' : inbox'[k].cfg = saved'[o]
  BY <1>1, <1>2, <1>3, <1>5 DEF FreshOf, LastOf, ConfigsOf, FromOsat
<1>7. ASSUME ~Pending(o), ConfigsOf(o)' = {}, Heard(o)'
      PROVE  Known(o)'
  <2>1. ConfigsOf(o) \subseteq {1}
    <3> SUFFICES ASSUME NEW n \in ConfigsOf(o), n # 1 PROVE FALSE
      OBVIOUS
    <3>1. n \in 1 .. Len(inbox) /\ n - 1 \in DOMAIN inbox'
      BY <1>3 DEF ConfigsOf, FromOsat
    <3> QED  BY <1>4, <1>7, <3>1
  <2>2. HandleConfig(m) =>
          /\ DOMAIN clients' = DOMAIN clients \cup {<<m.id, m.osat>>}
          /\ \A pair \in DOMAIN clients' :
               clients'[pair] = IF pair = <<m.id, m.osat>> THEN m.cfg ELSE clients[pair]
    BY DEF HandleConfig, Insert, UpdateConfig, Contains
  <2>3. CASE m.osat = o /\ m.payload = "config"
    <3>1. 1 \in LastOf(o)
      BY <1>3, <2>1, <2>3 DEF LastOf, ConfigsOf, FromOsat
    <3>2. m.cfg = saved[o] /\ m.id = saved[o].id
      BY <1>1, <1>3, <1>7, <3>1 DEF FreshOf, Honest
    <3>3. HandleConfig(m)
      BY <2>3 DEF Handle, HandleOther, m
    <3> QED  BY <1>2, <2>2, <2>3, <3>2, <3>3 DEF Known, Contains
  <2>4. CASE ~(m.osat = o /\ m.payload = "config")
    <3>1. ConfigsOf(o) = {}
      BY <1>3, <2>1, <2>4 DEF ConfigsOf, FromOsat
    <3>2. CASE HandleOther(m)
      BY <1>1, <1>2, <1>7, <3>1, <3>2 DEF HandleOther, FreshOf, Heard, Known, Contains
    <3>3. CASE HandleConfig(m)
      <4>1. m.osat # o
        BY <2>4, <3>3 DEF HandleConfig
      <4>2. Heard(o)
        BY <1>7, <2>2, <3>3, <4>1 DEF Heard, Contains
      <4>3. Known(o)
        BY <1>1, <1>7, <3>1, <4>2 DEF FreshOf
      <4> QED  BY <1>2, <2>2, <3>3, <4>1, <4>3 DEF Known, Contains
    <3> QED  BY <3>2, <3>3 DEF Handle, m
  <2> QED  BY <2>3, <2>4
<1> QED  BY <1>1, <1>2, <1>6, <1>7 DEF FreshOf, Pending, Free

\* Every other step leaves the devices, the list and what waits alone, or
\* ends the program.
LEMMA OtherFresh ==
  ASSUME FreshInv,
         \/ MainLock \/ MainUnlock \/ WriterLock \/ WriterThread \/ Tear \/ Scan \/ User
         \/ \E o \in Osats : Lose(o)
         \/ UNCHANGED vars
  PROVE  FreshInv'
<1>1. CASE \E how : Ends(how)
  BY <1>1, EndsFresh
<1>2. CASE ~\E how : Ends(how)
  <2>1. UNCHANGED <<saved, sending, inbox, clients>>
    <3>1. CASE WriterThread
      BY <1>2, <3>1 DEF WriterThread, Check, SetConfig, WriterUnlock, Exit, Gone, osatVars
    <3>2. CASE Scan
      BY <1>2, <3>2 DEF Scan, ScanNext, ScanCount, ScanWrite, ScanDone, osatVars
    <3>3. CASE User
      <4>1. CASE \E v \in Typed : Thresh(v)
        BY <4>1 DEF Thresh, osatVars
      <4> QED  BY <1>2, <3>3, <4>1 DEF User, Launch, Enter, Interrupt, osatVars
    <3>4. CASE MainLock \/ MainUnlock \/ WriterLock \/ Tear
      BY <1>2, <3>4 DEF MainLock, MainUnlock, WriterLock, Tear, osatVars
    <3>5. CASE \E o \in Osats : Lose(o)
      BY <3>5 DEF Lose, osatVars
    <3>6. CASE UNCHANGED vars
      BY <3>6 DEF vars, osatVars
    <3> QED  BY <3>1, <3>2, <3>3, <3>4, <3>5, <3>6
  <2> QED  BY <2>1, QuietFresh DEF FreshInv
<1> QED  BY <1>1, <1>2

LEMMA FreshStep == TypeOK /\ FreshInv /\ [Next]_vars => FreshInv'
<1> SUFFICES ASSUME TypeOK, FreshInv, [Next]_vars PROVE FreshInv'
  OBVIOUS
<1>1. CASE Handle
  BY <1>1, HandleFresh
<1>2. CASE \E o \in Osats : Osat(o) \/ PowerCut(o)
  BY <1>2, OsatFresh
<1> QED  BY <1>1, <1>2, OtherFresh DEF Next, MainThread, Fault

(***************************************************************************)
(* CacheFresh, for any number of devices and threads and any faults: from  *)
(* TypeOK, which gives every message the id of its configuration, and      *)
(* FreshInv, which is inductive under it.                                  *)
(***************************************************************************)
THEOREM CacheIsFresh == Spec => []CacheFresh
<1>1. Init => FreshInv
  BY InitFresh
<1>2. TypeOK /\ FreshInv /\ [Next]_vars => FreshInv'
  BY FreshStep
<1>3. TypeOK /\ FreshInv => CacheFresh
  <2> SUFFICES ASSUME TypeOK, FreshInv, NEW o \in Osats, Free(o), FromOsat(o) = {},
                      Contains(clients, saved[o].id, o)
               PROVE  Known(o)
    BY DEF CacheFresh, Known
  <2>1. Heard(o)
    <3>1. saved[o] \in Configs
      BY DEF TypeOK, DeviceTypes
    <3>2. saved[o].id \in 1 .. 255
      BY <3>1 DEF Configs
    <3> QED  BY <3>2 DEF Heard
  <2>2. ~Pending(o) /\ ConfigsOf(o) = {}
    BY DEF Pending, ConfigsOf
  <2> QED  BY <2>1, <2>2 DEF FreshInv, FreshOf
<1> QED  BY <1>1, <1>2, <1>3, FleetTypes, PTL DEF Spec
=============================================================================
