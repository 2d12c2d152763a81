----------------------- MODULE OsatServerForeignProofs -----------------------
(***************************************************************************)
(* Proof of ForeignIdIsDefault for any devices, commands and faults, where *)
(* the modes the operator can load have the same ids (OneBoard): the       *)
(* server dies of an id its mode does not have only after a device has     *)
(* lost its configuration.                                                 *)
(***************************************************************************)
EXTENDS OsatServerLightProofs

OneBoard == \A d \in Disks : \A f, g \in d \cap Files : f.ids = g.ids

\* The ids of the modes on the disk.
Board == UNION {f.ids : f \in disk \cap Files}

\* Some device has lost its configuration. It never gets another id back.
Undone == \E o \in Osats : id[o] = DefaultId

(***************************************************************************)
(* States are written to ids of the board only, so a device that is not    *)
(* listed under one is dark (Unaddressed). One that was lit and answers is *)
(* listed under one, and as it has one id (OneId) its answer carries that  *)
(* id, unless it has been undone (Answers). Unaddressed and Answers need   *)
(* no assumption on the ids of the modes.                                  *)
(***************************************************************************)
Loads == \A n \in Loaded : modes[n].cfg \in disk

Unaddressed ==
  \A o \in Osats : IdsOf(o) \cap Board = {} => light[o] \in Dark /\ StatesIn(toOsat[o]) = {}

Answers ==
  \A k \in DOMAIN inbox :
    inbox[k].payload \in {"hit", "timeout"} => inbox[k].id \in Board \/ Undone

\* No step changes the disk, and so the board.
LEMMA DiskKept ==
  ASSUME [Next]_vars
  PROVE  disk' = disk /\ Board' = Board
<1>1. disk' = disk
  BY DEF Next, HandleMessage, HandleConfig, HandleAction, Tick, TickStopped, TickReport, TickPlay,
         Operator, Load, LoadMalformed, Start, Stop, Thresh, NextTurn, Osat, Announce, Receive,
         Hit, Timeout, Fault, Lose, PowerCut, vars, serverVars
<1> QED  BY <1>1 DEF Board

\* Nothing gives a device that has lost its id another one.
LEMMA UndoneForGood ==
  ASSUME TypeOK, [Next]_vars, Undone
  PROVE  Undone'
<1>1. PICK o \in Osats : id[o] = DefaultId
  BY DEF Undone
<1>2. id' = id \/ \E p \in Osats : id' = [id EXCEPT ![p] = DefaultId]
  BY DEF Next, HandleMessage, HandleConfig, HandleAction, Tick, TickStopped, TickReport, TickPlay,
         Operator, Load, LoadMalformed, Start, Stop, Thresh, NextTurn, Osat, Announce, Receive,
         Hit, Timeout, Fault, Lose, PowerCut, vars, osatVars
<1>3. id'[o] = DefaultId
  BY <1>1, <1>2 DEF TypeOK, DeviceTypes
<1> QED  BY <1>3 DEF Undone

\* A loaded mode keeps the configuration it was created with.
LEMMA LoadsStep == TypeOK /\ Loads /\ [Next]_vars => Loads'
<1> SUFFICES ASSUME TypeOK, Loads, [Next]_vars PROVE Loads'
  OBVIOUS
<1>1. disk' = disk
  BY DiskKept
<1>2. CASE modes' = modes
  BY <1>1, <1>2 DEF Loads, Loaded
<1>3. ASSUME NEW n \in Names, NEW m \in Mode, m.cfg \in disk, modes' = [modes EXCEPT ![n] = m]
      PROVE  Loads'
  <2>1. Loaded' = Loaded \cup {n} /\ DOMAIN modes = Names /\ Loaded' \subseteq Names
    BY <1>3, SetModeTypes DEF TypeOK, GameTypes, Loaded
  <2>2. \A k \in Names : modes'[k] = IF k = n THEN m ELSE modes[k]
    BY <1>3, <2>1
  <2> QED  BY <1>1, <1>3, <2>1, <2>2 DEF Loads
<1>4. current # None =>
        current \in Names /\ modes[current] \in Mode /\ modes[current].cfg \in disk
  BY CurrentMode DEF TypeOK, Loads
<1>5. CASE HandleAction /\ modes' # modes
  <2> DEFINE m == modes[current]
             msg == Head(inbox)
  <2>1. /\ current # None /\ msg.id \in m.cfg.ids /\ Counts(m, msg.payload)
        /\ modes' = [modes EXCEPT ![current] = ActOn(m, msg.id, msg.payload)]
    BY <1>5 DEF HandleAction, Running
  <2>2. m \in Mode
    BY <1>4, <2>1
  <2> HIDE DEF m, msg
  <2>3. ActOn(m, msg.id, msg.payload) \in Mode /\ ActOn(m, msg.id, msg.payload).cfg = m.cfg
    BY <2>1, <2>2, ActOnType
  <2> QED  BY <1>3, <1>4, <2>1, <2>3 DEF m
<1>6. CASE TickReport
  <2>1. current # None /\ modes' = [modes EXCEPT ![current] = ReportTick(modes[current])]
    BY <1>6 DEF TickReport, Running
  <2> QED  BY <1>3, <1>4, <2>1, ReportTickType
<1>7. CASE TickPlay
  <2>1. current # None
    BY <1>7 DEF TickPlay, Running
  <2>2. PICK lit \in Choices(modes[current]) :
          modes' = [modes EXCEPT ![current] = PlayTick(modes[current], lit)]
    BY <1>7 DEF TickPlay
  <2>3. lit \in SUBSET modes[current].cfg.ids
    BY <1>4, <2>1, ChoicesAreIds
  <2>4. /\ PlayTick(modes[current], lit) \in Mode
        /\ PlayTick(modes[current], lit).cfg = modes[current].cfg
    BY <1>4, <2>1, <2>3, PlayTickType
  <2> QED  BY <1>3, <1>4, <2>1, <2>2, <2>4
<1>8. ASSUME NEW f \in Files, Load(f) PROVE Loads'
  <2>1. f.mode_name \in Names /\ NewMode(f) \in Mode /\ NewMode(f).cfg = f /\ f \in disk
    BY <1>8, NewModeType DEF Load, Names
  <2> QED  BY <1>3, <1>8, <2>1 DEF Load
<1>9. ASSUME NEW n \in Names, Start(n) PROVE Loads'
  <2>1. modes[n] \in Mode /\ modes[n].cfg \in disk
    BY <1>9, ModeAt DEF Start, Loaded, Loads, TypeOK
  <2>2. StartMode(modes[n]) \in Mode /\ StartMode(modes[n]).cfg = modes[n].cfg
    BY <2>1, StartModeType
  <2>3. modes' = [modes EXCEPT ![n] = StartMode(modes[n])]
    BY <1>9 DEF Start
  <2> QED  BY <1>3, <2>1, <2>2, <2>3
<1>10. CASE Stop /\ modes' # modes
  <2>1. current # None /\ modes' = [modes EXCEPT ![current] = ResetMode(modes[current])]
    BY <1>10 DEF Stop
  <2> QED  BY <1>3, <1>4, <2>1, ResetModeType
<1>11. \/ modes' = modes \/ HandleAction \/ TickReport \/ TickPlay \/ Stop
       \/ (\E f \in Files : Load(f)) \/ \E n \in Names : Start(n)
  BY DEF Next, HandleMessage, HandleConfig, Tick, TickStopped, Operator, LoadMalformed, Thresh,
         NextTurn, Osat, Announce, Receive, Hit, Timeout, Fault, Lose, PowerCut, vars, serverVars
<1> QED  BY <1>2, <1>5, <1>6, <1>7, <1>8, <1>9, <1>10, <1>11

\* States are written to ids of the board.
LEMMA WritesReachBoard ==
  ASSUME Unaddressed, NEW ids \in SUBSET Board, NEW cmds, WriteTo(ids, cmds),
         UNCHANGED <<disk, clients, light>>
  PROVE  Unaddressed'
<1>1. Board' = Board /\ \A o \in Osats : IdsOf(o)' = IdsOf(o)
  BY DEF Board, IdsOf
<1>2. \A o \in Osats : IdsOf(o) \cap Board = {} => toOsat'[o] = toOsat[o]
  BY DEF WriteTo, Under
<1> QED  BY <1>1, <1>2 DEF Unaddressed

\* Commands that set no state, behind those that wait, disturb nothing.
LEMMA QuietStep ==
  ASSUME TypeOK, Unaddressed, UNCHANGED <<disk, clients, light>>,
         \A p \in Osats : \E t \in Seq(Command) : StatesIn(t) = {} /\ toOsat'[p] = toOsat[p] \o t
  PROVE  Unaddressed'
<1>1. Board' = Board /\ \A o \in Osats : IdsOf(o)' = IdsOf(o) /\ toOsat[o] \in Seq(Command)
  BY DEF Board, IdsOf, TypeOK, MailTypes
<1> QED  BY <1>1, StatesOfConcat DEF Unaddressed

\* A game writes states under ids of its board only.
LEMMA UnaddressedStep == TypeOK /\ Loads /\ Unaddressed /\ [Next]_vars => Unaddressed'
<1> SUFFICES ASSUME TypeOK, Loads, Unaddressed, [Next]_vars PROVE Unaddressed'
  OBVIOUS
<1>0. disk' = disk /\ Board' = Board
  BY DiskKept
<1>1. \A n \in Loaded : modes[n].cfg.ids \subseteq Board
  BY ModeAt, ModeFields DEF TypeOK, Loads, Board
<1>2. current # None => current \in Loaded /\ modes[current] \in Mode
  BY CurrentMode DEF TypeOK
<1>3. \A p \in Osats : toOsat[p] \in Seq(Command)
  BY DEF TypeOK, MailTypes
<1>4. CASE UNCHANGED <<light, toOsat>> /\ clients \subseteq clients'
  <2>1. \A p \in Osats : IdsOf(p) \subseteq IdsOf(p)'
    BY <1>4 DEF IdsOf
  <2> QED  BY <1>0, <1>4, <2>1 DEF Unaddressed
<1>5. CASE HandleAction \/ Thresh
  <2>1. UNCHANGED <<clients, light>>
    BY <1>5 DEF HandleAction, Thresh, osatVars
  <2> QED  BY <1>0, <1>5, <2>1, QuietAnswer, QuietThresh, QuietStep
<1>6. CASE TickReport
  BY <1>1, <1>2, <1>6, WritesReachBoard DEF TickReport, Running, osatVars
<1>7. CASE TickPlay
  <2>1. PICK lit \in Choices(modes[current]) : WriteTo(lit, <<LitState(modes[current])>>)
    BY <1>7 DEF TickPlay
  <2>2. lit \subseteq modes[current].cfg.ids /\ current \in Loaded
    BY <1>2, <1>7, ChoicesAreIds DEF TickPlay, Running
  <2> QED  BY <1>1, <1>7, <2>1, <2>2, WritesReachBoard DEF TickPlay, osatVars
<1>8. ASSUME NEW n \in Names, Start(n) PROVE Unaddressed'
  <2>1. n \in Loaded /\ WriteTo(modes[n].cfg.ids, StartCommands(modes[n]))
    BY <1>8 DEF Start, Loaded
  <2> QED  BY <1>1, <1>8, <2>1, WritesReachBoard DEF Start, osatVars
<1>9. CASE Stop /\ current # None
  BY <1>1, <1>2, <1>9, WritesReachBoard DEF Stop, osatVars
<1>10. ASSUME NEW o \in Osats, UNCHANGED clients,
              light'[o] \in Dark \/ light'[o] = light[o] \/ StatesIn(toOsat[o]) # {},
              StatesIn(toOsat[o]) = {} => StatesIn(toOsat'[o]) = {},
              \A p \in Osats \ {o} : light'[p] = light[p] /\ toOsat'[p] = toOsat[p]
       PROVE  Unaddressed'
  <2>1. \A p \in Osats : IdsOf(p)' = IdsOf(p)
    BY <1>10 DEF IdsOf
  <2> QED  BY <1>0, <1>10, <2>1 DEF Unaddressed
<1>11. ASSUME NEW o \in Osats, Receive(o) PROVE Unaddressed'
  <2> DEFINE s == toOsat[o]
  <2>1. s \in Seq(Command) /\ s # <<>> /\ UNCHANGED clients
    BY <1>3, <1>11 DEF Receive, serverVars
  <2>2. /\ toOsat'[o] = Tail(s) /\ light'[o] = After(Head(s), light[o])
        /\ \A p \in Osats \ {o} : toOsat'[p] = toOsat[p] /\ light'[p] = light[p]
    BY <1>11 DEF Receive, TypeOK, MailTypes, DeviceTypes, After, Saving, OsatStates
  <2>3. StatesIn(s) = {} => Head(s) \notin OsatStates /\ StatesIn(Tail(s)) = {}
    BY <2>1, QuietTail
  <2> QED  BY <1>10, <2>1, <2>2, <2>3 DEF After
<1>12. ASSUME NEW o \in Osats, Hit(o) \/ Timeout(o) PROVE Unaddressed'
  <2>1. /\ UNCHANGED <<clients, toOsat>> /\ light'[o] = "INACTIVE"
        /\ \A p \in Osats \ {o} : light'[p] = light[p]
    BY <1>12 DEF Hit, Timeout, serverVars, TypeOK, DeviceTypes
  <2> QED  BY <1>10, <2>1 DEF Dark
<1>13. ASSUME NEW o \in Osats, Lose(o) PROVE Unaddressed'
  <2> DEFINE s == toOsat[o]
  <2>1. PICK k \in 1 .. Len(s) :
          toOsat' = [toOsat EXCEPT ![o] = SubSeq(s, 1, k - 1) \o SubSeq(s, k + 1, Len(s))]
    BY <1>13 DEF Lose
  <2>2. s \in Seq(Command) /\ UNCHANGED <<clients, light>>
    BY <1>3, <1>13 DEF Lose, serverVars
  <2>3. StatesIn(s) = {} => StatesIn(SubSeq(s, 1, k - 1) \o SubSeq(s, k + 1, Len(s))) = {}
    BY <2>2, QuietWithout
  <2>4. /\ toOsat'[o] = SubSeq(s, 1, k - 1) \o SubSeq(s, k + 1, Len(s))
        /\ \A p \in Osats \ {o} : toOsat'[p] = toOsat[p]
    BY <2>1 DEF TypeOK, MailTypes
  <2> QED  BY <1>10, <2>2, <2>3, <2>4
<1>14. ASSUME NEW o \in Osats, PowerCut(o) PROVE Unaddressed'
  <2>1. /\ UNCHANGED clients /\ light'[o] = "IDLE" /\ toOsat'[o] = <<>>
        /\ \A p \in Osats \ {o} : light'[p] = light[p] /\ toOsat'[p] = toOsat[p]
    BY <1>14 DEF PowerCut, serverVars, TypeOK, MailTypes, DeviceTypes
  <2> QED  BY <1>10, <2>1 DEF Dark, StatesIn
<1>15. CASE \/ UNCHANGED vars \/ HandleConfig \/ TickStopped \/ NextTurn
            \/ (\E f \in Files : Load(f)) \/ LoadMalformed \/ (\E o \in Osats : Announce(o))
            \/ (Stop /\ current = None)
  BY <1>4, <1>15 DEF vars, HandleConfig, TickStopped, NextTurn, Load, LoadMalformed, Announce, Stop,
                     serverVars, osatVars
<1> QED
  BY <1>5, <1>6, <1>7, <1>8, <1>9, <1>11, <1>12, <1>13, <1>14, <1>15
  DEF Next, HandleMessage, Tick, Operator, Osat, Fault

\* A device that was lit answers under an id of the board, or is undone.
LEMMA AnswerOnBoard ==
  ASSUME TypeOK, OneId, Unaddressed, NEW o \in Osats, light[o] \notin Dark
  PROVE  id[o] \in Board \/ Undone
<1>1. PICK i \in Board : i \in IdsOf(o)
  BY DEF Unaddressed
<1>2. i # DefaultId
  BY OsatServerAssumption DEF Board
<1>3. i \in Claims(o) /\ id[o] \in Claims(o)
  BY <1>1 DEF Claims
<1> QED  BY <1>2, <1>3 DEF OneId, Undone

\* A lit device is listed under an id of the board, and answers with the only
\* id it has.
LEMMA AnswersStep ==
  TypeOK /\ OneId /\ Unaddressed /\ Answers /\ [Next]_vars => Answers'
<1> SUFFICES ASSUME TypeOK, OneId, Unaddressed, Answers, [Next]_vars PROVE Answers'
  OBVIOUS
<1>1. Board' = Board /\ (Undone => Undone')
  BY DiskKept, UndoneForGood
<1>2. CASE inbox' = inbox
  BY <1>1, <1>2 DEF Answers
<1>3. CASE HandleMessage
  <2>1. \A k \in DOMAIN inbox' : k + 1 \in DOMAIN inbox /\ inbox'[k] = inbox[k + 1]
    BY <1>3, Taken DEF HandleMessage, HandleConfig, HandleAction
  <2> QED  BY <1>1, <2>1 DEF Answers
<1>4. ASSUME NEW o \in Osats, NEW payload, OsatSends(o, payload),
             payload \in {"config", "invalid"} \/ light[o] \notin Dark
      PROVE  Answers'
  <2>1. PICK n \in DOMAIN inbox' :
          /\ \A k \in DOMAIN inbox : k \in DOMAIN inbox' /\ inbox'[k] = inbox[k]
          /\ DOMAIN inbox' = DOMAIN inbox \cup {n}
          /\ inbox'[n] = [osat |-> o, id |-> id[o], payload |-> payload]
    BY <1>4, Sent
  <2>2. inbox'[n].payload \in {"hit", "timeout"} => inbox'[n].id \in Board \/ Undone
    BY <1>4, <2>1, AnswerOnBoard
  <2> QED  BY <1>1, <2>1, <2>2 DEF Answers
<1>5. ASSUME NEW o \in Osats, Announce(o) \/ Receive(o) PROVE Answers'
  <2>1. inbox' = inbox \/ OsatSends(o, "config") \/ OsatSends(o, "invalid")
    BY <1>5 DEF Announce, Receive, OsatAnnounces, OsatRefuses
  <2> QED  BY <1>2, <1>4, <2>1
<1>6. ASSUME NEW o \in Osats, Hit(o) \/ Timeout(o) PROVE Answers'
  <2>1. light[o] \notin Dark /\ (OsatSends(o, "hit") \/ OsatSends(o, "timeout"))
    BY <1>6 DEF Hit, Timeout, Dark
  <2> QED  BY <1>4, <2>1
<1>7. CASE \/ UNCHANGED vars \/ Tick \/ Operator \/ NextTurn \/ \E o \in Osats : Fault(o)
  BY <1>2, <1>7 DEF vars, Tick, TickStopped, TickReport, TickPlay, Operator, Load,
                    LoadMalformed, Start, Stop, Thresh, NextTurn, Fault, Lose, PowerCut
<1> QED  BY <1>3, <1>5, <1>6, <1>7 DEF Next, Osat

\* A mode of the disk dies of an id only if it is not on the board.
LEMMA ForeignStep ==
  ASSUME OneBoard, TypeOK, Loads, Answers, ForeignIdIsDefault, [Next]_vars
  PROVE  ForeignIdIsDefault'
<1>1. Undone => Undone'
  BY UndoneForGood
<1>2. CASE Next /\ HandleAction /\ crashed' = "foreign_id"
  <2> DEFINE i == Head(inbox).id
  <2>1. /\ current # None /\ i \notin modes[current].cfg.ids /\ inbox # <<>>
        /\ inbox' = Tail(inbox) /\ Counts(modes[current], Head(inbox).payload)
    <3>1. crashed = "no"
      BY <1>2 DEF Next
    <3> QED  BY <1>2, <3>1 DEF HandleAction, Running
  <2>2. i \in Board \/ Undone
    BY <2>1, Taken DEF Answers, Counts
  <2>3. Board = modes[current].cfg.ids
    <3>1. modes[current].cfg \in disk \cap Files /\ disk \in Disks
      BY <2>1, CurrentMode, ModeFields DEF TypeOK, GameTypes, Loads
    <3> QED  BY <3>1 DEF OneBoard, Board
  <2> QED  BY <1>1, <2>1, <2>2, <2>3 DEF ForeignIdIsDefault, Undone
<1>3. CASE ~(Next /\ HandleAction /\ crashed' = "foreign_id")
  <2>1. crashed' \in {crashed, "null_mode", "malformed_file"} \/ (Next /\ HandleAction)
    BY DEF Next, HandleMessage, HandleConfig, Tick, TickStopped, TickReport, TickPlay, Operator,
           Load, LoadMalformed, Start, Stop, Thresh, NextTurn, Osat, Announce, Receive, Hit,
           Timeout, Fault, Lose, PowerCut, vars, serverVars
  <2>2. crashed' = "foreign_id" => crashed = "foreign_id"
    BY <1>3, <2>1
  <2> QED  BY <1>1, <2>2 DEF ForeignIdIsDefault, Undone
<1> QED  BY <1>2, <1>3

\* With one set of ids for all modes, neither a stopped game, a late answer
\* nor a device nobody has configured ends the server: only a device that
\* has lost its configuration does (_states.at, Mode_RandomN.h:29).
THEOREM ForeignIsDefault ==
  ASSUME OneBoard
  PROVE  Spec => []ForeignIdIsDefault
<1> DEFINE Inv == Loads /\ Unaddressed /\ Answers /\ ForeignIdIsDefault
<1>1. Init => Inv
  <2> SUFFICES ASSUME Init PROVE Inv
    OBVIOUS
  <2>1. Loads /\ ForeignIdIsDefault
    BY DEF Init, Loads, Loaded, ForeignIdIsDefault
  <2>2. Unaddressed
    BY DEF Init, Unaddressed, Dark, StatesIn
  <2>3. Answers
    BY DEF Init, Answers
  <2> QED  BY <2>1, <2>2, <2>3
<1>2. TypeOK /\ BeliefInv /\ Inv /\ [Next]_vars => Inv'
  BY LoadsStep, UnaddressedStep, AnswersStep, ForeignStep DEF BeliefInv
<1>3. Spec => []Inv
  <2> HIDE DEF Inv
  <2> QED  BY <1>1, <1>2, BeliefHolds, PTL DEF Spec
<1>4. Inv => ForeignIdIsDefault
  OBVIOUS
<1> QED  BY <1>3, <1>4, PTL
=============================================================================
