-------------------------- MODULE OsatServerProofs --------------------------
(***************************************************************************)
(* Proofs about OsatServer for any devices, ids, mode configurations and   *)
(* bounds: its types, and that a counted report is earned.                 *)
(***************************************************************************)
EXTENDS OsatServer, FiniteSetTheorems, SequenceTheorems, TLAPS

(***************************************************************************)
(* What a call makes of a mode object.                                     *)
(***************************************************************************)

LEMMA ModeFields ==
  ASSUME NEW m \in Mode
  PROVE  /\ m.cfg \in Files /\ m.running \in BOOLEAN /\ m.finish_up \in BOOLEAN
         /\ m.hits \in Nat /\ m.timeouts \in Nat
         /\ m.states \in [m.cfg.ids -> OsatStates]
         /\ m.cfg.ids \subseteq Ids /\ DefaultId \notin m.cfg.ids
<1>1. m.states \in States /\ DOMAIN m.states = m.cfg.ids
  BY DEF Mode
<1>2. PICK f \in Files : m.states \in [f.ids -> OsatStates]
  BY <1>1 DEF States
<1>3. m.states \in [m.cfg.ids -> OsatStates]
  BY <1>1, <1>2
<1>4. m.cfg \in Files
  BY DEF Mode
<1> QED  BY <1>3, <1>4, OsatServerAssumption DEF Mode, Ids

LEMMA IsBoard ==
  ASSUME NEW cfg \in Files, NEW board \in [cfg.ids -> OsatStates]
  PROVE  board \in States /\ DOMAIN board = cfg.ids
BY DEF States

LEMMA NewModeType ==
  ASSUME NEW f \in Files
  PROVE  NewMode(f) \in Mode /\ NewMode(f).cfg = f /\ ~NewMode(f).finish_up
<1> DEFINE board == [i \in f.ids |-> "INACTIVE"]
<1>1. board \in States /\ DOMAIN board = f.ids
  <2>1. board \in [f.ids -> OsatStates]
    BY DEF OsatStates
  <2> HIDE DEF board
  <2> QED  BY <2>1, IsBoard
<1>2. NewMode(f) = [cfg |-> f, running |-> FALSE, finish_up |-> FALSE,
                    hits |-> 0, timeouts |-> 0, states |-> board]
  BY DEF NewMode
<1> HIDE DEF board
<1> QED  BY <1>1, <1>2 DEF Mode

\* A board all in one state.
LEMMA AllInBoard ==
  ASSUME NEW m \in Mode, NEW state \in OsatStates
  PROVE  AllIn(m, state) \in States /\ DOMAIN AllIn(m, state) = m.cfg.ids
<1>1. AllIn(m, state) \in [m.cfg.ids -> OsatStates]
  BY DEF AllIn
<1>2. m.cfg \in Files
  BY ModeFields
<1> QED  BY <1>1, <1>2, IsBoard

LEMMA ResetModeType ==
  ASSUME NEW m \in Mode
  PROVE  /\ ResetMode(m) \in Mode /\ ResetMode(m).cfg = m.cfg
         /\ ~ResetMode(m).running /\ ResetMode(m).finish_up = m.finish_up
<1> DEFINE dark == AllIn(m, "INACTIVE")
<1>1. dark \in States /\ DOMAIN dark = m.cfg.ids
  BY AllInBoard DEF OsatStates
<1>2. ResetMode(m) = [m EXCEPT !.running = FALSE, !.hits = 0, !.timeouts = 0, !.states = dark]
  BY DEF ResetMode
<1> HIDE DEF dark
<1>3. m.finish_up \in BOOLEAN
  BY ModeFields
<1>4. ResetMode(m) \in Mode /\ ResetMode(m).cfg = m.cfg
  <2>1. [m EXCEPT !.running = FALSE, !.hits = 0, !.timeouts = 0, !.states = dark] \in Mode
    BY <1>1 DEF Mode
  <2>2. [m EXCEPT !.running = FALSE, !.hits = 0, !.timeouts = 0, !.states = dark].cfg = m.cfg
    BY DEF Mode
  <2> QED  BY <1>2, <2>1, <2>2
<1>5. ResetMode(m).running = FALSE /\ ResetMode(m).finish_up = m.finish_up
  BY <1>2 DEF Mode
<1> QED  BY <1>4, <1>5

LEMMA ReportTickType ==
  ASSUME NEW m \in Mode
  PROVE  /\ ReportTick(m) \in Mode /\ ReportTick(m).cfg = m.cfg
         /\ ~ReportTick(m).running /\ ~ReportTick(m).finish_up
<1> DEFINE r == ResetMode(m)
<1>1. r \in Mode /\ r.cfg = m.cfg /\ ~r.running
  BY ResetModeType
<1>2. ReportTick(m) = [r EXCEPT !.finish_up = FALSE]
  BY DEF ReportTick
<1> HIDE DEF r
<1> QED  BY <1>1, <1>2 DEF Mode

\* The board a mode starts with.
FirstState(m) == IF m.cfg.mode_type = "reverse_fill" THEN "ACTIVE" ELSE "INACTIVE"

LEMMA StartModeType ==
  ASSUME NEW m \in Mode
  PROVE  /\ StartMode(m) \in Mode /\ StartMode(m).cfg = m.cfg
         /\ StartMode(m).running /\ StartMode(m).finish_up = m.finish_up
         /\ StartMode(m).states = AllIn(m, FirstState(m))
<1> DEFINE r == ResetMode(m)
           board == AllIn(m, FirstState(m))
<1>1. r \in Mode /\ r.cfg = m.cfg /\ r.finish_up = m.finish_up
  BY ResetModeType
<1>2. board \in States /\ DOMAIN board = m.cfg.ids
  <2>1. FirstState(m) \in OsatStates
    BY DEF FirstState, OsatStates
  <2> QED  BY <2>1, AllInBoard
<1>3. StartMode(m) = [r EXCEPT !.running = TRUE, !.states = board]
  BY DEF StartMode, FirstState
<1> HIDE DEF r, board
<1>4. /\ StartMode(m) \in Mode /\ StartMode(m).cfg = m.cfg
      /\ StartMode(m).running /\ StartMode(m).finish_up = m.finish_up
      /\ StartMode(m).states = board
  BY <1>1, <1>2, <1>3 DEF Mode
<1> QED  BY <1>4 DEF board

\* The board after a tick that lights some ids.
Lit(m, lit) == [i \in m.cfg.ids |-> IF i \in lit THEN LitState(m) ELSE m.states[i]]

LEMMA PlayTickType ==
  ASSUME NEW m \in Mode, NEW lit \in SUBSET m.cfg.ids
  PROVE  /\ PlayTick(m, lit) \in Mode /\ PlayTick(m, lit).cfg = m.cfg
         /\ PlayTick(m, lit).running = m.running
         /\ PlayTick(m, lit).states = Lit(m, lit)
         /\ m.cfg.mode_type = "random_n" => ~PlayTick(m, lit).finish_up
<1> DEFINE board == Lit(m, lit)
           goal == [random_fill |-> "ACTIVE", reverse_fill |-> "INACTIVE"]
           done == m.cfg.mode_type # "random_n" /\
                     \A i \in m.cfg.ids : board[i] = goal[m.cfg.mode_type]
<1>1. board \in States /\ DOMAIN board = m.cfg.ids
  <2>1. board \in [m.cfg.ids -> OsatStates] /\ m.cfg \in Files
    BY ModeFields DEF Lit, LitState, OsatStates
  <2> HIDE DEF board
  <2> QED  BY <2>1, IsBoard
<1>2. PlayTick(m, lit) = [m EXCEPT !.states = board, !.finish_up = done]
  BY DEF PlayTick, Lit
<1>3. done \in BOOLEAN /\ (m.cfg.mode_type = "random_n" => ~done)
  OBVIOUS
<1> HIDE DEF board, done
<1>4. /\ PlayTick(m, lit) \in Mode /\ PlayTick(m, lit).cfg = m.cfg
      /\ PlayTick(m, lit).running = m.running /\ PlayTick(m, lit).states = board
      /\ PlayTick(m, lit).finish_up = done
  BY <1>1, <1>2, <1>3 DEF Mode
<1> QED  BY <1>3, <1>4 DEF board

LEMMA ActOnType ==
  ASSUME NEW m \in Mode, NEW i \in m.cfg.ids, NEW action, Counts(m, action)
  PROVE  /\ ActOn(m, i, action) \in Mode /\ ActOn(m, i, action).cfg = m.cfg
         /\ ActOn(m, i, action).running = m.running
         /\ ActOn(m, i, action).states = [m.states EXCEPT ![i] = "INACTIVE"]
<1> DEFINE dark == [m.states EXCEPT ![i] = "INACTIVE"]
           counted == IF action = "hit" THEN [m EXCEPT !.hits = @ + 1, !.states = dark]
                                        ELSE [m EXCEPT !.timeouts = @ + 1, !.states = dark]
           done == counted.finish_up \/ (m.cfg.mode_type = "random_n"
                                         /\ counted.timeouts >= m.cfg.max_timeout_count)
<1>1. ActOn(m, i, action) = [counted EXCEPT !.finish_up = done]
  BY DEF ActOn
<1>2. dark \in States /\ DOMAIN dark = m.cfg.ids
  <2>1. dark \in [m.cfg.ids -> OsatStates] /\ m.cfg \in Files
    BY ModeFields DEF OsatStates
  <2> HIDE DEF dark
  <2> QED  BY <2>1, IsBoard
<1> HIDE DEF dark
<1>3. counted \in Mode /\ counted.cfg = m.cfg /\ counted.running = m.running /\ counted.states = dark
  <2>1. m.hits + 1 \in Nat /\ m.timeouts + 1 \in Nat
    BY ModeFields
  <2>2. CASE action = "hit"
    <3>1. counted = [m EXCEPT !.hits = m.hits + 1, !.states = dark]
      BY <2>2
    <3> HIDE DEF counted
    <3> QED  BY <1>2, <2>1, <3>1 DEF Mode
  <2>3. CASE action # "hit"
    <3>1. counted = [m EXCEPT !.timeouts = m.timeouts + 1, !.states = dark]
      BY <2>3
    <3> HIDE DEF counted
    <3> QED  BY <1>2, <2>1, <3>1 DEF Mode
  <2> QED  BY <2>2, <2>3
<1>4. done \in BOOLEAN
  BY <1>3, ModeFields
<1> HIDE DEF counted, done
<1>5. /\ ActOn(m, i, action) \in Mode /\ ActOn(m, i, action).cfg = counted.cfg
      /\ ActOn(m, i, action).running = counted.running
      /\ ActOn(m, i, action).states = counted.states
  BY <1>1, <1>3, <1>4 DEF Mode
<1> QED  BY <1>3, <1>5 DEF dark

LEMMA ChoicesAreIds ==
  ASSUME NEW m \in Mode, NEW lit \in Choices(m)
  PROVE  lit \in SUBSET m.cfg.ids
BY DEF Choices, RandomIds

(***************************************************************************)
(* Types.                                                                  *)
(***************************************************************************)

\* There are finitely many ids a device can be listed under.
LEMMA IdsFinite ==
  ASSUME NEW o \in Osats
  PROVE  IsFiniteSet(IdsOf(o))
<1>1. IdsOf(o) \subseteq Ids
  BY DEF IdsOf
<1> QED  BY <1>1, OsatServerAssumption, FS_Subset

LEMMA ModeAt ==
  ASSUME GameTypes, NEW n \in Loaded
  PROVE  n \in Names /\ modes[n] \in Mode
BY DEF GameTypes, Loaded

LEMMA CurrentMode ==
  ASSUME GameTypes, current # None
  PROVE  current \in Names /\ current \in Loaded /\ modes[current] \in Mode
BY ModeAt DEF GameTypes

LEMMA SetModeTypes ==
  ASSUME GameTypes, NEW n \in Names, NEW m \in Mode, modes' = [modes EXCEPT ![n] = m]
  PROVE  /\ modes' \in [Names -> Mode \cup {None}]
         /\ Loaded' = Loaded \cup {n}
BY OsatServerAssumption DEF GameTypes, Loaded

LEMMA SendTypes ==
  ASSUME TypeOK, NEW o \in Osats, NEW payload \in {"config", "invalid", "hit", "timeout"},
         OsatSends(o, payload)
  PROVE  inbox' \in Seq(Message)
<1>1. [osat |-> o, id |-> id[o], payload |-> payload] \in Message
  BY DEF TypeOK, DeviceTypes, Message
<1>2. inbox \in Seq(Message)
  BY DEF TypeOK, MailTypes
<1> QED  BY <1>1, <1>2, AppendProperties DEF OsatSends

LEMMA WriteTypes ==
  ASSUME TypeOK, NEW ids \in SUBSET Ids, NEW cmds \in Seq(Command), WriteTo(ids, cmds)
  PROVE  toOsat' \in [Osats -> Seq(Command)] /\ dropped' \subseteq Ids
<1>1. \A o \in Osats : toOsat[o] \in Seq(Command) /\ toOsat[o] \o cmds \in Seq(Command)
  BY ConcatProperties DEF TypeOK, MailTypes
<1>2. toOsat' \in [Osats -> Seq(Command)]
  BY <1>1 DEF WriteTo
<1>3. dropped' \subseteq Ids
  BY DEF WriteTo, TypeOK, ListTypes
<1> QED  BY <1>2, <1>3

LEMMA InitTypes == Init => TypeOK
<1> SUFFICES ASSUME Init PROVE TypeOK
  OBVIOUS
<1>1. GameTypes /\ ListTypes
  BY DEF Init, GameTypes, ListTypes
<1>2. MailTypes
  BY DEF Init, MailTypes
<1>3. DeviceTypes /\ Bounds
  BY OsatServerAssumption DEF Init, DeviceTypes, Bounds, OsatStates
<1> QED  BY <1>1, <1>2, <1>3 DEF TypeOK

LEMMA AnnounceTypes ==
  ASSUME TypeOK, NEW o \in Osats, OsatAnnounces(o)
  PROVE  inbox' \in Seq(Message)
BY SendTypes DEF OsatAnnounces, TypeOK, MailTypes

LEMMA OsatTypes ==
  ASSUME TypeOK, NEW o \in Osats, Osat(o)
  PROVE  TypeOK'
<1>1. GameTypes' /\ ListTypes'
  BY DEF Osat, Announce, Receive, Hit, Timeout, TypeOK, GameTypes, ListTypes, Loaded, serverVars
<1>2. CASE Announce(o)
  <2>1. MailTypes' /\ DeviceTypes' /\ Bounds'
    BY <1>2, AnnounceTypes DEF Announce, TypeOK, MailTypes, DeviceTypes, Bounds, osatVars,
          serverVars
  <2> QED  BY <1>1, <2>1 DEF TypeOK
<1>3. CASE Receive(o)
  <2>1. toOsat[o] \in Seq(Command) /\ toOsat[o] # <<>>
    BY <1>3 DEF Receive, TypeOK, MailTypes
  <2>2. Tail(toOsat[o]) \in Seq(Command)
    BY <2>1
  <2>3. toOsat' \in [Osats -> Seq(Command)]
    BY <1>3, <2>2 DEF Receive, TypeOK, MailTypes
  <2>4. inbox' \in Seq(Message)
    BY <1>3, AnnounceTypes, SendTypes DEF Receive, OsatRefuses, TypeOK, MailTypes
  <2>5. DeviceTypes' /\ Bounds'
    BY <1>3 DEF Receive, TypeOK, DeviceTypes, Bounds, serverVars
  <2> QED  BY <1>1, <2>3, <2>4, <2>5 DEF TypeOK, MailTypes
<1>4. CASE Hit(o) \/ Timeout(o)
  <2>1. inbox' \in Seq(Message)
    BY <1>4, SendTypes DEF Hit, Timeout
  <2>2. DeviceTypes' /\ toOsat' = toOsat
    BY <1>4 DEF Hit, Timeout, TypeOK, DeviceTypes, OsatStates
  <2>3. Bounds'
    BY <1>4, OsatServerAssumption DEF Hit, Timeout, TypeOK, Bounds, serverVars
  <2> QED  BY <1>1, <2>1, <2>2, <2>3 DEF TypeOK, MailTypes
<1> QED  BY <1>2, <1>3, <1>4 DEF Osat

LEMMA FaultTypes ==
  ASSUME TypeOK, NEW o \in Osats, Fault(o)
  PROVE  TypeOK'
<1>1. GameTypes' /\ Bounds' /\ ListTypes' /\ inbox' = inbox
  <2>1. \A p \in Osats : IdsOf(p) \subseteq Ids
    BY DEF IdsOf
  <2>2. GameTypes' /\ inbox' = inbox
    BY DEF Fault, Lose, PowerCut, TypeOK, GameTypes, Loaded, serverVars
  <2>3. Bounds'
    <3>1. faults' \in 0 .. MaxFaults
      <4>1. faults' = faults + 1 /\ faults < MaxFaults
        BY DEF Fault, Lose, PowerCut
      <4>2. faults \in 0 .. MaxFaults /\ MaxFaults \in Nat
        BY OsatServerAssumption DEF TypeOK, Bounds
      <4> QED  BY <4>1, <4>2
    <3>2. hits' = hits /\ commands' = commands
      BY DEF Fault, Lose, PowerCut, serverVars
    <3> QED  BY <3>1, <3>2 DEF TypeOK, Bounds
  <2>4. ListTypes'
    BY <2>1 DEF Fault, Lose, PowerCut, TypeOK, ListTypes, serverVars
  <2> QED  BY <2>2, <2>3, <2>4
<1>2. CASE Lose(o)
  <2>1. PICK k \in 1 .. Len(toOsat[o]) :
          toOsat' = [toOsat EXCEPT ![o] = SubSeq(@, 1, k - 1)
                                          \o SubSeq(toOsat[o], k + 1, Len(toOsat[o]))]
    BY <1>2 DEF Lose
  <2>2. toOsat[o] \in Seq(Command)
    BY DEF TypeOK, MailTypes
  <2>3. /\ SubSeq(toOsat[o], 1, k - 1) \in Seq(Command)
        /\ SubSeq(toOsat[o], k + 1, Len(toOsat[o])) \in Seq(Command)
    BY <2>2, SubSeqProperties
  <2>4. MailTypes'
    BY <1>1, <2>1, <2>3, ConcatProperties DEF TypeOK, MailTypes
  <2>5. DeviceTypes'
    BY <1>2 DEF Lose, TypeOK, DeviceTypes
  <2> QED  BY <1>1, <2>4, <2>5 DEF TypeOK
<1>3. CASE PowerCut(o)
  <2>1. MailTypes'
    BY <1>1, <1>3 DEF PowerCut, TypeOK, MailTypes
  <2>2. DeviceTypes'
    <3>1. DefaultId \in Ids
      BY DEF Ids
    <3> QED  BY <1>3, <3>1 DEF PowerCut, TypeOK, DeviceTypes
  <2> QED  BY <1>1, <2>1, <2>2 DEF TypeOK
<1> QED  BY <1>2, <1>3 DEF Fault

LEMMA HandleTypes ==
  ASSUME TypeOK, HandleMessage
  PROVE  TypeOK'
<1> DEFINE msg == Head(inbox)
<1>1. /\ msg \in Message /\ inbox' = Tail(inbox) /\ inbox' \in Seq(Message)
      /\ msg.osat \in Osats /\ msg.id \in Ids
  <2>1. inbox \in Seq(Message) /\ inbox # <<>> /\ inbox' = Tail(inbox)
    BY DEF HandleMessage, HandleConfig, HandleAction, TypeOK, MailTypes
  <2>2. msg \in Message /\ Tail(inbox) \in Seq(Message)
    BY <2>1, HeadTailProperties
  <2> QED  BY <2>1, <2>2 DEF Message
<1>2. CASE HandleConfig
  <2>1. clients' \subseteq Ids \X Osats
    BY <1>1, <1>2 DEF HandleConfig, TypeOK, ListTypes
  <2>2. GameTypes' /\ Bounds' /\ DeviceTypes'
    BY <1>2 DEF HandleConfig, TypeOK, GameTypes, Loaded, Bounds, DeviceTypes, osatVars
  <2> QED  BY <1>1, <1>2, <2>1, <2>2 DEF HandleConfig, TypeOK, ListTypes, MailTypes
<1>3. CASE HandleAction
  <2>1. toOsat' \in [Osats -> Seq(Command)]
    <3>1. \A o \in Osats : Append(toOsat[o], "CFG-REQUEST") \in Seq(Command)
      BY AppendProperties DEF TypeOK, MailTypes, Command
    <3> QED  BY <1>1, <1>3, <3>1 DEF HandleAction, TypeOK, MailTypes
  <2>2. ListTypes' /\ Bounds' /\ DeviceTypes'
    BY <1>3 DEF HandleAction, TypeOK, ListTypes, Bounds, DeviceTypes, osatVars
  <2>3. GameTypes'
    <3> DEFINE m == modes[current]
    <3>1. CASE UNCHANGED <<modes, over>>
      BY <1>3, <3>1 DEF HandleAction, TypeOK, GameTypes, Loaded
    <3>2. CASE ~UNCHANGED <<modes, over>>
      <4>1. /\ current # None /\ msg.id \in m.cfg.ids /\ Counts(m, msg.payload)
            /\ modes' = [modes EXCEPT ![current] = ActOn(m, msg.id, msg.payload)]
            /\ over' \in BOOLEAN /\ UNCHANGED crashed
        BY <1>3, <3>2 DEF HandleAction, Running
      <4>2. current \in Names /\ current \in Loaded /\ m \in Mode
        BY <4>1, CurrentMode DEF TypeOK
      <4>3. ActOn(m, msg.id, msg.payload) \in Mode
        BY <4>1, <4>2, ActOnType
      <4>4. modes' \in [Names -> Mode \cup {None}] /\ Loaded' = Loaded \cup {current}
        BY <4>1, <4>2, <4>3, SetModeTypes DEF TypeOK
      <4> QED  BY <1>3, <4>1, <4>4 DEF HandleAction, TypeOK, GameTypes
    <3> QED  BY <3>1, <3>2
  <2> QED  BY <1>1, <2>1, <2>2, <2>3 DEF TypeOK, MailTypes
<1> QED  BY <1>2, <1>3 DEF HandleMessage

LEMMA TickTypes ==
  ASSUME TypeOK, Tick
  PROVE  TypeOK'
<1>1. Bounds' /\ DeviceTypes' /\ inbox' = inbox /\ clients' = clients
  BY DEF Tick, TickStopped, TickReport, TickPlay, TypeOK, Bounds, DeviceTypes, osatVars
<1>2. CASE TickStopped
  BY <1>1, <1>2 DEF TickStopped, TypeOK, GameTypes, Loaded, ListTypes, MailTypes
<1>3. ASSUME NEW m \in Mode, NEW ids \in SUBSET modes[current].cfg.ids,
             NEW cmd \in OsatStates, Running,
             modes' = [modes EXCEPT ![current] = m], WriteTo(ids, <<cmd>>),
             UNCHANGED <<disk, current, crashed>>, pc' = "cmd", over' \in BOOLEAN
      PROVE  TypeOK'
  <2>1. current \in Names /\ modes[current] \in Mode /\ current \in Loaded
    BY <1>3, CurrentMode DEF TypeOK, Running
  <2>2. modes' \in [Names -> Mode \cup {None}] /\ Loaded' = Loaded \cup {current}
    BY <1>3, <2>1, SetModeTypes DEF TypeOK
  <2>3. GameTypes'
    BY <1>3, <2>1, <2>2 DEF TypeOK, GameTypes
  <2>4. ids \in SUBSET Ids
    BY <2>1, ModeFields
  <2>5. <<cmd>> \in Seq(Command)
    BY DEF Command, OsatStates
  <2>6. toOsat' \in [Osats -> Seq(Command)] /\ dropped' \subseteq Ids
    BY <1>3, <2>4, <2>5, WriteTypes
  <2> QED  BY <1>1, <2>3, <2>6 DEF TypeOK, ListTypes, MailTypes
<1>4. CASE TickReport
  <2>1. modes[current] \in Mode /\ current \in Names
    BY <1>4, CurrentMode DEF TickReport, Running, TypeOK
  <2>2. ReportTick(modes[current]) \in Mode
    BY <2>1, ReportTickType
  <2>3. modes' = [modes EXCEPT ![current] = ReportTick(modes[current])]
    BY <1>4 DEF TickReport
  <2>4. over' \in BOOLEAN /\ "INACTIVE" \in OsatStates
    BY <1>4 DEF TickReport, TypeOK, GameTypes, OsatStates
  <2> QED  BY <1>3, <1>4, <2>2, <2>3, <2>4 DEF TickReport
<1>5. CASE TickPlay
  <2>1. modes[current] \in Mode /\ current \in Names
    BY <1>5, CurrentMode DEF TickPlay, Running, TypeOK
  <2>2. PICK lit \in Choices(modes[current]) :
          /\ modes' = [modes EXCEPT ![current] = PlayTick(modes[current], lit)]
          /\ WriteTo(lit, <<LitState(modes[current])>>)
    BY <1>5 DEF TickPlay
  <2>3. lit \in SUBSET modes[current].cfg.ids
    BY <2>1, ChoicesAreIds
  <2>4. PlayTick(modes[current], lit) \in Mode
    BY <2>1, <2>3, PlayTickType
  <2>5. over' \in BOOLEAN /\ LitState(modes[current]) \in OsatStates
    BY <1>5 DEF TickPlay, LitState, OsatStates
  <2> QED  BY <1>3, <1>5, <2>2, <2>3, <2>4, <2>5 DEF TickPlay
<1> QED  BY <1>2, <1>4, <1>5 DEF Tick

LEMMA StartCommandsType ==
  ASSUME NEW m \in Mode
  PROVE  StartCommands(m) \in Seq(Command)
<1>1. m.cfg.mode_type \in {"random_n", "random_fill", "reverse_fill"}
  BY ModeFields, OsatServerAssumption
<1>2. {"CFG-TIMEOUT", "INACTIVE", "ACTIVE"} \subseteq Command
  BY DEF Command, Saving
<1>3. /\ <<"CFG-TIMEOUT", "INACTIVE">> \in Seq(Command)
      /\ <<"INACTIVE">> \in Seq(Command) /\ <<"INACTIVE", "ACTIVE">> \in Seq(Command)
  BY <1>2
<1> QED  BY <1>1, <1>3 DEF StartCommands

LEMMA OperatorTypes ==
  ASSUME TypeOK, Operator
  PROVE  TypeOK'
<1>1. DeviceTypes' /\ inbox' = inbox /\ clients' = clients /\ UNCHANGED <<disk, pc, hits, faults>>
  BY DEF Operator, Load, LoadMalformed, Start, Stop, Thresh, TypeOK, DeviceTypes, osatVars
<1>2. Bounds'
  <2>1. commands' \in 0 .. MaxCommands
    <3>1. commands' = commands \/ (commands' = commands + 1 /\ commands < MaxCommands)
      BY DEF Operator, Load, LoadMalformed, Start, Stop, Thresh
    <3>2. commands \in 0 .. MaxCommands /\ MaxCommands \in Nat
      BY OsatServerAssumption DEF TypeOK, Bounds
    <3> QED  BY <3>1, <3>2
  <2> QED  BY <1>1, <2>1 DEF TypeOK, Bounds
<1>3. CASE \E f \in Files : Load(f)
  <2>1. PICK f \in Files : Load(f)
    BY <1>3
  <2>2. f.mode_name \in Names /\ NewMode(f) \in Mode
    BY NewModeType DEF Names
  <2>3. modes' \in [Names -> Mode \cup {None}] /\ Loaded' = Loaded \cup {f.mode_name}
    BY <2>1, <2>2, SetModeTypes DEF Load, TypeOK
  <2>4. GameTypes'
    BY <2>1, <2>3 DEF Load, TypeOK, GameTypes
  <2>5. ListTypes' /\ MailTypes'
    BY <2>1 DEF Load, TypeOK, ListTypes, MailTypes
  <2> QED  BY <1>1, <1>2, <2>4, <2>5 DEF TypeOK
<1>4. CASE \E n \in Names : Start(n)
  <2>1. PICK n \in Names : Start(n)
    BY <1>4
  <2> DEFINE m == modes[n]
  <2>2. m \in Mode /\ n \in Loaded
    BY <2>1 DEF Start, TypeOK, GameTypes, Loaded
  <2>3. StartMode(m) \in Mode /\ m.cfg.ids \in SUBSET Ids /\ StartCommands(m) \in Seq(Command)
    BY <2>2, StartModeType, ModeFields, StartCommandsType
  <2>4. modes' = [modes EXCEPT ![n] = StartMode(m)] /\ WriteTo(m.cfg.ids, StartCommands(m))
    BY <2>1 DEF Start
  <2>5. modes' \in [Names -> Mode \cup {None}] /\ Loaded' = Loaded \cup {n}
    BY <2>3, <2>4, SetModeTypes DEF TypeOK
  <2>6. toOsat' \in [Osats -> Seq(Command)] /\ dropped' \subseteq Ids
    BY <2>3, <2>4, WriteTypes
  <2>7. GameTypes'
    BY <2>1, <2>5 DEF Start, TypeOK, GameTypes
  <2> QED  BY <1>1, <1>2, <2>6, <2>7 DEF TypeOK, ListTypes, MailTypes
<1>5. CASE Stop
  <2>1. CASE current = None
    BY <1>1, <1>2, <1>5, <2>1
       DEF Stop, TypeOK, GameTypes, Loaded, ListTypes, MailTypes
  <2>2. CASE current # None
    <3> DEFINE m == modes[current]
    <3>1. m \in Mode /\ current \in Names /\ current \in Loaded
      BY <2>2, CurrentMode DEF TypeOK
    <3>2. ResetMode(m) \in Mode /\ m.cfg.ids \in SUBSET Ids /\ <<"INACTIVE">> \in Seq(Command)
      BY <3>1, ResetModeType, ModeFields DEF Command
    <3>3. modes' = [modes EXCEPT ![current] = ResetMode(m)] /\ WriteTo(m.cfg.ids, <<"INACTIVE">>)
      BY <1>5, <2>2 DEF Stop
    <3>4. modes' \in [Names -> Mode \cup {None}] /\ Loaded' = Loaded \cup {current}
      BY <3>1, <3>2, <3>3, SetModeTypes DEF TypeOK
    <3>5. toOsat' \in [Osats -> Seq(Command)] /\ dropped' \subseteq Ids
      BY <3>2, <3>3, WriteTypes
    <3>6. GameTypes'
      BY <1>5, <2>2, <3>1, <3>4 DEF Stop, TypeOK, GameTypes
    <3> QED  BY <1>1, <1>2, <3>5, <3>6 DEF TypeOK, ListTypes, MailTypes
  <2> QED  BY <2>1, <2>2
<1>6. CASE Thresh
  <2> DEFINE times(o) == Cardinality(IdsOf(o))
             cmds(o) == [k \in 1 .. times(o) |-> "CFG-THRESH"]
  <2>1. \A o \in Osats : times(o) \in Nat
    BY IdsFinite, FS_CardinalityType DEF TypeOK
  <2>2. \A o \in Osats : cmds(o) \in Seq(Command)
    BY <2>1 DEF Command, Saving
  <2>3. toOsat' = [o \in Osats |-> toOsat[o] \o cmds(o)]
    BY <1>6 DEF Thresh
  <2>4. toOsat' \in [Osats -> Seq(Command)]
    <3> HIDE DEF cmds
    <3>1. \A o \in Osats : toOsat[o] \o cmds(o) \in Seq(Command)
      BY <2>2, ConcatProperties DEF TypeOK, MailTypes
    <3> QED  BY <2>3, <3>1
  <2>5. GameTypes' /\ ListTypes'
    BY <1>6 DEF Thresh, TypeOK, GameTypes, Loaded, ListTypes
  <2> QED  BY <1>1, <1>2, <2>4, <2>5 DEF TypeOK, MailTypes
<1>7. CASE LoadMalformed
  BY <1>1, <1>2, <1>7
     DEF LoadMalformed, TypeOK, GameTypes, Loaded, ListTypes, MailTypes
<1> QED  BY <1>3, <1>4, <1>5, <1>6, <1>7 DEF Operator

LEMMA NextTypes == TypeOK /\ [Next]_vars => TypeOK'
<1> SUFFICES ASSUME TypeOK, [Next]_vars PROVE TypeOK'
  OBVIOUS
<1>1. CASE UNCHANGED vars
  BY <1>1 DEF vars, serverVars, osatVars, TypeOK, GameTypes, Loaded, ListTypes, MailTypes,
              DeviceTypes, Bounds
<1>2. CASE HandleMessage \/ Tick \/ Operator \/ \E o \in Osats : Osat(o) \/ Fault(o)
  BY <1>2, HandleTypes, TickTypes, OperatorTypes, OsatTypes, FaultTypes
<1>3. CASE NextTurn
  BY <1>3 DEF NextTurn, osatVars, TypeOK, GameTypes, Loaded, ListTypes, MailTypes,
              DeviceTypes, Bounds
<1> QED  BY <1>1, <1>2, <1>3 DEF Next

\* The state of the server and of the devices keeps its types, for any
\* devices, modes and bounds: in particular a mode object's board stays over
\* the ids of its configuration, so that _states.at fails for a foreign id
\* only (Mode.h:254).
THEOREM ServerTypes == Spec => []TypeOK
<1>1. Init => TypeOK
  BY InitTypes
<1>2. TypeOK /\ [Next]_vars => TypeOK'
  BY NextTypes
<1> QED  BY <1>1, <1>2, PTL DEF Spec

(***************************************************************************)
(* CountedReportEarned. It is not inductive: startMode does not clear      *)
(* _finish_up, so what matters is that no loaded random_n object has it    *)
(* set while the operator can type, whether it is current or not. The tick *)
(* that ends each turn takes it back.                                      *)
(***************************************************************************)
EarnedInv ==
  \A n \in Loaded :
    (modes[n].cfg.mode_type = "random_n" /\ modes[n].finish_up) =>
      pc = "data" /\ n = current /\ modes[n].running /\ over

LEMMA EarnedStep == TypeOK /\ EarnedInv /\ [Next]_vars => EarnedInv'
<1> SUFFICES ASSUME TypeOK, EarnedInv, [Next]_vars PROVE EarnedInv'
  OBVIOUS
<1> USE DEF EarnedInv
<1>1. CASE UNCHANGED <<modes, current, pc, over>>
  BY <1>1 DEF Loaded
<1>2. \A n \in Loaded : n \in Names /\ modes[n] \in Mode
  BY ModeAt DEF TypeOK
<1>3. ASSUME NEW n \in Names, NEW m \in Mode, modes' = [modes EXCEPT ![n] = m]
      PROVE  Loaded' = Loaded \cup {n} /\ \A k \in Loaded' : modes'[k] = IF k = n THEN m ELSE modes[k]
  <2>1. Loaded' = Loaded \cup {n} /\ DOMAIN modes = Names /\ Loaded' \subseteq Names
    BY <1>3, SetModeTypes DEF TypeOK, GameTypes, Loaded
  <2>2. \A k \in Names : modes'[k] = IF k = n THEN m ELSE modes[k]
    BY <1>3, <2>1
  <2> QED  BY <2>1, <2>2
<1>4. CASE HandleAction /\ ~UNCHANGED <<modes, over>>
  <2> DEFINE m == modes[current]
             msg == Head(inbox)
  <2>1. /\ current # None /\ m.running /\ msg.id \in m.cfg.ids /\ Counts(m, msg.payload)
        /\ pc = "data" /\ pc' = pc
        /\ modes' = [modes EXCEPT ![current] = ActOn(m, msg.id, msg.payload)]
        /\ over' = (over \/ (modes'[current].finish_up /\ ~m.finish_up)) /\ current' = current
    BY <1>4 DEF HandleAction, Running
  <2>2. current \in Loaded /\ current \in Names /\ m \in Mode
    BY <2>1, CurrentMode DEF TypeOK
  <2> HIDE DEF m, msg
  <2> DEFINE after == ActOn(m, msg.id, msg.payload)
  <2>3. after \in Mode /\ after.cfg = m.cfg /\ after.running = m.running
    BY <2>1, <2>2, ActOnType
  <2>4. Loaded' = Loaded \cup {current} /\ \A k \in Loaded' : modes'[k] = IF k = current THEN after ELSE modes[k]
    BY <1>3, <2>1, <2>2, <2>3
  <2> HIDE DEF after
  <2>5. ASSUME NEW k \in Loaded', modes'[k].cfg.mode_type = "random_n", modes'[k].finish_up
        PROVE  pc' = "data" /\ k = current' /\ modes'[k].running /\ over'
    <3>1. CASE k = current
      BY <2>1, <2>2, <2>3, <2>4, <2>5, <3>1 DEF m
    <3>2. CASE k # current
      BY <2>2, <2>4, <2>5, <3>2
    <3> QED  BY <3>1, <3>2
  <2> QED  BY <2>5
<1>5. CASE TickStopped
  <2>1. \A n \in Loaded : ~(modes[n].cfg.mode_type = "random_n" /\ modes[n].finish_up)
    BY <1>2, <1>5, OsatServerAssumption DEF TickStopped, Running
  <2> QED  BY <1>5, <2>1 DEF TickStopped, Loaded
<1>6. ASSUME NEW m \in Mode, Running, modes' = [modes EXCEPT ![current] = m], current' = current,
             m.cfg.mode_type = "random_n" => ~m.finish_up
      PROVE  EarnedInv'
  <2>1. current \in Loaded /\ current \in Names
    BY <1>6, CurrentMode DEF TypeOK, Running
  <2>2. Loaded' = Loaded \cup {current} /\ \A k \in Loaded' : modes'[k] = IF k = current THEN m ELSE modes[k]
    BY <1>3, <1>6, <2>1
  <2> QED  BY <1>6, <2>1, <2>2
<1>7. CASE TickReport
  <2>1. modes[current] \in Mode
    BY <1>7, CurrentMode DEF TickReport, Running, TypeOK
  <2>2. ReportTick(modes[current]) \in Mode /\ ~ReportTick(modes[current]).finish_up
    BY <2>1, ReportTickType
  <2> QED  BY <1>6, <1>7, <2>2 DEF TickReport
<1>8. CASE TickPlay
  <2>1. modes[current] \in Mode
    BY <1>8, CurrentMode DEF TickPlay, Running, TypeOK
  <2>2. PICK lit \in Choices(modes[current]) :
          modes' = [modes EXCEPT ![current] = PlayTick(modes[current], lit)]
    BY <1>8 DEF TickPlay
  <2>3. /\ PlayTick(modes[current], lit) \in Mode
        /\ PlayTick(modes[current], lit).cfg = modes[current].cfg
        /\ modes[current].cfg.mode_type = "random_n" => ~PlayTick(modes[current], lit).finish_up
    BY <2>1, ChoicesAreIds, PlayTickType
  <2> QED  BY <1>6, <1>8, <2>2, <2>3 DEF TickPlay
<1>9. CASE Operator
  <2>1. pc = "cmd" /\ pc' = "cmd"
    BY <1>9 DEF Operator, Load, LoadMalformed, Start, Stop, Thresh
  <2>2. \A n \in Loaded : ~(modes[n].cfg.mode_type = "random_n" /\ modes[n].finish_up)
    BY <2>1
  <2>3. ASSUME NEW n \in Names, NEW m \in Mode, modes' = [modes EXCEPT ![n] = m],
               m.cfg.mode_type = "random_n" => ~m.finish_up
        PROVE  EarnedInv'
    <3>1. Loaded' = Loaded \cup {n} /\ \A k \in Loaded' : modes'[k] = IF k = n THEN m ELSE modes[k]
      BY <1>3, <2>3
    <3> QED  BY <2>2, <2>3, <3>1
  <2>4. ASSUME NEW f \in Files, Load(f) PROVE EarnedInv'
    <3>1. f.mode_name \in Names /\ NewMode(f) \in Mode /\ ~NewMode(f).finish_up
      BY NewModeType DEF Names
    <3> QED  BY <2>3, <2>4, <3>1 DEF Load
  <2>5. ASSUME NEW n \in Names, Start(n) PROVE EarnedInv'
    <3>1. n \in Loaded /\ modes[n] \in Mode
      BY <1>2, <2>5 DEF Start, Loaded
    <3>2. /\ StartMode(modes[n]) \in Mode /\ StartMode(modes[n]).cfg = modes[n].cfg
          /\ StartMode(modes[n]).finish_up = modes[n].finish_up
      BY <3>1, StartModeType
    <3> QED  BY <2>2, <2>3, <2>5, <3>1, <3>2 DEF Start
  <2>6. ASSUME Stop PROVE EarnedInv'
    <3>1. CASE current = None
      BY <2>2, <2>6, <3>1 DEF Stop, Loaded
    <3>2. CASE current # None
      <4>1. current \in Loaded /\ current \in Names /\ modes[current] \in Mode
        BY <3>2, CurrentMode DEF TypeOK
      <4>2. /\ ResetMode(modes[current]) \in Mode
            /\ ResetMode(modes[current]).cfg = modes[current].cfg
            /\ ResetMode(modes[current]).finish_up = modes[current].finish_up
        BY <4>1, ResetModeType
      <4> QED  BY <2>2, <2>3, <2>6, <3>2, <4>1, <4>2 DEF Stop
    <3> QED  BY <3>1, <3>2
  <2>7. ASSUME Thresh \/ LoadMalformed PROVE EarnedInv'
    BY <2>2, <2>7 DEF Thresh, LoadMalformed, Loaded
  <2> QED  BY <1>9, <2>4, <2>5, <2>6, <2>7 DEF Operator
<1>10. CASE NextTurn
  BY <1>10 DEF NextTurn, Loaded
<1>11. CASE HandleConfig \/ \E o \in Osats : Osat(o) \/ Fault(o)
  <2>1. UNCHANGED <<modes, current, pc, over>>
    BY <1>11 DEF HandleConfig, Osat, Announce, Receive, Hit, Timeout, Fault, Lose, PowerCut, serverVars
  <2> QED  BY <1>1, <2>1
<1>12. CASE HandleAction /\ UNCHANGED <<modes, over>>
  BY <1>1, <1>12 DEF HandleAction
<1>13. CASE UNCHANGED vars
  BY <1>1, <1>13 DEF vars, serverVars
<1> QED  BY <1>4, <1>5, <1>7, <1>8, <1>9, <1>10, <1>11, <1>12, <1>13 DEF Next, HandleMessage, Tick

\* A random_n game reports only after its timeouts have been counted since it
\* was started, whatever was loaded, started and stopped before, by any
\* number of commands (_finish_up, Mode_RandomN.h:43, :57 and :104).
THEOREM CountedIsEarned == Spec => []CountedReportEarned
<1>1. Init => EarnedInv
  BY DEF Init, EarnedInv, Loaded
<1>2. TypeOK /\ EarnedInv /\ [Next]_vars => EarnedInv'
  BY EarnedStep
<1>3. TypeOK /\ EarnedInv => CountedReportEarned
  BY CurrentMode DEF TypeOK, EarnedInv, CountedReportEarned, Running
<1> QED  BY <1>1, <1>2, <1>3, ServerTypes, PTL DEF Spec

=============================================================================
