------------------------ MODULE OsatFleetToolProofs -------------------------
(***************************************************************************)
(* Proof of ToolSets, for any number of devices and any faults: what       *)
(* osat_set_id_tool brings about when it ends by itself.                   *)
(***************************************************************************)
EXTENDS OsatFleetProofs

(***************************************************************************)
(* Who is where. The writer reads the list while it holds the mutex, and   *)
(* then the other thread is not in spinOnce. A tool that ended for want of *)
(* clients holds it to the end, so that nothing is torn.                   *)
(***************************************************************************)
ControlInv ==
  /\ main = "spin" => mtx = "main"
  /\ writer \in {"check", "write"} => mtx = "writer"
  /\ writer = "gone" => ended \in {"success", "failure"} /\ (ended = "failure" => mtx = "writer")
  /\ prog # "tool" => writer = "none"
  /\ main \in {"scan", "loop"} => prog = "terminal"

LEMMA InitControl == Init => ControlInv
BY DEF Init, ControlInv

LEMMA EndsControl ==
  ASSUME NEW how, Ends(how)
  PROVE  ControlInv'
BY DEF Ends, ControlInv

LEMMA ControlStep == TypeOK /\ ControlInv /\ [Next]_vars => ControlInv'
<1> SUFFICES ASSUME TypeOK, ControlInv, [Next]_vars PROVE ControlInv'
  OBVIOUS
<1>1. CASE \E how : Ends(how)
  BY <1>1, EndsControl
<1>2. CASE ~\E how : Ends(how)
  <2> USE <1>2 DEF ControlInv
  <2>1. CASE MainThread
    <3>1. CASE Handle
      BY <3>1 DEF Handle, HandleConfig, HandleOther, Takes, toolVars, runVars
    <3> QED  BY <2>1, <3>1 DEF MainThread, MainLock, MainUnlock
  <2>2. CASE WriterLock \/ WriterThread \/ Tear
    <3>1. CASE WriterLock \/ Tear
      BY <3>1 DEF WriterLock, Tear, runVars
    <3>2. CASE Check
      BY <3>2 DEF Check, EmptyList
    <3>3. CASE \E id \in ids : SetConfig(id)
      BY <3>3 DEF SetConfig, runVars
    <3>4. CASE WriterUnlock \/ Exit
      BY <3>4 DEF WriterUnlock, Exit, runVars
    <3> QED  BY <2>2, <3>1, <3>2, <3>3, <3>4 DEF WriterThread, Gone
  <2>3. CASE Scan
    <3>1. CASE ScanDone
      BY <3>1 DEF ScanDone, toolVars
    <3>2. CASE \E a \in Addresses : ScanNext(a) \/ ScanCount(a) \/ ScanWrite(a)
      <4>1. UNCHANGED <<toolVars, prog, main, ended>>
        BY <1>2, <3>2 DEF ScanNext, ScanCount, ScanWrite
      <4> QED  BY <4>1 DEF toolVars
    <3> QED  BY <2>3, <3>1, <3>2 DEF Scan
  <2>4. CASE User
    <3>1. CASE \E v \in Typed : Thresh(v)
      BY <3>1 DEF Thresh, toolVars, runVars
    <3> QED  BY <2>4, <3>1 DEF User, Launch, Enter, Interrupt, runVars, TypeOK, RunTypes
  <2>5. CASE \E o \in Osats : Osat(o) \/ Fault(o)
    BY <2>5 DEF Osat, Announce, Hit, Transmit, Receive, Fault, Lose, PowerCut, toolVars, runVars
  <2>6. CASE UNCHANGED vars
    BY <2>6 DEF vars, toolVars, runVars
  <2> QED  BY <2>1, <2>2, <2>3, <2>4, <2>5, <2>6 DEF Next
<1> QED  BY <1>1, <1>2

(***************************************************************************)
(* From Check on, each device that is bound to get cfg has it, or what it  *)
(* lacks is among its commands, or an entry that shows the difference is   *)
(* still to be written to; and no command says anything else.              *)
(***************************************************************************)
Written ==
  \/ writer \in {"write", "exit"}
  \/ writer = "gone" /\ ended = "success"
  \/ prog = "none" /\ ended \in {"success", "torn"}

Waits(o, kind) == \E k \in DOMAIN toOsat[o] : toOsat[o][k].kind = kind
Unwritten(o, id) == writer = "write" /\ id \in ids /\ Contains(clients, id, o)

OnlyCfg(o) ==
  \A k \in DOMAIN toOsat[o] :
    /\ toOsat[o][k].kind = "CFG-ID" => toOsat[o][k].value = cfg.id
    /\ toOsat[o][k].kind = "CFG-THRESH" => toOsat[o][k].value = cfg.hit_thresh
IdComes(o) ==
  saved[o].id # cfg.id =>
    Waits(o, "CFG-ID") \/ \E id \in 1 .. 255 : Unwritten(o, id) /\ clients[<<id, o>>].id # cfg.id
ThreshComes(o) ==
  saved[o].hit_thresh # cfg.hit_thresh =>
    \/ Waits(o, "CFG-THRESH")
    \/ \E id \in 1 .. 255 : Unwritten(o, id) /\ clients[<<id, o>>].hit_thresh # cfg.hit_thresh
ComesTo(o) == OnlyCfg(o) /\ IdComes(o) /\ ThreshComes(o)

SetInv == Written => cfg \in Configs /\ \A o \in bound : ComesTo(o)

\* The writer turns to the list when it has it as the settled devices are.
LEMMA CheckSets ==
  ASSUME TypeOK, FreshInv, Check
  PROVE  SetInv'
<1> SUFFICES ASSUME Written' PROVE cfg' \in Configs /\ \A o \in bound' : ComesTo(o)'
  BY DEF SetInv
<1>1. clients # EmptyList
  BY DEF Check, Written
<1>2. /\ ids' = getIds(clients) /\ bound' = bound \cap Settled /\ writer' = "write"
      /\ UNCHANGED <<saved, toOsat, clients>>
  BY <1>1 DEF Check, osatVars
<1>3. cfg' \in Configs
  BY <1>2, CheckTypes DEF TypeOK, ListTypes
<1>4. ASSUME NEW o \in bound' PROVE ComesTo(o)'
  <2>1. o \in Osats /\ o \in Settled /\ saved[o] \in Configs /\ toOsat[o] = <<>>
    BY <1>2, <1>4 DEF Settled, TypeOK, DeviceTypes
  <2>2. Heard(o)
    BY <2>1 DEF Settled, Heard, getIds, TypeOK, ListTypes
  <2>3. Known(o)
    BY <2>1, <2>2 DEF FreshInv, FreshOf, Settled, Pending, ConfigsOf
  <2>4. saved[o].id \in 1 .. 255 /\ saved[o].id \in getIds(clients)
    BY <2>1, <2>3 DEF Known, Contains, getIds, Configs
  <2>5. Unwritten(o, saved[o].id)' /\ clients'[<<saved[o].id, o>>] = saved[o]
    BY <1>2, <2>3, <2>4 DEF Unwritten, Known, Contains
  <2>6. OnlyCfg(o)'
    BY <1>2, <2>1 DEF OnlyCfg
  <2>7. IdComes(o)' /\ ThreshComes(o)'
    BY <1>2, <2>4, <2>5 DEF IdComes, ThreshComes
  <2> QED  BY <2>6, <2>7 DEF ComesTo
<1> QED  BY <1>3, <1>4

\* What is sent for an entry: cfg, where the entry differs, and no more.
LEMMA DifferentSays ==
  ASSUME NEW old \in Configs, cfg \in Configs
  PROVE  /\ Different(old) \in Seq(Command)
         /\ \A k \in DOMAIN Different(old) :
              \/ Different(old)[k] = [kind |-> "CFG-ID", value |-> cfg.id]
              \/ Different(old)[k] = [kind |-> "CFG-THRESH", value |-> cfg.hit_thresh]
         /\ old.id # cfg.id => \E k \in DOMAIN Different(old) : Different(old)[k].kind = "CFG-ID"
         /\ old.hit_thresh # cfg.hit_thresh =>
              \E k \in DOMAIN Different(old) : Different(old)[k].kind = "CFG-THRESH"
<1> DEFINE ci == [kind |-> "CFG-ID", value |-> cfg.id]
           ct == [kind |-> "CFG-THRESH", value |-> cfg.hit_thresh]
<1>1. ci \in Command /\ ct \in Command
  BY ConfigLines
<1>2. ci.kind = "CFG-ID" /\ ct.kind = "CFG-THRESH"
  OBVIOUS
<1> HIDE DEF ci, ct
<1>3. Different(old) = (IF old.id # cfg.id THEN <<ci>> ELSE <<>>)
                       \o (IF old.hit_thresh # cfg.hit_thresh THEN <<ct>> ELSE <<>>)
  BY DEF Different, ci, ct
<1>4. CASE old.id # cfg.id /\ old.hit_thresh # cfg.hit_thresh
  <2>1. Different(old) = <<ci>> \o <<ct>>
    BY <1>3, <1>4
  <2>2. /\ Different(old) \in Seq(Command) /\ DOMAIN Different(old) = 1 .. 2
        /\ Different(old)[1] = ci /\ Different(old)[2] = ct
    BY <1>1, <1>2, <2>1
  <2> QED  BY <1>1, <1>2, <1>4, <2>2 DEF ci, ct
<1>5. CASE old.id # cfg.id /\ old.hit_thresh = cfg.hit_thresh
  <2>1. Different(old) = <<ci>>
    BY <1>3, <1>5
  <2> QED  BY <1>1, <1>2, <1>5, <2>1 DEF ci, ct
<1>6. CASE old.id = cfg.id /\ old.hit_thresh # cfg.hit_thresh
  <2>1. Different(old) = <<ct>>
    BY <1>3, <1>6
  <2> QED  BY <1>1, <1>2, <1>6, <2>1 DEF ci, ct
<1>7. CASE old.id = cfg.id /\ old.hit_thresh = cfg.hit_thresh
  <2>1. Different(old) = <<>>
    BY <1>3, <1>7
  <2> QED  BY <1>7, <2>1
<1> QED  BY <1>4, <1>5, <1>6, <1>7

\* What is written to an entry settles what it showed.
LEMMA SetConfigSets ==
  ASSUME TypeOK, SetInv, NEW id \in ids, SetConfig(id)
  PROVE  SetInv'
<1> SUFFICES ASSUME NEW o \in bound PROVE ComesTo(o)'
  <2>1. UNCHANGED <<cfg, bound, writer>> /\ Written
    BY DEF SetConfig, history, Written
  <2> QED  BY <2>1 DEF SetInv
<1>1. /\ UNCHANGED <<saved, clients, cfg, writer>> /\ ids' = ids \ {id} /\ writer = "write"
      /\ cfg \in Configs /\ ComesTo(o)
  BY DEF SetConfig, osatVars, SetInv, Written
<1>2. o \in Osats /\ toOsat[o] \in Seq(Command)
  BY DEF TypeOK, RunTypes, MailTypes
<1>3. CASE Contains(clients, id, o)
  <2> DEFINE old == clients[<<id, o>>]
             added == Different(old)
             n == Len(toOsat[o])
  <2>1. id \in 1 .. 255 /\ old \in Configs
    BY <1>3 DEF Contains, TypeOK, ListTypes
  <2>2. /\ added \in Seq(Command) /\ toOsat'[o] = toOsat[o] \o added
        /\ \A k \in DOMAIN added : \/ added[k] = [kind |-> "CFG-ID", value |-> cfg.id]
                                   \/ added[k] = [kind |-> "CFG-THRESH", value |-> cfg.hit_thresh]
        /\ old.id # cfg.id => \E k \in DOMAIN added : added[k].kind = "CFG-ID"
        /\ old.hit_thresh # cfg.hit_thresh => \E k \in DOMAIN added : added[k].kind = "CFG-THRESH"
    BY <1>1, <1>2, <1>3, <2>1, DifferentSays DEF SetConfig
  <2> HIDE DEF added
  <2>3. /\ DOMAIN toOsat[o] = 1 .. n /\ n \in Nat /\ DOMAIN added = 1 .. Len(added)
        /\ DOMAIN toOsat'[o] = 1 .. n + Len(added) /\ Len(added) \in Nat
        /\ \A k \in 1 .. n : toOsat'[o][k] = toOsat[o][k]
        /\ \A k \in 1 .. Len(added) : toOsat'[o][n + k] = added[k]
    BY <1>2, <2>2
  <2> HIDE DEF n, old
  <2>4. \A k \in DOMAIN toOsat'[o] : k \in 1 .. n \/ k - n \in 1 .. Len(added)
    BY <2>3
  <2>5. OnlyCfg(o)'
    <3> SUFFICES ASSUME NEW k \in DOMAIN toOsat'[o]
                 PROVE  /\ toOsat'[o][k].kind = "CFG-ID" => toOsat'[o][k].value = cfg.id
                        /\ toOsat'[o][k].kind = "CFG-THRESH" => toOsat'[o][k].value = cfg.hit_thresh
      BY <1>1 DEF OnlyCfg
    <3>1. CASE k \in 1 .. n
      BY <1>1, <2>3, <3>1 DEF ComesTo, OnlyCfg
    <3>2. CASE k - n \in 1 .. Len(added)
      <4>1. toOsat'[o][k] = added[k - n]
        BY <2>3, <3>2
      <4> QED  BY <2>2, <2>3, <3>2, <4>1
    <3> QED  BY <2>4, <3>1, <3>2
  <2>6. \A kind : Waits(o, kind) => Waits(o, kind)'
    BY <2>3 DEF Waits
  <2>7. \A kind : (\E k \in DOMAIN added : added[k].kind = kind) => Waits(o, kind)'
    <3> SUFFICES ASSUME NEW kind, NEW k \in DOMAIN added, added[k].kind = kind
                 PROVE  \E j \in DOMAIN toOsat'[o] : toOsat'[o][j].kind = kind
      BY DEF Waits
    <3>1. n + k \in DOMAIN toOsat'[o] /\ toOsat'[o][n + k] = added[k]
      BY <2>3
    <3> QED  BY <3>1
  <2>8. \A i \in 1 .. 255 : Unwritten(o, i) => i = id \/ Unwritten(o, i)'
    BY <1>1 DEF Unwritten, Contains
  <2>9. IdComes(o)' /\ ThreshComes(o)'
    BY <1>1, <2>2, <2>6, <2>7, <2>8 DEF ComesTo, IdComes, ThreshComes, old
  <2> QED  BY <2>5, <2>9 DEF ComesTo
<1>4. CASE ~Contains(clients, id, o)
  <2>1. toOsat'[o] = toOsat[o]
    BY <1>2, <1>4 DEF SetConfig
  <2>2. \A n \in 1 .. 255 : Unwritten(o, n) => Unwritten(o, n)'
    BY <1>1, <1>4 DEF Unwritten, Contains
  <2> QED  BY <1>1, <2>1, <2>2 DEF ComesTo, OnlyCfg, IdComes, ThreshComes, Waits
<1> QED  BY <1>3, <1>4

\* A command taken is one that says what cfg says.
LEMMA ReceiveSets ==
  ASSUME TypeOK, SetInv, NEW p \in Osats, Receive(p)
  PROVE  SetInv'
<1> SUFFICES ASSUME Written, NEW o \in bound PROVE cfg' \in Configs /\ ComesTo(o)'
  BY DEF SetInv, Written, Receive, toolVars, runVars, history
<1>1. /\ UNCHANGED <<clients, writer, ids, cfg>> /\ cfg \in Configs /\ ComesTo(o)
  BY DEF Receive, toolVars, SetInv
<1>2. o \in Osats /\ toOsat[o] \in Seq(Command) /\ saved[o] \in Configs
  BY DEF TypeOK, RunTypes, MailTypes, DeviceTypes
<1>3. CASE o # p
  <2>1. toOsat'[o] = toOsat[o] /\ saved'[o] = saved[o]
    BY <1>2, <1>3 DEF Receive, TypeOK, MailTypes, DeviceTypes
  <2> QED  BY <1>1, <2>1 DEF ComesTo, OnlyCfg, IdComes, ThreshComes, Waits, Unwritten, Contains
<1>4. CASE o = p
  <2> DEFINE c == Head(toOsat[o])
             now == Parsed(saved[o], c)
  <2>1. toOsat[o] # <<>> /\ toOsat'[o] = Tail(toOsat[o]) /\ saved'[o] = now
    BY <1>2, <1>4 DEF Receive, TypeOK, MailTypes, DeviceTypes
  <2>2. /\ 1 \in DOMAIN toOsat[o] /\ c = toOsat[o][1] /\ c \in Command
        /\ \A k \in DOMAIN toOsat'[o] :
             k + 1 \in DOMAIN toOsat[o] /\ toOsat'[o][k] = toOsat[o][k + 1]
        /\ \A k \in DOMAIN toOsat[o] \ {1} :
             k - 1 \in DOMAIN toOsat'[o] /\ toOsat'[o][k - 1] = toOsat[o][k]
    <3> DEFINE n == Len(toOsat[o])
               rest == Tail(toOsat[o])
    <3>1. /\ DOMAIN toOsat[o] = 1 .. n /\ n \in Nat \ {0} /\ DOMAIN rest = 1 .. n - 1
          /\ \A k \in 1 .. n - 1 : rest[k] = toOsat[o][k + 1]
      BY <1>2, <2>1
    <3>2. c = toOsat[o][1] /\ c \in Command /\ toOsat'[o] = rest
      BY <1>2, <2>1
    <3> HIDE DEF c, n, rest
    <3>3. ASSUME NEW k \in 1 .. n, k # 1
          PROVE  k - 1 \in 1 .. n - 1 /\ rest[k - 1] = toOsat[o][k]
      <4>1. k - 1 \in 1 .. n - 1 /\ (k - 1) + 1 = k
        BY <3>1, <3>3
      <4> QED  BY <3>1, <4>1
    <3>4. 1 \in 1 .. n /\ \A k \in 1 .. n - 1 : k + 1 \in 1 .. n
      BY <3>1
    <3>5. \A k \in DOMAIN toOsat'[o] :
            k + 1 \in DOMAIN toOsat[o] /\ toOsat'[o][k] = toOsat[o][k + 1]
      BY <3>1, <3>2, <3>4
    <3>6. \A k \in DOMAIN toOsat[o] \ {1} :
            k - 1 \in DOMAIN toOsat'[o] /\ toOsat'[o][k - 1] = toOsat[o][k]
      BY <3>1, <3>2, <3>3
    <3> QED  BY <3>1, <3>2, <3>4, <3>5, <3>6
  <2> HIDE DEF c
  <2>3. cfg.id \in 1 .. 255 /\ cfg.hit_thresh \in 1 .. 1023
    BY <1>1 DEF Configs
  <2>4. /\ c.kind = "CFG-ID" => now = [saved[o] EXCEPT !.id = cfg.id]
        /\ c.kind = "CFG-THRESH" => now = [saved[o] EXCEPT !.hit_thresh = cfg.hit_thresh]
        /\ c.kind \notin {"CFG-ID", "CFG-THRESH"} => now = saved[o]
    <3>1. /\ c.kind = "CFG-ID" => c.value = cfg.id
          /\ c.kind = "CFG-THRESH" => c.value = cfg.hit_thresh
      BY <1>1, <2>2 DEF ComesTo, OnlyCfg
    <3>2. CASE c.kind = "CFG-ID"
      BY <2>3, <3>1, <3>2 DEF Parsed
    <3>3. CASE c.kind = "CFG-THRESH"
      BY <2>3, <3>1, <3>3 DEF Parsed
    <3>4. CASE c.kind \notin {"CFG-ID", "CFG-THRESH"}
      BY <3>4 DEF Parsed
    <3> QED  BY <3>2, <3>3, <3>4
  <2>5. /\ now.id = IF c.kind = "CFG-ID" THEN cfg.id ELSE saved[o].id
        /\ now.hit_thresh = IF c.kind = "CFG-THRESH" THEN cfg.hit_thresh ELSE saved[o].hit_thresh
    BY <1>2, <2>4 DEF Configs
  <2> HIDE DEF now
  <2>6. OnlyCfg(o)'
    BY <1>1, <2>2 DEF ComesTo, OnlyCfg
  <2>7. \A kind : Waits(o, kind) => c.kind = kind \/ Waits(o, kind)'
    BY <2>2 DEF Waits
  <2>8. IdComes(o)' /\ ThreshComes(o)'
    BY <1>1, <2>1, <2>5, <2>7 DEF ComesTo, IdComes, ThreshComes, Unwritten, Contains
  <2> QED  BY <1>1, <2>6, <2>8 DEF ComesTo
<1> QED  BY <1>3, <1>4

\* Steps that write at most a request, and no fault of a device that counts.
LEMMA RequestSets ==
  ASSUME TypeOK, SetInv, Written' => Written, UNCHANGED cfg, bound' \subseteq bound,
         \A o \in bound' : /\ saved'[o] = saved[o]
                           /\ toOsat'[o] \in {toOsat[o], toOsat[o] \o <<Request>>},
         \/ writer # "write" \/ ids = {} \/ UNCHANGED <<writer, ids, clients>>
  PROVE  SetInv'
<1> SUFFICES ASSUME Written, NEW o \in bound' PROVE ComesTo(o)'
  BY DEF SetInv
<1>1. cfg \in Configs /\ ComesTo(o) /\ toOsat[o] \in Seq(Command)
  BY DEF SetInv, TypeOK, MailTypes, RunTypes
<1>2. /\ \A k \in DOMAIN toOsat[o] : k \in DOMAIN toOsat'[o] /\ toOsat'[o][k] = toOsat[o][k]
      /\ \A k \in DOMAIN toOsat'[o] : toOsat'[o][k] = Request \/ k \in DOMAIN toOsat[o]
  <2> DEFINE q == toOsat[o]
             more == q \o <<Request>>
  <2>1. /\ DOMAIN q = 1 .. Len(q) /\ Len(q) \in Nat /\ DOMAIN more = 1 .. Len(q) + 1
        /\ more[Len(q) + 1] = Request /\ \A k \in 1 .. Len(q) : more[k] = q[k]
    BY <1>1
  <2>2. toOsat'[o] = q \/ toOsat'[o] = more
    OBVIOUS
  <2> HIDE DEF q, more
  <2>3. toOsat[o] = q
    BY DEF q
  <2>4. \A k \in 1 .. Len(q) + 1 : k \in 1 .. Len(q) \/ k = Len(q) + 1
    BY <2>1
  <2> QED  BY <2>1, <2>2, <2>3, <2>4
<1>4. OnlyCfg(o)'
  BY <1>1, <1>2 DEF ComesTo, OnlyCfg, Request
<1>5. \A kind : Waits(o, kind) => Waits(o, kind)'
  BY <1>2 DEF Waits
<1>6. \A id \in 1 .. 255 : Unwritten(o, id) => Unwritten(o, id)' /\ UNCHANGED clients
  BY DEF Unwritten, Contains
<1>7. IdComes(o)' /\ ThreshComes(o)'
  BY <1>1, <1>5, <1>6 DEF ComesTo, IdComes, ThreshComes
<1> QED  BY <1>1, <1>4, <1>7 DEF ComesTo

LEMMA EndsSets ==
  ASSUME TypeOK, ControlInv, SetInv, Tear \/ Gone \/ Interrupt \/ Ends("smashed")
  PROVE  SetInv'
<1>1. CASE Tear \/ Gone
  <2>1. writer = "gone" /\ (Written' => Written)
    BY <1>1 DEF Tear, Gone, Ends, Written, ControlInv
  <2>2. UNCHANGED <<saved, toOsat, cfg, bound>>
    BY <1>1 DEF Tear, Gone, Ends, osatVars, history
  <2> QED  BY <2>1, <2>2, RequestSets
<1>2. CASE Interrupt \/ Ends("smashed")
  <2>1. ~Written'
    BY <1>2 DEF Interrupt, Ends, Written
  <2> QED  BY <2>1 DEF SetInv
<1> QED  BY <1>1, <1>2

LEMMA HandleSets ==
  ASSUME TypeOK, ControlInv, SetInv, Handle
  PROVE  SetInv'
<1> DEFINE m == Head(inbox)
<1>1. Takes(m)
  BY DEF Handle, HandleConfig, HandleOther
<1>2. writer # "write"
  BY <1>1 DEF Takes, ControlInv
<1>3. UNCHANGED <<saved, cfg, bound>> /\ (Written' => Written)
  BY <1>1 DEF Takes, osatVars, toolVars, runVars, history, Written
<1>4. \A o \in Osats : toOsat'[o] \in {toOsat[o], toOsat[o] \o <<Request>>}
  BY DEF Handle, HandleConfig, HandleOther, Write, TypeOK, MailTypes
<1>5. bound \subseteq Osats
  BY DEF TypeOK, RunTypes
<1> QED  BY <1>2, <1>3, <1>4, <1>5, RequestSets

LEMMA ScanSets ==
  ASSUME TypeOK, ControlInv, SetInv, Scan
  PROVE  SetInv'
<1>1. CASE Ends("smashed")
  BY <1>1, EndsSets
<1>2. CASE ~Ends("smashed")
  <2>1. UNCHANGED <<saved, bound, toolVars, prog, ended, clients>>
    <3>1. CASE ScanDone
      BY <3>1 DEF ScanDone, osatVars, history
    <3>2. CASE \E a \in Addresses : ScanNext(a) \/ ScanCount(a) \/ ScanWrite(a)
      <4>1. UNCHANGED <<osatVars, clients, toolVars, prog, ended, history>>
        BY <1>2, <3>2 DEF ScanNext, ScanCount, ScanWrite
      <4> QED  BY <4>1 DEF osatVars, history
    <3> QED  BY <3>1, <3>2 DEF Scan
  <2>2. \A o \in Osats : toOsat'[o] \in {toOsat[o], toOsat[o] \o <<Request>>}
    <3>1. CASE \E a \in Addresses : ScanWrite(a)
      BY <3>1 DEF ScanWrite, Write, TypeOK, MailTypes
    <3>2. CASE ~\E a \in Addresses : ScanWrite(a)
      BY <1>2, <3>2 DEF Scan, ScanNext, ScanCount, ScanDone
    <3> QED  BY <3>1, <3>2
  <2>3. bound \subseteq Osats
    BY DEF TypeOK, RunTypes
  <2> QED  BY <2>1, <2>2, <2>3, RequestSets DEF toolVars, Written
<1> QED  BY <1>1, <1>2

LEMMA OsatSets ==
  ASSUME TypeOK, SetInv, NEW p \in Osats, Announce(p) \/ Hit(p) \/ Transmit(p) \/ Fault(p)
  PROVE  SetInv'
<1>1. UNCHANGED <<toolVars, prog, ended, clients>> /\ bound' \subseteq bound
  BY DEF Announce, Hit, Transmit, Fault, Lose, PowerCut, runVars, history
<1>2. \A o \in bound' : saved'[o] = saved[o] /\ toOsat'[o] = toOsat[o]
  <2>1. bound \subseteq Osats /\ DOMAIN saved = Osats /\ DOMAIN toOsat = Osats
    BY DEF TypeOK, RunTypes, DeviceTypes, MailTypes
  <2>2. CASE Fault(p)
    <3> SUFFICES ASSUME NEW o \in bound' PROVE saved'[o] = saved[o] /\ toOsat'[o] = toOsat[o]
      OBVIOUS
    <3>1. o # p /\ o \in Osats
      BY <2>1, <2>2 DEF Fault, Lose, PowerCut
    <3> QED  BY <2>1, <2>2, <3>1 DEF Fault, Lose, PowerCut, osatVars
  <2> QED  BY <2>2 DEF Announce, Hit, Transmit, history
<1> QED  BY <1>1, <1>2, RequestSets DEF toolVars, Written

LEMMA OtherSets ==
  ASSUME TypeOK, ControlInv, SetInv,
         \/ MainLock \/ MainUnlock \/ WriterLock \/ WriterUnlock \/ Exit \/ Enter
         \/ UNCHANGED vars
  PROVE  SetInv'
<1>1. UNCHANGED <<saved, toOsat, cfg, ids, clients, bound>>
  BY DEF MainLock, MainUnlock, WriterLock, WriterUnlock, Exit, Enter, osatVars, history, vars, toolVars
<1>2. Written' => Written
  BY DEF MainLock, MainUnlock, WriterLock, WriterUnlock, Exit, Enter, Written, runVars, vars, toolVars
<1>3. writer # "write" \/ ids = {} \/ UNCHANGED writer
  BY DEF MainLock, MainUnlock, WriterLock, WriterUnlock, Exit, Enter, vars, toolVars
<1> QED  BY <1>1, <1>2, <1>3, RequestSets

LEMMA SetStep == TypeOK /\ FreshInv /\ ControlInv /\ SetInv /\ [Next]_vars => SetInv'
<1> SUFFICES ASSUME TypeOK, FreshInv, ControlInv, SetInv, [Next]_vars PROVE SetInv'
  OBVIOUS
<1>1. CASE MainThread \/ WriterLock \/ Enter
  BY <1>1, HandleSets, OtherSets DEF MainThread
<1>2. CASE WriterThread \/ Tear
  BY <1>2, CheckSets, SetConfigSets, OtherSets, EndsSets DEF WriterThread
<1>3. CASE Scan
  BY <1>3, ScanSets
<1>4. CASE User
  <2>1. ASSUME NEW p \in {"tool", "terminal"}, Launch(p) PROVE SetInv'
    <3>1. ~Written'
      BY <2>1 DEF Launch, Written
    <3> QED  BY <3>1 DEF SetInv
  <2>2. ASSUME NEW v \in Typed, Thresh(v) PROVE SetInv'
    <3>1. main = "loop" /\ UNCHANGED <<toolVars, runVars>>
      BY <2>2 DEF Thresh
    <3>2. ~Written'
      BY <3>1 DEF toolVars, runVars, ControlInv, Written
    <3> QED  BY <3>2 DEF SetInv
  <2> QED  BY <1>1, <1>4, <2>1, <2>2, EndsSets DEF User
<1>5. CASE \E o \in Osats : Osat(o) \/ Fault(o)
  BY <1>5, OsatSets, ReceiveSets DEF Osat
<1>6. CASE UNCHANGED vars
  BY <1>6, OtherSets
<1> QED  BY <1>1, <1>2, <1>3, <1>4, <1>5, <1>6 DEF Next

(***************************************************************************)
(* ToolSets, from SetInv; which rests on FreshInv, so that the entry that  *)
(* Check finds is the device's, and on ControlInv, so that the list is not *)
(* changed while the writer goes through it.                               *)
(***************************************************************************)
THEOREM ToolSetsEach == Spec => []ToolSets
<1>1. Init => FreshInv /\ ControlInv /\ SetInv
  <2>1. Init => SetInv
    BY DEF Init, SetInv, Written
  <2> QED  BY <2>1, InitFresh, InitControl
<1>2. TypeOK /\ FreshInv /\ ControlInv /\ SetInv /\ [Next]_vars => (FreshInv /\ ControlInv /\ SetInv)'
  BY FreshStep, ControlStep, SetStep
<1>3. TypeOK /\ ControlInv /\ SetInv => ToolSets
  <2> SUFFICES ASSUME TypeOK, ControlInv, SetInv, prog = "none", ended \in {"success", "torn"},
                      NEW o \in bound, toOsat[o] = <<>>
               PROVE  saved[o] = cfg
    BY DEF ToolSets
  <2>1. cfg \in Configs /\ ComesTo(o) /\ writer = "none"
    BY DEF SetInv, Written, ControlInv
  <2>2. saved[o] \in Configs
    BY DEF TypeOK, RunTypes, DeviceTypes
  <2>3. saved[o].id = cfg.id /\ saved[o].hit_thresh = cfg.hit_thresh
    BY <2>1 DEF ComesTo, IdComes, ThreshComes, Waits, Unwritten
  <2> QED  BY <2>1, <2>2, <2>3 DEF Configs
<1> QED  BY <1>1, <1>2, <1>3, FleetTypes, PTL DEF Spec
=============================================================================
