------------------------ MODULE OsatServerLightProofs ------------------------
(***************************************************************************)
(* Proofs of NoLostOsat and StoppedGameIsDark for any devices, modes,      *)
(* commands and faults: what the server believes of a device against what  *)
(* the device is going to show.                                            *)
(***************************************************************************)
EXTENDS OsatServerProofs, WellFoundedInduction

(***************************************************************************)
(* What a sequence of commands leaves a device in.                         *)
(***************************************************************************)

LastOf(S, k) == k \in S /\ \A j \in S : j <= k

LEMMA HasLast ==
  ASSUME NEW n \in Nat, NEW S \in SUBSET (1 .. n), S # {}
  PROVE  \E k \in S : LastOf(S, k)
<1> DEFINE D == {n - k : k \in S}
<1>1. D \subseteq Nat /\ D # {}
  <2>1. \A k \in 1 .. n : n - k \in Nat
    OBVIOUS
  <2> QED  BY <2>1
<1>2. PICK d \in D : \A e \in D : <<e, d>> \notin OpToRel(<, Nat)
  BY <1>1, WFMin, NatLessThanWellFounded, Zenon
<1>3. \A e \in D : ~(e < d)
  BY <1>1, <1>2, Zenon DEF OpToRel
<1>4. PICK k \in S : d = n - k
  OBVIOUS
<1>5. \A j \in S : j <= k
  <2> TAKE j \in S
  <2>1. n - j \in D /\ ~(n - j < n - k)
    BY <1>3, <1>4
  <2>2. j \in Int /\ k \in Int
    OBVIOUS
  <2> QED  BY <2>1, <2>2
<1> QED  BY <1>5 DEF LastOf

LEMMA StatesHaveLast ==
  ASSUME NEW s \in Seq(Command), StatesIn(s) # {}
  PROVE  \E k \in StatesIn(s) : LastOf(StatesIn(s), k)
<1>1. StatesIn(s) \in SUBSET (1 .. Len(s)) /\ Len(s) \in Nat
  BY DEF StatesIn
<1> QED  BY <1>1, HasLast

LEMMA FinalIsLast ==
  ASSUME NEW s \in Seq(Command), NEW k, LastOf(StatesIn(s), k), NEW x
  PROVE  Final(s, x) = s[k] /\ s[k] \in OsatStates
<1> DEFINE last == CHOOSE i \in StatesIn(s) : \A j \in StatesIn(s) : j <= i
<1>1. k \in StatesIn(s) /\ \A j \in StatesIn(s) : j <= k
  BY DEF LastOf
<1>2. last \in StatesIn(s) /\ \A j \in StatesIn(s) : j <= last
  BY <1>1
<1>3. last \in Nat /\ k \in Nat /\ last <= k /\ k <= last
  BY <1>1, <1>2 DEF StatesIn
<1> HIDE DEF last
<1>4. last = k
  BY <1>3
<1>5. Final(s, x) = s[last]
  BY <1>1 DEF Final, last
<1> QED  BY <1>1, <1>4, <1>5 DEF StatesIn

LEMMA FinalConcat ==
  ASSUME NEW s \in Seq(Command), NEW t \in Seq(Command), NEW x
  PROVE  Final(s \o t, x) = Final(t, Final(s, x))
<1> DEFINE st == s \o t
           n == Len(s)
<1>1. /\ st \in Seq(Command) /\ DOMAIN st = 1 .. n + Len(t) /\ n \in Nat /\ Len(t) \in Nat
      /\ DOMAIN s = 1 .. n /\ DOMAIN t = 1 .. Len(t)
      /\ \A i \in 1 .. n : st[i] = s[i]
      /\ \A i \in 1 .. Len(t) : n + i \in 1 .. n + Len(t) /\ st[n + i] = t[i]
  <2>1. /\ st \in Seq(Command) /\ Len(st) = n + Len(t)
        /\ \A i \in 1 .. n + Len(t) : st[i] = IF i <= n THEN s[i] ELSE t[i - n]
    BY ConcatProperties
  <2>2. n \in Nat /\ Len(t) \in Nat /\ DOMAIN s = 1 .. n /\ DOMAIN t = 1 .. Len(t)
    OBVIOUS
  <2>3. \A i \in 1 .. Len(t) : n + i \in 1 .. n + Len(t) /\ ~(n + i <= n) /\ (n + i) - n = i
    BY <2>2
  <2>4. \A i \in 1 .. n : i \in 1 .. n + Len(t) /\ i <= n
    BY <2>2
  <2>5. DOMAIN st = 1 .. n + Len(t)
    BY <2>1
  <2> HIDE DEF st, n
  <2> QED  BY <2>1, <2>2, <2>3, <2>4, <2>5
<1>2. \A i \in DOMAIN st : i > n => i - n \in DOMAIN t /\ n + (i - n) = i
  BY <1>1
<1> HIDE DEF st, n
<1>3. CASE StatesIn(t) # {}
  <2>1. PICK k \in StatesIn(t) : LastOf(StatesIn(t), k)
    BY <1>3, StatesHaveLast
  <2>2. k \in 1 .. Len(t) /\ t[k] \in OsatStates /\ n + k \in DOMAIN st /\ st[n + k] = t[k]
    BY <1>1, <2>1 DEF StatesIn
  <2>3. \A j \in StatesIn(st) : j <= n + k
    <3> SUFFICES ASSUME NEW j \in StatesIn(st), j > n PROVE j <= n + k
      BY <1>1, <2>2 DEF StatesIn
    <3>1. j - n \in DOMAIN t /\ n + (j - n) = j /\ st[j] \in OsatStates
      BY <1>2 DEF StatesIn
    <3>2. t[j - n] = st[j]
      BY <1>1, <3>1
    <3>3. j - n <= k
      BY <2>1, <3>1, <3>2 DEF StatesIn, LastOf
    <3> QED  BY <1>1, <2>2, <3>1, <3>3 DEF StatesIn
  <2>4. LastOf(StatesIn(st), n + k)
    BY <2>2, <2>3 DEF LastOf, StatesIn
  <2>5. Final(st, x) = t[k] /\ Final(t, Final(s, x)) = t[k]
    BY <1>1, <2>1, <2>2, <2>4, FinalIsLast
  <2> QED  BY <2>5 DEF st
<1>4. CASE StatesIn(t) = {}
  <2>1. StatesIn(st) = StatesIn(s)
    <3>1. ASSUME NEW i \in StatesIn(st) PROVE i \in StatesIn(s)
      <4>1. CASE i > n
        BY <1>1, <1>2, <1>4, <3>1, <4>1 DEF StatesIn
      <4>2. CASE ~(i > n)
        <5>1. i \in 1 .. n
          BY <1>1, <3>1, <4>2 DEF StatesIn
        <5> QED  BY <1>1, <3>1, <5>1 DEF StatesIn
      <4> QED  BY <4>1, <4>2
    <3>2. ASSUME NEW i \in StatesIn(s) PROVE i \in StatesIn(st)
      <4>1. i \in 1 .. n /\ i \in 1 .. n + Len(t)
        BY <1>1, <3>2 DEF StatesIn
      <4> QED  BY <1>1, <3>2, <4>1 DEF StatesIn
    <3> QED  BY <3>1, <3>2
  <2>2. Final(t, Final(s, x)) = Final(s, x)
    BY <1>4 DEF Final
  <2>3. Final(st, x) = Final(s, x)
    <3>1. CASE StatesIn(s) = {}
      BY <2>1, <3>1 DEF Final
    <3>2. CASE StatesIn(s) # {}
      <4>1. PICK k \in StatesIn(s) : LastOf(StatesIn(s), k)
        BY <3>2, StatesHaveLast
      <4>2. Final(st, x) = st[k] /\ Final(s, x) = s[k] /\ st[k] = s[k]
        BY <1>1, <2>1, <4>1, FinalIsLast DEF StatesIn
      <4> QED  BY <4>2
    <3> QED  BY <3>1, <3>2
  <2> QED  BY <2>2, <2>3 DEF st
<1> QED  BY <1>3, <1>4

LEMMA StatesOfConcat ==
  ASSUME NEW s \in Seq(Command), NEW t \in Seq(Command), StatesIn(s) = {}, StatesIn(t) = {}
  PROVE  s \o t \in Seq(Command) /\ StatesIn(s \o t) = {}
<1> DEFINE st == s \o t
           n == Len(s)
<1>1. st \in Seq(Command) /\ Len(st) = n + Len(t) /\ n \in Nat /\ Len(t) \in Nat
  BY ConcatProperties
<1>2. \A i \in 1 .. n + Len(t) : st[i] = IF i <= n THEN s[i] ELSE t[i - n]
  BY ConcatProperties
<1>3. DOMAIN s = 1 .. n /\ DOMAIN t = 1 .. Len(t)
  OBVIOUS
<1> HIDE DEF st, n
<1>4. DOMAIN st = 1 .. n + Len(t)
  BY <1>1
<1>5. \A i \in DOMAIN st : st[i] \notin OsatStates
  <2> TAKE i \in DOMAIN st
  <2>1. CASE i <= n
    <3>1. i \in DOMAIN s /\ st[i] = s[i]
      BY <1>1, <1>2, <1>3, <1>4, <2>1
    <3> QED  BY <3>1 DEF StatesIn
  <2>2. CASE ~(i <= n)
    <3>1. i - n \in DOMAIN t /\ st[i] = t[i - n]
      BY <1>1, <1>2, <1>3, <1>4, <2>2
    <3> QED  BY <3>1 DEF StatesIn
  <2> QED  BY <2>1, <2>2
<1> QED  BY <1>1, <1>5 DEF StatesIn, st

\* The state after one command.
After(c, x) == IF c \in OsatStates THEN c ELSE x

LEMMA FinalOfOne ==
  ASSUME NEW c \in Command, NEW x
  PROVE  <<c>> \in Seq(Command) /\ Final(<<c>>, x) = After(c, x)
<1>1. <<c>> \in Seq(Command) /\ DOMAIN <<c>> = {1} /\ <<c>>[1] = c
  OBVIOUS
<1>2. CASE c \in OsatStates
  <2>1. LastOf(StatesIn(<<c>>), 1)
    BY <1>1, <1>2 DEF StatesIn, LastOf
  <2> QED  BY <1>1, <1>2, <2>1, FinalIsLast DEF After
<1>3. CASE c \notin OsatStates
  <2>1. StatesIn(<<c>>) = {}
    BY <1>1, <1>3 DEF StatesIn
  <2> QED  BY <1>1, <1>3, <2>1 DEF Final, After
<1> QED  BY <1>2, <1>3

\* Commands that set no state leave things as they are.
LEMMA FinalOfNone ==
  ASSUME NEW s \in Seq(Command), NEW t \in Seq(Command), StatesIn(t) = {}, NEW x
  PROVE  Final(s \o t, x) = Final(s, x)
BY FinalConcat DEF Final

\* Taking the first command is taking it.
LEMMA FinalOfTail ==
  ASSUME NEW s \in Seq(Command), s # <<>>, NEW x
  PROVE  Final(Tail(s), After(Head(s), x)) = Final(s, x)
<1>1. Head(s) \in Command /\ Tail(s) \in Seq(Command) /\ s = <<Head(s)>> \o Tail(s)
  OBVIOUS
<1> DEFINE h == Head(s)
           t == Tail(s)
<1>2. h \in Command /\ t \in Seq(Command) /\ <<h>> \in Seq(Command)
  BY <1>1
<1>3. s = <<h>> \o t
  BY <1>1
<1> HIDE DEF h, t
<1>4. Final(<<h>> \o t, x) = Final(t, Final(<<h>>, x)) /\ Final(<<h>>, x) = After(h, x)
  BY <1>2, FinalOfOne, FinalConcat
<1>5. Final(s, x) = Final(t, After(h, x))
  BY <1>3, <1>4, Zenon
<1> QED  BY <1>5 DEF h, t

\* A lost command that set no state, or that a later one overrides, is not
\* missed.
LEMMA FinalWithout ==
  ASSUME NEW s \in Seq(Command), NEW k \in 1 .. Len(s), NEW x,
         s[k] \notin OsatStates \/ StatesIn(SubSeq(s, k + 1, Len(s))) # {}
  PROVE  Final(SubSeq(s, 1, k - 1) \o SubSeq(s, k + 1, Len(s)), x) = Final(s, x)
<1> DEFINE a == SubSeq(s, 1, k - 1)
           b == SubSeq(s, k + 1, Len(s))
<1>1. a \in Seq(Command) /\ b \in Seq(Command) /\ s[k] \in Command
  BY SubSeqProperties
<1>2. s = (a \o <<s[k]>>) \o b
  <2>1. a \o <<s[k]>> = SubSeq(s, 1, k)
    BY SubSeqRecursiveSecond
  <2>2. SubSeq(s, 1, k) \o b = SubSeq(s, 1, Len(s))
    BY ConcatAdjacentSubSeq
  <2> QED  BY <2>1, <2>2, SubSeqFull
<1> HIDE DEF a, b
<1>3. a \o <<s[k]>> \in Seq(Command) /\ <<s[k]>> \in Seq(Command)
  BY <1>1, ConcatProperties
<1>4. Final(s, x) = Final(b, After(s[k], Final(a, x)))
  <2>1. Final((a \o <<s[k]>>) \o b, x) = Final(b, Final(a \o <<s[k]>>, x))
    BY <1>1, <1>3, FinalConcat
  <2>2. Final(a \o <<s[k]>>, x) = Final(<<s[k]>>, Final(a, x))
    BY <1>1, <1>3, FinalConcat
  <2>3. Final(<<s[k]>>, Final(a, x)) = After(s[k], Final(a, x))
    BY <1>1, FinalOfOne
  <2> QED  BY <1>2, <2>1, <2>2, <2>3, Zenon
<1>5. Final(a \o b, x) = Final(b, Final(a, x))
  BY <1>1, FinalConcat
<1>6. CASE s[k] \notin OsatStates
  BY <1>4, <1>5, <1>6 DEF a, b, After
<1>7. CASE StatesIn(b) # {}
  <2>1. Final(b, After(s[k], Final(a, x))) = Final(b, Final(a, x))
    BY <1>7 DEF Final
  <2> QED  BY <1>4, <1>5, <2>1 DEF a, b
<1> QED  BY <1>6, <1>7 DEF b

\* What is left of commands that set no state sets none.
LEMMA QuietTail ==
  ASSUME NEW s \in Seq(Command), s # <<>>, StatesIn(s) = {}
  PROVE  Head(s) \notin OsatStates /\ StatesIn(Tail(s)) = {}
<1>1. /\ 1 \in DOMAIN s /\ Head(s) = s[1]
      /\ \A k \in DOMAIN Tail(s) : k + 1 \in DOMAIN s /\ Tail(s)[k] = s[k + 1]
  OBVIOUS
<1> QED  BY <1>1 DEF StatesIn

LEMMA QuietWithout ==
  ASSUME NEW s \in Seq(Command), NEW k \in 1 .. Len(s), StatesIn(s) = {}
  PROVE  StatesIn(SubSeq(s, 1, k - 1) \o SubSeq(s, k + 1, Len(s))) = {}
<1> DEFINE a == SubSeq(s, 1, k - 1)
           b == SubSeq(s, k + 1, Len(s))
<1>1. a \in Seq(Command) /\ b \in Seq(Command)
  BY SubSeqProperties
<1>2. /\ Len(a) = k - 1 /\ Len(b) = Len(s) - k
      /\ \A i \in 1 .. k - 1 : i \in 1 .. Len(s) /\ a[i] = s[i]
      /\ \A i \in 1 .. Len(s) - k : k + i \in 1 .. Len(s) /\ b[i] = s[k + i]
  OBVIOUS
<1>3. DOMAIN s = 1 .. Len(s)
  OBVIOUS
<1> HIDE DEF a, b
<1>4. DOMAIN a = 1 .. k - 1 /\ DOMAIN b = 1 .. Len(s) - k
  BY <1>1, <1>2
<1>5. StatesIn(a) = {} /\ StatesIn(b) = {}
  BY <1>2, <1>3, <1>4 DEF StatesIn
<1> QED  BY <1>1, <1>5, StatesOfConcat DEF a, b

(***************************************************************************)
(* The invariant. A device has at most one id a mode can use, however many *)
(* entries of the list, messages and power cuts there are (OneId). One     *)
(* that is not listed under such an id has never been told a state         *)
(* (Unlisted). An id the server takes for lit has a device that is going   *)
(* to show what the mode lights, or that owes an answer this mode counts:  *)
(* a timeout of an earlier random_n game is none to the other modes        *)
(* (Believed).                                                             *)
(***************************************************************************)

Dark == {"INACTIVE", "IDLE"}

Claims(o) ==
  IdsOf(o) \cup {id[o]} \cup {inbox[k].id : k \in {n \in DOMAIN inbox : inbox[n].osat = o}}
OneId ==
  \A o \in Osats : \A i, j \in Claims(o) : i = j \/ i = DefaultId \/ j = DefaultId

Unlisted ==
  \A o \in Osats : IdsOf(o) \subseteq {DefaultId} =>
    light[o] \in Dark /\ StatesIn(toOsat[o]) = {}

LitFor(m) == IF m.cfg.mode_type = "random_n" THEN {"ACTIVE", "ACTIVE_TO"} ELSE {"ACTIVE"}
Owes(o, m) == \E k \in DOMAIN inbox : inbox[k].osat = o /\ Counts(m, inbox[k].payload)
Holds(o, m) == Destined(o) \in LitFor(m) \/ Owes(o, m)
Believed ==
  (Running /\ crashed = "no") =>
    \A i \in modes[current].cfg.ids \ dropped :
      modes[current].states[i] # "INACTIVE" =>
        \E o \in Osats : i \in IdsOf(o) /\ Holds(o, modes[current])

BeliefInv == OneId /\ Unlisted /\ Believed /\ StoppedGameIsDark

\* The games go on as they were, and devices keep what they hold unless their
\* ids are dropped.
LEMMA KeepBelieved ==
  ASSUME Believed, current' = current, current # None => modes'[current] = modes[current],
         crashed' = crashed, dropped \subseteq dropped', clients \subseteq clients',
         \A o \in Osats : \/ IdsOf(o) \subseteq dropped'
                          \/ \A m \in Mode : Holds(o, m) => Holds(o, m)',
         TypeOK
  PROVE  Believed'
<1> SUFFICES ASSUME Running', crashed = "no",
                    NEW i \in modes[current].cfg.ids \ dropped',
                    modes[current].states[i] # "INACTIVE"
             PROVE  \E o \in Osats : i \in IdsOf(o)' /\ Holds(o, modes[current])'
  BY DEF Believed, Running, Holds, Owes
<1>1. Running /\ i \notin dropped /\ modes[current] \in Mode
  BY CurrentMode DEF Running, TypeOK
<1>2. PICK o \in Osats : i \in IdsOf(o) /\ Holds(o, modes[current])
  BY <1>1 DEF Believed
<1>3. i \in IdsOf(o)'
  BY <1>2 DEF IdsOf
<1>4. ~(IdsOf(o) \subseteq dropped')
  BY <1>2
<1> DEFINE now == modes[current]
<1>5. modes'[current'] = now /\ now \in Mode /\ Holds(o, now)
  BY <1>1, <1>2 DEF Running
<1> HIDE DEF now
<1>6. Destined(o)' \in LitFor(now) \/ \E k \in DOMAIN inbox' : inbox'[k].osat = o /\ Counts(now, inbox'[k].payload)
  BY <1>4, <1>5 DEF Holds, Owes
<1>7. Holds(o, modes[current])'
  BY <1>5, <1>6 DEF Holds, Owes
<1> QED  BY <1>3, <1>7

LEMMA KeepDark ==
  ASSUME StoppedGameIsDark, current' = current, current # None => modes'[current] = modes[current],
         dropped \subseteq dropped', clients' = clients,
         \A o \in Osats : \/ IdsOf(o) \subseteq dropped'
                          \/ Destined(o) \in Dark => Destined(o)' \in Dark
  PROVE  StoppedGameIsDark'
<1> SUFFICES ASSUME current # None, ~Running', NEW o \in Osats,
                    IdsOf(o)' \cap (modes[current].cfg.ids \ dropped') # {}
             PROVE  Destined(o)' \in Dark
  BY DEF StoppedGameIsDark, Under, Dark
<1>1. ~Running /\ IdsOf(o)' = IdsOf(o)
  BY DEF Running, IdsOf
<1>2. o \in Under(modes[current].cfg.ids \ dropped) /\ ~(IdsOf(o) \subseteq dropped')
  BY <1>1 DEF Under
<1>3. Destined(o) \in Dark
  BY <1>1, <1>2 DEF StoppedGameIsDark, Dark
<1> QED  BY <1>2, <1>3

(***************************************************************************)
(* Messages.                                                               *)
(***************************************************************************)

LEMMA Sent ==
  ASSUME TypeOK, NEW o \in Osats, NEW payload, OsatSends(o, payload)
  PROVE  /\ \A k \in DOMAIN inbox : k \in DOMAIN inbox' /\ inbox'[k] = inbox[k]
         /\ \E n \in DOMAIN inbox' :
              /\ DOMAIN inbox' = DOMAIN inbox \cup {n}
              /\ inbox'[n] = [osat |-> o, id |-> id[o], payload |-> payload]
<1> DEFINE msg == [osat |-> o, id |-> id[o], payload |-> payload]
           n == Len(inbox) + 1
<1>1. inbox \in Seq(Message)
  BY DEF TypeOK, MailTypes
<1>2. inbox' = Append(inbox, msg)
  BY DEF OsatSends
<1> HIDE DEF msg
<1>3. Len(inbox) \in Nat /\ DOMAIN inbox = 1 .. Len(inbox)
  BY <1>1
<1>4. DOMAIN inbox' = 1 .. n /\ inbox'[n] = msg
  BY <1>1, <1>2
<1>5. \A k \in 1 .. Len(inbox) : inbox'[k] = inbox[k]
  BY <1>1, <1>2
<1>6. 1 .. n = (1 .. Len(inbox)) \cup {n} /\ n \in 1 .. n
  BY <1>3
<1> HIDE DEF n
<1> QED  BY <1>3, <1>4, <1>5, <1>6 DEF msg

\* A message sent claims no new id and takes no answer away.
LEMMA SendKeeps ==
  ASSUME TypeOK, NEW o \in Osats, NEW payload, OsatSends(o, payload)
  PROVE  /\ UNCHANGED <<clients, id>> /\ OneId => OneId'
         /\ \A p \in Osats, m \in Mode : Owes(p, m) => Owes(p, m)'
         /\ \A m \in Mode : Counts(m, payload) => Owes(o, m)'
<1>1. PICK n \in DOMAIN inbox' :
        /\ \A k \in DOMAIN inbox : k \in DOMAIN inbox' /\ inbox'[k] = inbox[k]
        /\ DOMAIN inbox' = DOMAIN inbox \cup {n}
        /\ inbox'[n] = [osat |-> o, id |-> id[o], payload |-> payload]
  BY Sent
<1>2. inbox'[n].osat = o /\ inbox'[n].id = id[o] /\ inbox'[n].payload = payload
  BY <1>1
<1>3. ASSUME UNCHANGED <<clients, id>>, OneId PROVE OneId'
  <2>1. \A p \in Osats : Claims(p)' \subseteq Claims(p)
    BY <1>1, <1>2, <1>3 DEF Claims, IdsOf
  <2> QED  BY <1>3, <2>1 DEF OneId
<1>4. \A p \in Osats, m \in Mode : Owes(p, m) => Owes(p, m)'
  BY <1>1 DEF Owes, Counts
<1>5. \A m \in Mode : Counts(m, payload) => Owes(o, m)'
  BY <1>1, <1>2 DEF Owes, Counts
<1> QED  BY <1>3, <1>4, <1>5

LEMMA NothingSent ==
  ASSUME inbox' = inbox
  PROVE  /\ UNCHANGED <<clients, id>> /\ OneId => OneId'
         /\ \A p \in Osats, m \in Mode : Owes(p, m) => Owes(p, m)'
BY DEF OneId, Claims, IdsOf, Owes, Counts

LEMMA KeepInv ==
  ASSUME TypeOK, BeliefInv, UNCHANGED <<modes, current, clients, crashed, dropped>>,
         OneId', Unlisted',
         \A p \in Osats, m \in Mode : Holds(p, m) => Holds(p, m)',
         \A p \in Osats : Destined(p) \in Dark => Destined(p)' \in Dark
  PROVE  BeliefInv'
BY KeepBelieved, KeepDark DEF BeliefInv

(***************************************************************************)
(* Steps of a device.                                                      *)
(***************************************************************************)

LEMMA AnnounceBelief ==
  ASSUME TypeOK, BeliefInv, NEW o \in Osats, Announce(o)
  PROVE  BeliefInv'
<1>1. UNCHANGED <<modes, current, clients, crashed, dropped, id, toOsat, light>>
  BY DEF Announce, serverVars, osatVars
<1>2. inbox' = inbox \/ OsatSends(o, "config")
  BY DEF Announce, OsatAnnounces
<1>3. OneId' /\ \A p \in Osats, m \in Mode : Owes(p, m) => Owes(p, m)'
  BY <1>1, <1>2, SendKeeps, NothingSent DEF BeliefInv
<1>4. \A p \in Osats : Destined(p)' = Destined(p)
  BY <1>1 DEF Destined
<1>5. Unlisted'
  BY <1>1 DEF BeliefInv, Unlisted, IdsOf
<1>6. \A p \in Osats, m \in Mode : Holds(p, m) => Holds(p, m)'
  BY <1>3, <1>4 DEF Holds
<1> QED  BY <1>1, <1>3, <1>4, <1>5, <1>6, KeepInv

LEMMA ReceiveBelief ==
  ASSUME TypeOK, BeliefInv, NEW o \in Osats, Receive(o)
  PROVE  BeliefInv'
<1> DEFINE s == toOsat[o]
<1>1. UNCHANGED <<modes, current, clients, crashed, dropped, id>>
  BY DEF Receive, serverVars
<1>2. inbox' = inbox \/ OsatSends(o, "config") \/ OsatSends(o, "invalid")
  BY DEF Receive, OsatAnnounces, OsatRefuses
<1>3. OneId' /\ \A p \in Osats, m \in Mode : Owes(p, m) => Owes(p, m)'
  BY <1>1, <1>2, SendKeeps, NothingSent DEF BeliefInv
<1>4. s \in Seq(Command) /\ s # <<>>
  BY DEF Receive, TypeOK, MailTypes
<1>5. /\ toOsat'[o] = Tail(s) /\ light'[o] = After(Head(s), light[o])
      /\ \A p \in Osats \ {o} : toOsat'[p] = toOsat[p] /\ light'[p] = light[p]
  BY DEF Receive, TypeOK, MailTypes, DeviceTypes, After, Saving, OsatStates
<1> HIDE DEF s
<1>6. \A p \in Osats : Destined(p)' = Destined(p)
  <2>1. Final(toOsat'[o], light'[o]) = Final(s, light[o])
    BY <1>4, <1>5, FinalOfTail
  <2> QED  BY <1>5, <2>1 DEF Destined, s
<1>7. Unlisted'
  <2>1. ASSUME StatesIn(s) = {} PROVE Head(s) \notin OsatStates /\ StatesIn(Tail(s)) = {}
    BY <1>4, <2>1, QuietTail
  <2>2. \A p \in Osats : IdsOf(p)' = IdsOf(p)
    BY <1>1 DEF IdsOf
  <2> QED  BY <1>5, <2>1, <2>2 DEF BeliefInv, Unlisted, After, s
<1>8. \A p \in Osats, m \in Mode : Holds(p, m) => Holds(p, m)'
  BY <1>3, <1>6 DEF Holds
<1> QED  BY <1>1, <1>3, <1>6, <1>7, <1>8, KeepInv

LEMMA AnswerBelief ==
  ASSUME TypeOK, BeliefInv, NEW o \in Osats, Hit(o) \/ Timeout(o)
  PROVE  BeliefInv'
<1>1. UNCHANGED <<modes, current, clients, crashed, dropped, id, toOsat>>
  BY DEF Hit, Timeout, serverVars
<1>2. PICK payload \in {"hit", "timeout"} :
        /\ OsatSends(o, payload) /\ light[o] \in {"ACTIVE", "ACTIVE_TO"}
        /\ payload = "timeout" => light[o] = "ACTIVE_TO"
  BY DEF Hit, Timeout
<1>3. light'[o] = "INACTIVE" /\ \A p \in Osats \ {o} : light'[p] = light[p]
  BY DEF Hit, Timeout, TypeOK, DeviceTypes
<1>4. /\ OneId' /\ \A p \in Osats, m \in Mode : Owes(p, m) => Owes(p, m)'
      /\ \A m \in Mode : Counts(m, payload) => Owes(o, m)'
  BY <1>1, <1>2, SendKeeps DEF BeliefInv
<1>5. \A p \in Osats \ {o} : Destined(p)' = Destined(p)
  BY <1>1, <1>3 DEF Destined
<1>6. Destined(o)' = Destined(o) \/ (Destined(o) = light[o] /\ Destined(o)' = "INACTIVE")
  BY <1>1, <1>3 DEF Destined, Final
<1>7. Unlisted'
  BY <1>1, <1>3 DEF BeliefInv, Unlisted, IdsOf, Dark
<1>8. \A p \in Osats, m \in Mode : Holds(p, m) => Holds(p, m)'
  <2> SUFFICES ASSUME NEW p \in Osats, NEW m \in Mode, Holds(p, m) PROVE Holds(p, m)'
    OBVIOUS
  <2>1. CASE p = o /\ Destined(o) = light[o] /\ light[o] \in LitFor(m)
    <3>1. Counts(m, payload)
      BY <1>2, <2>1 DEF LitFor, Counts
    <3> QED  BY <1>4, <2>1, <3>1 DEF Holds
  <2>2. CASE ~(p = o /\ Destined(o) = light[o] /\ light[o] \in LitFor(m))
    BY <1>4, <1>5, <1>6, <2>2 DEF Holds
  <2> QED  BY <2>1, <2>2
<1>9. \A p \in Osats : Destined(p) \in Dark => Destined(p)' \in Dark
  BY <1>5, <1>6 DEF Dark
<1> QED  BY <1>1, <1>4, <1>7, <1>8, <1>9, KeepInv

(***************************************************************************)
(* Faults.                                                                 *)
(***************************************************************************)

LEMMA KeepFaulty ==
  ASSUME TypeOK, BeliefInv, UNCHANGED <<modes, current, clients, crashed, inbox>>,
         dropped \subseteq dropped', OneId', Unlisted',
         \A p \in Osats : IdsOf(p) \subseteq dropped' \/ Destined(p)' = Destined(p)
  PROVE  BeliefInv'
<1>1. \A p \in Osats, m \in Mode : Owes(p, m)' = Owes(p, m)
  BY DEF Owes, Counts
<1>2. \A p \in Osats : \/ IdsOf(p) \subseteq dropped'
                       \/ \A m \in Mode : Holds(p, m) => Holds(p, m)'
  BY <1>1 DEF Holds
<1>3. Believed'
  BY <1>2, KeepBelieved DEF BeliefInv
<1>4. StoppedGameIsDark'
  BY KeepDark DEF BeliefInv
<1> QED  BY <1>3, <1>4 DEF BeliefInv

LEMMA LoseBelief ==
  ASSUME TypeOK, BeliefInv, NEW o \in Osats, Lose(o)
  PROVE  BeliefInv'
<1> DEFINE s == toOsat[o]
<1>1. UNCHANGED <<modes, current, clients, crashed, inbox, light, id>>
  BY DEF Lose, serverVars
<1>2. PICK k \in 1 .. Len(s) :
        /\ toOsat' = [toOsat EXCEPT ![o] = SubSeq(s, 1, k - 1) \o SubSeq(s, k + 1, Len(s))]
        /\ dropped' = IF /\ s[k] \in OsatStates
                         /\ \A j \in 1 .. Len(SubSeq(s, k + 1, Len(s))) :
                              SubSeq(s, k + 1, Len(s))[j] \notin OsatStates
                      THEN dropped \cup IdsOf(o) ELSE dropped
  BY DEF Lose
<1>3. s \in Seq(Command)
  BY DEF TypeOK, MailTypes
<1> DEFINE a == SubSeq(s, 1, k - 1)
           b == SubSeq(s, k + 1, Len(s))
<1>4. a \in Seq(Command) /\ b \in Seq(Command)
  BY <1>3, SubSeqProperties
<1>5. toOsat'[o] = a \o b /\ \A p \in Osats \ {o} : toOsat'[p] = toOsat[p]
  BY <1>2 DEF TypeOK, MailTypes
<1>6. \/ IdsOf(o) \subseteq dropped'
      \/ s[k] \notin OsatStates \/ StatesIn(b) # {}
  <2>1. dropped' = dropped \cup IdsOf(o) \/ s[k] \notin OsatStates
        \/ \E j \in 1 .. Len(b) : b[j] \in OsatStates
    BY <1>2
  <2> HIDE DEF b
  <2>2. DOMAIN b = 1 .. Len(b)
    BY <1>4
  <2> QED  BY <2>1, <2>2 DEF StatesIn
<1>7. IdsOf(o) \subseteq dropped' \/ Destined(o)' = Destined(o)
  BY <1>1, <1>3, <1>5, <1>6, FinalWithout DEF Destined
<1>8. \A p \in Osats \ {o} : Destined(p)' = Destined(p)
  BY <1>1, <1>5 DEF Destined
<1>9. OneId'
  BY <1>1, NothingSent DEF BeliefInv
<1>10. Unlisted'
  <2>1. ASSUME StatesIn(s) = {} PROVE StatesIn(a \o b) = {}
    BY <1>3, <2>1, QuietWithout
  <2>2. \A p \in Osats : IdsOf(p)' = IdsOf(p)
    BY <1>1 DEF IdsOf
  <2> HIDE DEF a, b
  <2> QED  BY <1>1, <1>5, <2>1, <2>2 DEF BeliefInv, Unlisted
<1>11. dropped \subseteq dropped'
  BY <1>2
<1> QED  BY <1>1, <1>7, <1>8, <1>9, <1>10, <1>11, KeepFaulty

LEMMA PowerCutBelief ==
  ASSUME TypeOK, BeliefInv, NEW o \in Osats, PowerCut(o)
  PROVE  BeliefInv'
<1>1. UNCHANGED <<modes, current, clients, crashed, inbox>>
  BY DEF PowerCut, serverVars
<1>2. /\ toOsat'[o] = <<>> /\ light'[o] = "IDLE" /\ id'[o] \in {id[o], DefaultId}
      /\ \A p \in Osats \ {o} : toOsat'[p] = toOsat[p] /\ light'[p] = light[p] /\ id'[p] = id[p]
      /\ dropped' = dropped \cup IdsOf(o)
  BY DEF PowerCut, TypeOK, MailTypes, DeviceTypes
<1>3. \A p \in Osats : IdsOf(p)' = IdsOf(p) /\ Claims(p)' \subseteq Claims(p) \cup {DefaultId}
  BY <1>1, <1>2 DEF Claims, IdsOf
<1>4. OneId'
  BY <1>3 DEF BeliefInv, OneId
<1>5. Unlisted'
  BY <1>2, <1>3 DEF BeliefInv, Unlisted, StatesIn, Dark
<1>6. \A p \in Osats \ {o} : Destined(p)' = Destined(p)
  BY <1>2 DEF Destined
<1> QED  BY <1>1, <1>2, <1>4, <1>5, <1>6, KeepFaulty

(***************************************************************************)
(* Messages are handled.                                                   *)
(***************************************************************************)

\* A message taken from the inbox claims nothing new.
LEMMA Taken ==
  ASSUME TypeOK, inbox # <<>>, inbox' = Tail(inbox)
  PROVE  /\ Head(inbox) \in Message /\ 1 \in DOMAIN inbox /\ Head(inbox) = inbox[1]
         /\ \A k \in DOMAIN inbox' : k + 1 \in DOMAIN inbox /\ inbox'[k] = inbox[k + 1]
         /\ \A k \in DOMAIN inbox \ {1} : k - 1 \in DOMAIN inbox' /\ inbox'[k - 1] = inbox[k]
<1> DEFINE n == Len(inbox)
           rest == Tail(inbox)
<1>1. inbox \in Seq(Message)
  BY DEF TypeOK, MailTypes
<1>2. /\ n \in Nat \ {0} /\ DOMAIN inbox = 1 .. n /\ DOMAIN rest = 1 .. n - 1
      /\ \A k \in 1 .. n - 1 : rest[k] = inbox[k + 1]
  BY <1>1
<1>3. Head(inbox) \in Message /\ Head(inbox) = inbox[1]
  BY <1>1
<1> HIDE DEF n, rest
<1>4. /\ 1 \in 1 .. n /\ \A k \in 1 .. n - 1 : k + 1 \in 1 .. n
      /\ \A k \in (1 .. n) \ {1} : k - 1 \in 1 .. n - 1 /\ (k - 1) + 1 = k
  BY <1>2
<1>5. \A k \in (1 .. n) \ {1} : rest[k - 1] = inbox[k]
  BY <1>2, <1>4
<1> QED  BY <1>2, <1>3, <1>4, <1>5 DEF rest

LEMMA ConfigBelief ==
  ASSUME TypeOK, BeliefInv, HandleConfig
  PROVE  BeliefInv'
<1> DEFINE i == Head(inbox).id
           o == Head(inbox).osat
<1>1. /\ UNCHANGED <<modes, current, crashed, dropped, id, toOsat, light>>
      /\ clients' = clients \cup {<<i, o>>} /\ inbox # <<>> /\ inbox' = Tail(inbox)
      /\ Head(inbox).payload = "config"
  BY DEF HandleConfig, osatVars
<1>2. /\ o \in Osats /\ i \in Ids /\ 1 \in DOMAIN inbox /\ inbox[1].id = i /\ inbox[1].osat = o
      /\ inbox[1].payload = "config"
      /\ \A k \in DOMAIN inbox' : k + 1 \in DOMAIN inbox /\ inbox'[k] = inbox[k + 1]
      /\ \A k \in DOMAIN inbox \ {1} : k - 1 \in DOMAIN inbox' /\ inbox'[k - 1] = inbox[k]
  BY <1>1, Taken DEF Message
<1> HIDE DEF i, o
<1>3. /\ i \in Claims(o)
      /\ \A p \in Osats : Claims(p)' \subseteq Claims(p) /\ IdsOf(p) \subseteq IdsOf(p)'
      /\ \A p \in Osats : IdsOf(p)' \subseteq IdsOf(p) \cup (IF p = o THEN {i} ELSE {})
  <2>1. i \in Claims(o)
    BY <1>2 DEF Claims
  <2>2. \A p \in Osats : IdsOf(p) \subseteq IdsOf(p)'
                         /\ IdsOf(p)' \subseteq IdsOf(p) \cup (IF p = o THEN {i} ELSE {})
    BY <1>1 DEF IdsOf
  <2>3. \A p \in Osats : {inbox[k].id : k \in {n \in DOMAIN inbox : inbox[n].osat = p}}'
                           \subseteq Claims(p)
    BY <1>2 DEF Claims
  <2>4. \A p \in Osats : Claims(p)' \subseteq Claims(p)
    BY <1>1, <2>1, <2>2, <2>3 DEF Claims
  <2> QED  BY <2>1, <2>2, <2>4
<1>4. OneId'
  BY <1>3 DEF BeliefInv, OneId
<1>5. \A p \in Osats : Destined(p)' = Destined(p)
  BY <1>1 DEF Destined
<1>6. Unlisted'
  <2>1. \A p \in Osats : IdsOf(p)' \subseteq {DefaultId} => IdsOf(p) \subseteq {DefaultId}
    BY <1>3
  <2> QED  BY <1>1, <2>1 DEF BeliefInv, Unlisted
<1>7. Believed'
  <2>1. \A p \in Osats, m \in Mode : Owes(p, m) => Owes(p, m)'
    BY <1>2 DEF Owes, Counts
  <2>2. \A p \in Osats, m \in Mode : Holds(p, m) => Holds(p, m)'
    BY <1>5, <2>1 DEF Holds
  <2> QED  BY <1>1, <2>2, KeepBelieved DEF BeliefInv
<1>8. StoppedGameIsDark'
  <2> SUFFICES ASSUME current # None, ~Running, NEW p \in Osats,
                      NEW j \in modes[current].cfg.ids \ dropped, j \in IdsOf(p)'
               PROVE  Destined(p) \in Dark
    BY <1>1, <1>5 DEF StoppedGameIsDark, Under, Running, Dark
  <2>1. j # DefaultId
    BY CurrentMode, ModeFields DEF TypeOK
  <2>2. CASE j \in IdsOf(p)
    <3>1. p \in Under(modes[current].cfg.ids \ dropped)
      BY <2>2 DEF Under
    <3> QED  BY <3>1 DEF BeliefInv, StoppedGameIsDark, Dark
  <2>3. CASE j \notin IdsOf(p)
    <3>1. p = o /\ j = i
      BY <1>3, <2>3
    <3>2. IdsOf(p) \subseteq Claims(p)
      BY DEF Claims
    <3>3. IdsOf(p) \subseteq {DefaultId}
      BY <1>3, <2>1, <2>3, <3>1, <3>2 DEF BeliefInv, OneId
    <3> QED  BY <3>3 DEF BeliefInv, Unlisted, Destined, Final
  <2> QED  BY <2>2, <2>3
<1> QED  BY <1>4, <1>6, <1>7, <1>8 DEF BeliefInv

\* Commands that set no state change nothing of what is held.
LEMMA Unstirred ==
  ASSUME TypeOK, BeliefInv, UNCHANGED <<clients, light>>,
         \A p \in Osats : \E t \in Seq(Command) : StatesIn(t) = {} /\ toOsat'[p] = toOsat[p] \o t
  PROVE  Unlisted' /\ \A p \in Osats : Destined(p)' = Destined(p)
<1>1. \A p \in Osats : toOsat[p] \in Seq(Command) /\ IdsOf(p)' = IdsOf(p)
  BY DEF TypeOK, MailTypes, IdsOf
<1>2. \A p \in Osats : Destined(p)' = Destined(p)
  <2> TAKE p \in Osats
  <2>1. PICK t \in Seq(Command) : StatesIn(t) = {} /\ toOsat'[p] = toOsat[p] \o t
    OBVIOUS
  <2>2. Final(toOsat[p] \o t, light[p]) = Final(toOsat[p], light[p])
    BY <1>1, <2>1, FinalOfNone
  <2> QED  BY <2>1, <2>2 DEF Destined
<1>3. Unlisted'
  BY <1>1, StatesOfConcat DEF BeliefInv, Unlisted
<1> QED  BY <1>2, <1>3

\* The same threshold once per entry.
LEMMA QuietCommands ==
  ASSUME NEW n \in Nat
  PROVE  /\ [k \in 1 .. n |-> "CFG-THRESH"] \in Seq(Command)
         /\ StatesIn([k \in 1 .. n |-> "CFG-THRESH"]) = {}
<1> DEFINE c == "CFG-THRESH"
<1>1. c \in Command /\ c \notin OsatStates
  BY DEF Command, Saving, OsatStates
<1>2. [k \in 1 .. n |-> c] \in Seq(Command)
  BY <1>1
<1>3. \A i \in DOMAIN [k \in 1 .. n |-> c] : [k \in 1 .. n |-> c][i] = c
  OBVIOUS
<1> QED  BY <1>1, <1>2, <1>3 DEF StatesIn

\* Asking an unknown sender for its configuration sets no state, and
\* neither does a threshold.
LEMMA QuietAnswer ==
  ASSUME TypeOK, HandleAction
  PROVE  \A p \in Osats : \E t \in Seq(Command) : StatesIn(t) = {} /\ toOsat'[p] = toOsat[p] \o t
<1> DEFINE ask == <<"CFG-REQUEST">>
<1>o. PICK o, i : o \in Osats /\ o = Head(inbox).osat /\ i = Head(inbox).id
  BY Taken DEF HandleAction, Message
<1>1. <<>> \in Seq(Command) /\ StatesIn(<<>>) = {}
  BY DEF StatesIn
<1>2. ask \in Seq(Command) /\ StatesIn(ask) = {}
  <2>1. DOMAIN ask = {1} /\ ask[1] = "CFG-REQUEST"
    OBVIOUS
  <2> QED  BY <2>1 DEF StatesIn, Command, OsatStates
<1>3. \A p \in Osats : toOsat[p] \in Seq(Command)
  BY DEF TypeOK, MailTypes
<1>4. \A p \in Osats : toOsat[p] = toOsat[p] \o <<>>
  BY <1>3, ConcatEmptySeq
<1>5. Append(toOsat[o], "CFG-REQUEST") = toOsat[o] \o <<"CFG-REQUEST">>
  <2>1. "CFG-REQUEST" \in Command
    BY DEF Command
  <2> QED  BY <1>3, <2>1, AppendIsConcat
<1>6. toOsat' = IF <<i, o>> \in clients THEN toOsat
                ELSE [toOsat EXCEPT ![o] = Append(@, "CFG-REQUEST")]
  BY <1>o DEF HandleAction
<1>7. /\ toOsat'[o] \in {toOsat[o], Append(toOsat[o], "CFG-REQUEST")}
      /\ \A p \in Osats \ {o} : toOsat'[p] = toOsat[p]
  BY <1>6 DEF TypeOK, MailTypes
<1>8. toOsat'[o] = toOsat[o] \o <<>> \/ toOsat'[o] = toOsat[o] \o ask
  BY <1>4, <1>5, <1>7
<1> HIDE DEF ask
<1> QED  BY <1>1, <1>2, <1>4, <1>7, <1>8

LEMMA QuietThresh ==
  ASSUME TypeOK, Thresh
  PROVE  \A p \in Osats : \E t \in Seq(Command) : StatesIn(t) = {} /\ toOsat'[p] = toOsat[p] \o t
<1> DEFINE cmds(p) == [k \in 1 .. Cardinality(IdsOf(p)) |-> "CFG-THRESH"]
<1>1. \A p \in Osats : cmds(p) \in Seq(Command) /\ StatesIn(cmds(p)) = {}
  <2>1. \A p \in Osats : Cardinality(IdsOf(p)) \in Nat
    BY IdsFinite, FS_CardinalityType
  <2> QED  BY <2>1, QuietCommands
<1>2. toOsat' = [p \in Osats |-> toOsat[p] \o cmds(p)]
  BY DEF Thresh
<1> HIDE DEF cmds
<1> QED  BY <1>1, <1>2

LEMMA ActionBelief ==
  ASSUME TypeOK, BeliefInv, HandleAction
  PROVE  BeliefInv'
<1> DEFINE i == Head(inbox).id
           o == Head(inbox).osat
           action == Head(inbox).payload
           m == modes[current]
<1>1. /\ UNCHANGED <<current, clients, dropped, light, id>>
      /\ inbox # <<>> /\ inbox' = Tail(inbox) /\ action # "config"
      /\ toOsat' = IF <<i, o>> \in clients THEN toOsat
                   ELSE [toOsat EXCEPT ![o] = Append(@, "CFG-REQUEST")]
  BY DEF HandleAction, osatVars
<1>2. /\ o \in Osats /\ i \in Ids
      /\ 1 \in DOMAIN inbox /\ inbox[1].id = i /\ inbox[1].osat = o /\ inbox[1].payload = action
      /\ \A k \in DOMAIN inbox' : k + 1 \in DOMAIN inbox /\ inbox'[k] = inbox[k + 1]
      /\ \A k \in DOMAIN inbox \ {1} : k - 1 \in DOMAIN inbox' /\ inbox'[k - 1] = inbox[k]
  BY <1>1, Taken DEF Message
<1>3. \/ (~Running \/ ~Counts(m, action)) /\ UNCHANGED <<modes, crashed>>
      \/ crashed' # "no" /\ UNCHANGED modes
      \/ /\ Running /\ Counts(m, action) /\ i \in m.cfg.ids /\ UNCHANGED crashed
         /\ modes' = [modes EXCEPT ![current] = ActOn(m, i, action)]
  BY DEF HandleAction
<1> HIDE DEF i, o, action
<1>4. Unlisted' /\ \A p \in Osats : Destined(p)' = Destined(p)
  BY <1>1, QuietAnswer, Unstirred
<1>5. OneId'
  <2>1. \A p \in Osats : Claims(p)' \subseteq Claims(p)
    BY <1>1, <1>2 DEF Claims, IdsOf
  <2> QED  BY <2>1 DEF BeliefInv, OneId
<1>6. CASE UNCHANGED modes /\ (crashed' # "no" \/ ~Running \/ ~Counts(m, action))
  <2>1. StoppedGameIsDark'
    BY <1>1, <1>4, <1>6, KeepDark DEF BeliefInv
  <2>2. Believed'
    <3>1. CASE crashed' # "no"
      BY <3>1 DEF Believed
    <3>2. CASE ~Running
      BY <1>1, <1>6, <3>2 DEF Running, Believed
    <3>3. CASE Running /\ ~Counts(m, action) /\ crashed' = "no"
      <4> SUFFICES ASSUME NEW j \in m.cfg.ids \ dropped, m.states[j] # "INACTIVE"
                   PROVE  \E p \in Osats : j \in IdsOf(p) /\ Holds(p, modes[current])'
        BY <1>1, <1>6 DEF Believed, Running, IdsOf
      <4>1. PICK p \in Osats : j \in IdsOf(p) /\ Holds(p, m)
        BY <1>3, <3>3 DEF BeliefInv, Believed
      <4>2. Owes(p, m) => \E n \in DOMAIN inbox' : inbox'[n].osat = p /\ Counts(m, inbox'[n].payload)
        BY <1>2, <3>3 DEF Owes
      <4> QED  BY <1>1, <1>4, <1>6, <4>1, <4>2 DEF Holds, Owes
    <3> QED  BY <1>6, <3>1, <3>2, <3>3
  <2> QED  BY <1>4, <1>5, <2>1, <2>2 DEF BeliefInv
<1>7. CASE /\ Running /\ Counts(m, action) /\ i \in m.cfg.ids /\ UNCHANGED crashed
           /\ modes' = [modes EXCEPT ![current] = ActOn(m, i, action)]
  <2> DEFINE after == ActOn(m, i, action)
  <2>1. /\ current # None /\ m.running /\ i \in m.cfg.ids /\ UNCHANGED crashed
        /\ modes' = [modes EXCEPT ![current] = after]
    BY <1>7 DEF Running
  <2>2. m \in Mode /\ current \in Names /\ m.states \in [m.cfg.ids -> OsatStates]
        /\ DefaultId \notin m.cfg.ids
    BY <2>1, CurrentMode, ModeFields DEF TypeOK
  <2>3. /\ after \in Mode /\ after.cfg = m.cfg /\ after.running = m.running
        /\ after.states = [m.states EXCEPT ![i] = "INACTIVE"]
    <3>1. i \in m.cfg.ids /\ m \in Mode /\ Counts(m, action)
      BY <1>7, <2>2
    <3> HIDE DEF m
    <3> QED  BY <3>1, ActOnType
  <2> HIDE DEF m, after
  <2>4. modes'[current'] = after /\ Running
    BY <1>1, <2>1, <2>2 DEF TypeOK, GameTypes, Running, m
  <2>5. StoppedGameIsDark'
    BY <1>1, <2>1, <2>3, <2>4 DEF StoppedGameIsDark, Running
  <2>6. Believed'
    <3> SUFFICES ASSUME crashed = "no", NEW j \in m.cfg.ids \ dropped, after.states[j] # "INACTIVE"
                 PROVE  \E p \in Osats : j \in IdsOf(p) /\ Holds(p, modes[current])'
      BY <1>1, <2>1, <2>3, <2>4 DEF Believed, Running, IdsOf
    <3>1. m.states[j] # "INACTIVE" /\ j # i
      BY <2>2, <2>3
    <3>2. PICK p \in Osats : j \in IdsOf(p) /\ Holds(p, m)
      BY <2>4, <3>1 DEF BeliefInv, Believed, m
    <3>3. CASE Destined(p) \in LitFor(m)
      <4>1. Destined(p)' \in LitFor(after)
        BY <1>4, <2>3, <3>3 DEF LitFor
      <4> QED  BY <2>4, <3>2, <4>1 DEF Holds
    <3>4. CASE Owes(p, m)
      <4>1. PICK k \in DOMAIN inbox : inbox[k].osat = p /\ Counts(m, inbox[k].payload)
        BY <3>4 DEF Owes
      <4>2. k # 1
        <5> SUFFICES ASSUME k = 1 PROVE FALSE
          OBVIOUS
        <5>1. p = o /\ j # i
          BY <1>2, <3>1, <4>1
        <5>2. i \in Claims(o) /\ j \in Claims(o)
          BY <1>2, <3>2, <5>1 DEF Claims
        <5> QED  BY <1>2, <2>1, <2>2, <5>1, <5>2 DEF BeliefInv, OneId
      <4>3. k - 1 \in DOMAIN inbox' /\ inbox'[k - 1] = inbox[k]
        BY <1>2, <4>2
      <4>4. Counts(after, inbox'[k - 1].payload) /\ inbox'[k - 1].osat = p
        BY <2>3, <4>1, <4>3 DEF Counts
      <4>5. \E n \in DOMAIN inbox' : inbox'[n].osat = p /\ Counts(after, inbox'[n].payload)
        BY <4>3, <4>4
      <4>6. Owes(p, modes[current])'
        BY <2>4, <4>5 DEF Owes
      <4> QED  BY <3>2, <4>6 DEF Holds
    <3> QED  BY <3>2, <3>3, <3>4 DEF Holds
  <2> QED  BY <1>4, <1>5, <2>5, <2>6 DEF BeliefInv
<1> QED  BY <1>3, <1>6, <1>7

LEMMA ThreshBelief ==
  ASSUME TypeOK, BeliefInv, Thresh
  PROVE  BeliefInv'
<1>1. UNCHANGED <<modes, current, clients, crashed, dropped, id, inbox, light>>
  BY DEF Thresh, osatVars
<1>2. Unlisted' /\ \A p \in Osats : Destined(p)' = Destined(p)
  BY <1>1, QuietThresh, Unstirred
<1>3. OneId' /\ \A p \in Osats, m \in Mode : Owes(p, m) => Owes(p, m)'
  BY <1>1, NothingSent DEF BeliefInv
<1>4. \A p \in Osats, m \in Mode : Holds(p, m) => Holds(p, m)'
  BY <1>2, <1>3 DEF Holds
<1> QED  BY <1>1, <1>2, <1>3, <1>4, KeepInv

(***************************************************************************)
(* The server writes states.                                               *)
(***************************************************************************)

LEMMA Written ==
  ASSUME TypeOK, BeliefInv, NEW ids \in SUBSET Ids, DefaultId \notin ids,
         NEW cmds \in Seq(Command), WriteTo(ids, cmds), UNCHANGED <<clients, light, id, inbox>>
  PROVE  /\ OneId' /\ Unlisted'
         /\ \A p \in Osats : IdsOf(p)' = IdsOf(p)
         /\ \A p \in Osats : Destined(p)' = IF IdsOf(p) \cap ids # {} THEN Final(cmds, Destined(p))
                                                                     ELSE Destined(p)
         /\ \A p \in Osats, m \in Mode : Owes(p, m) => Owes(p, m)'
         /\ dropped \ ids \subseteq dropped'
         /\ \A i \in ids \ dropped' : \E p \in Osats : i \in IdsOf(p)
<1>1. /\ \A p \in Osats : toOsat[p] \in Seq(Command)
      /\ \A p \in Osats : toOsat'[p] = IF IdsOf(p) \cap ids # {} THEN toOsat[p] \o cmds ELSE toOsat[p]
  BY DEF WriteTo, Under, TypeOK, MailTypes
<1>2. \A p \in Osats : IdsOf(p)' = IdsOf(p)
  BY DEF IdsOf
<1>3. OneId' /\ \A p \in Osats, m \in Mode : Owes(p, m) => Owes(p, m)'
  BY NothingSent DEF BeliefInv
<1>4. Unlisted'
  <2>1. \A p \in Osats : IdsOf(p) \subseteq {DefaultId} => toOsat'[p] = toOsat[p]
    BY <1>1
  <2> QED  BY <1>2, <2>1 DEF BeliefInv, Unlisted
<1>5. \A p \in Osats : Destined(p)' = IF IdsOf(p) \cap ids # {} THEN Final(cmds, Destined(p))
                                                               ELSE Destined(p)
  BY <1>1, FinalConcat DEF Destined
<1>6. dropped \ ids \subseteq dropped' /\ \A i \in ids \ dropped' : Under({i}) # {}
  BY DEF WriteTo
<1>7. \A i \in ids \ dropped' : \E p \in Osats : i \in IdsOf(p)
  BY <1>6 DEF Under
<1> QED  BY <1>2, <1>3, <1>4, <1>5, <1>6, <1>7

LEMMA FinalInactive ==
  ASSUME NEW x
  PROVE  <<"INACTIVE">> \in Seq(Command) /\ Final(<<"INACTIVE">>, x) = "INACTIVE"
<1>1. "INACTIVE" \in Command /\ "INACTIVE" \in OsatStates
  BY DEF Command, OsatStates
<1> QED  BY <1>1, FinalOfOne DEF After

\* TickReport and Stop: the current mode is reset and its devices are told.
LEMMA HaltBelief ==
  ASSUME TypeOK, BeliefInv, current # None, NEW m \in Mode, m.cfg = modes[current].cfg, ~m.running,
         modes' = [modes EXCEPT ![current] = m], current' = current,
         WriteTo(modes[current].cfg.ids, <<"INACTIVE">>), UNCHANGED <<clients, light, id, inbox>>
  PROVE  BeliefInv'
<1> DEFINE ids == modes[current].cfg.ids
           cmds == <<"INACTIVE">>
<1>1. modes'[current'] = m /\ ids \in SUBSET Ids /\ DefaultId \notin ids
  BY CurrentMode, ModeFields DEF TypeOK, GameTypes
<1>2. cmds \in Seq(Command) /\ \A x : Final(cmds, x) = "INACTIVE"
  BY FinalInactive
<1> HIDE DEF ids, cmds
<1>3. /\ OneId' /\ Unlisted' /\ \A p \in Osats : IdsOf(p)' = IdsOf(p)
      /\ \A p \in Osats : IdsOf(p) \cap ids # {} => Destined(p)' = "INACTIVE"
  <2>1. WriteTo(ids, cmds)
    BY DEF ids, cmds
  <2>2. /\ OneId' /\ Unlisted' /\ \A p \in Osats : IdsOf(p)' = IdsOf(p)
        /\ \A p \in Osats : Destined(p)' = IF IdsOf(p) \cap ids # {} THEN Final(cmds, Destined(p))
                                                                    ELSE Destined(p)
    BY <1>1, <1>2, <2>1, Written
  <2> QED  BY <1>2, <2>2
<1>4. Believed'
  BY <1>1 DEF Believed, Running
<1>5. StoppedGameIsDark'
  <2> SUFFICES ASSUME NEW p \in Osats, IdsOf(p)' \cap (ids \ dropped') # {}
               PROVE  Destined(p)' = "INACTIVE"
    BY <1>1 DEF StoppedGameIsDark, Under, ids
  <2> QED  BY <1>3
<1> QED  BY <1>3, <1>4, <1>5 DEF BeliefInv

\* TickPlay and Start: the mode m runs and has its ids in ids told what to show.
LEMMA PlayBelief ==
  ASSUME TypeOK, BeliefInv, NEW m \in Mode, m.running, current' # None, modes'[current'] = m,
         NEW ids \in SUBSET m.cfg.ids, NEW cmds \in Seq(Command), WriteTo(ids, cmds),
         UNCHANGED <<clients, light, id, inbox>>,
         \A i \in ids : m.states[i] # "INACTIVE" => \A x : Final(cmds, x) \in LitFor(m),
         \/ ids = m.cfg.ids
         \/ /\ Running /\ crashed' = crashed /\ modes[current].cfg = m.cfg
            /\ \A i \in m.cfg.ids \ ids : m.states[i] = modes[current].states[i]
            /\ \A x : Final(cmds, x) \in LitFor(m)
  PROVE  BeliefInv'
<1>1. ids \in SUBSET Ids /\ DefaultId \notin ids
  BY ModeFields
<1>2. /\ OneId' /\ Unlisted' /\ \A p \in Osats : IdsOf(p)' = IdsOf(p)
      /\ \A p \in Osats : Destined(p)' = IF IdsOf(p) \cap ids # {} THEN Final(cmds, Destined(p))
                                                                  ELSE Destined(p)
      /\ \A p \in Osats : Owes(p, m) => Owes(p, m)'
      /\ dropped \ ids \subseteq dropped'
      /\ \A i \in ids \ dropped' : \E p \in Osats : i \in IdsOf(p)
  BY <1>1, Written
<1>3. StoppedGameIsDark'
  BY DEF StoppedGameIsDark, Running
<1>4. Believed'
  <2> SUFFICES ASSUME crashed' = "no", NEW i \in m.cfg.ids \ dropped', m.states[i] # "INACTIVE"
               PROVE  \E p \in Osats : i \in IdsOf(p) /\ Holds(p, modes[current])'
    BY <1>2 DEF Believed
  <2>1. ASSUME NEW p \in Osats, Destined(p)' \in LitFor(m) \/ Owes(p, m)
        PROVE  Holds(p, modes[current])'
    <3>1. CASE Destined(p)' \in LitFor(m)
      BY <3>1 DEF Holds
    <3>2. CASE Owes(p, m)
      <4>1. \E k \in DOMAIN inbox' : inbox'[k].osat = p /\ Counts(m, inbox'[k].payload)
        BY <3>2 DEF Owes
      <4> QED  BY <4>1 DEF Holds, Owes
    <3> QED  BY <2>1, <3>1, <3>2
  <2>2. CASE i \in ids
    <3>1. PICK p \in Osats : i \in IdsOf(p)
      BY <1>2, <2>2
    <3>2. Destined(p)' \in LitFor(m)
      BY <1>2, <2>2, <3>1
    <3> QED  BY <2>1, <3>1, <3>2
  <2>3. CASE i \notin ids
    <3>1. /\ Running /\ crashed = "no" /\ modes[current].cfg = m.cfg
          /\ m.states[i] = modes[current].states[i] /\ \A x : Final(cmds, x) \in LitFor(m)
      BY <2>3
    <3>2. i \notin dropped
      BY <1>2, <2>3
    <3>3. PICK p \in Osats : i \in IdsOf(p) /\ Holds(p, modes[current])
      BY <3>1, <3>2 DEF BeliefInv, Believed
    <3>4. Destined(p) \in LitFor(m) \/ Owes(p, m)
      BY <3>1, <3>3 DEF Holds, LitFor, Owes, Counts
    <3>5. Destined(p)' \in LitFor(m) \/ Owes(p, m)
      BY <1>2, <3>1, <3>4
    <3> QED  BY <2>1, <3>3, <3>5
  <2> QED  BY <2>2, <2>3
<1> QED  BY <1>2, <1>3, <1>4 DEF BeliefInv

LEMMA TickBelief ==
  ASSUME TypeOK, BeliefInv, TickReport \/ TickPlay
  PROVE  BeliefInv'
<1> DEFINE now == modes[current]
<1>1. /\ current # None /\ current \in Names /\ now \in Mode /\ now.running
      /\ UNCHANGED <<current, clients, light, id, inbox, crashed>>
  BY CurrentMode DEF TypeOK, TickReport, TickPlay, Running, osatVars
<1>2. CASE TickReport
  <2> DEFINE m == ReportTick(now)
  <2>1. m \in Mode /\ m.cfg = now.cfg /\ ~m.running
    BY <1>1, ReportTickType
  <2>2. modes' = [modes EXCEPT ![current] = m] /\ WriteTo(now.cfg.ids, <<"INACTIVE">>)
    BY <1>2 DEF TickReport
  <2> HIDE DEF m
  <2> QED  BY <1>1, <2>1, <2>2, HaltBelief
<1>3. CASE TickPlay
  <2>1. PICK lit \in Choices(now) :
          /\ modes' = [modes EXCEPT ![current] = PlayTick(now, lit)]
          /\ WriteTo(lit, <<LitState(now)>>)
    BY <1>3 DEF TickPlay
  <2> DEFINE m == PlayTick(now, lit)
             cmds == <<LitState(now)>>
  <2>2. lit \in SUBSET now.cfg.ids
    BY <1>1, ChoicesAreIds
  <2>3. m \in Mode /\ m.cfg = now.cfg /\ m.running = now.running /\ m.states = Lit(now, lit)
    BY <1>1, <2>2, PlayTickType
  <2>4. /\ LitState(now) \in Command /\ LitState(now) \in OsatStates
        /\ LitState(now) \in LitFor(now)
    BY DEF LitState, Command, OsatStates, LitFor
  <2>5. cmds \in Seq(Command) /\ \A x : Final(cmds, x) \in LitFor(m)
    <3>1. LitFor(m) = LitFor(now)
      BY <2>3 DEF LitFor
    <3> QED  BY <2>4, <3>1, FinalOfOne DEF After
  <2>6. modes'[current'] = m
    BY <1>1, <2>1 DEF TypeOK, GameTypes
  <2>7. \A i \in m.cfg.ids \ lit : m.states[i] = now.states[i]
    BY <2>3 DEF Lit
  <2>8. Running /\ WriteTo(lit, cmds)
    BY <1>1, <2>1 DEF Running
  <2> HIDE DEF m, cmds
  <2> QED  BY <1>1, <2>2, <2>3, <2>5, <2>6, <2>7, <2>8, PlayBelief
<1> QED  BY <1>2, <1>3

LEMMA StartBelief ==
  ASSUME TypeOK, BeliefInv, NEW n \in Names, Start(n)
  PROVE  BeliefInv'
<1> DEFINE old == modes[n]
           m == StartMode(old)
           cmds == StartCommands(old)
<1>1. /\ UNCHANGED <<clients, light, id, inbox>> /\ current' = n /\ n # None
      /\ modes' = [modes EXCEPT ![n] = m] /\ WriteTo(old.cfg.ids, cmds)
  BY OsatServerAssumption DEF Start, osatVars
<1>2. old \in Mode
  BY DEF Start, TypeOK, GameTypes
<1>3. m \in Mode /\ m.cfg = old.cfg /\ m.running /\ m.states = AllIn(old, FirstState(old))
  BY <1>2, StartModeType
<1>4. cmds \in Seq(Command) /\ modes'[current'] = m
  BY <1>1, <1>2, StartCommandsType DEF TypeOK, GameTypes
<1>5. ASSUME NEW i \in old.cfg.ids, m.states[i] # "INACTIVE", NEW x
      PROVE  Final(cmds, x) \in LitFor(m)
  <2>1. old.cfg.mode_type = "reverse_fill"
    BY <1>3, <1>5 DEF AllIn, FirstState
  <2>2. cmds = <<"INACTIVE", "ACTIVE">>
    BY <2>1 DEF StartCommands
  <2>3. cmds[2] = "ACTIVE" /\ LastOf(StatesIn(cmds), 2)
    <3>1. DOMAIN cmds = {1, 2} /\ cmds[1] = "INACTIVE" /\ cmds[2] = "ACTIVE"
      BY <2>2
    <3> HIDE DEF cmds
    <3>2. StatesIn(cmds) = {1, 2}
      BY <3>1 DEF StatesIn, OsatStates
    <3> QED  BY <3>1, <3>2 DEF LastOf
  <2> HIDE DEF cmds
  <2>4. Final(cmds, x) = "ACTIVE"
    BY <1>4, <2>3, FinalIsLast
  <2> QED  BY <2>4 DEF LitFor
<1> HIDE DEF m, cmds
<1> QED  BY <1>1, <1>3, <1>4, <1>5, PlayBelief

LEMMA BeliefStep == TypeOK /\ BeliefInv /\ [Next]_vars => BeliefInv'
<1> SUFFICES ASSUME TypeOK, BeliefInv, [Next]_vars PROVE BeliefInv'
  OBVIOUS
<1>1. ASSUME UNCHANGED <<current, clients, crashed, dropped, id, inbox, toOsat, light>>,
             current # None => modes'[current] = modes[current]
      PROVE  BeliefInv'
  <2>1. OneId' /\ Unlisted' /\ \A p \in Osats : Destined(p)' = Destined(p)
    BY <1>1 DEF BeliefInv, OneId, Claims, Unlisted, IdsOf, Destined
  <2>2. \A p \in Osats, m \in Mode : Holds(p, m) => Holds(p, m)'
    BY <1>1, <2>1 DEF Holds, Owes
  <2>3. Believed' /\ StoppedGameIsDark'
    BY <1>1, <2>1, <2>2, KeepBelieved, KeepDark DEF BeliefInv
  <2> QED  BY <2>1, <2>3 DEF BeliefInv
<1>2. CASE UNCHANGED vars \/ TickStopped \/ NextTurn
  <2>1. UNCHANGED <<modes, current, clients, crashed, dropped, id, inbox, toOsat, light>>
    BY <1>2 DEF vars, serverVars, osatVars, TickStopped, NextTurn
  <2> QED  BY <1>1, <2>1
<1>3. CASE HandleMessage
  BY <1>3, ConfigBelief, ActionBelief DEF HandleMessage
<1>4. CASE TickReport \/ TickPlay
  BY <1>4, TickBelief
<1>5. ASSUME NEW f \in Files, Load(f) PROVE BeliefInv'
  <2>1. current # None => modes'[current] = modes[current]
    BY <1>5, CurrentMode DEF Load, TypeOK, GameTypes, Loaded
  <2> QED  BY <1>1, <1>5, <2>1 DEF Load, osatVars
<1>6. ASSUME Stop PROVE BeliefInv'
  <2>1. CASE current = None
    <3>1. UNCHANGED <<modes, current, clients, dropped, id, inbox, toOsat, light>>
      BY <1>6, <2>1 DEF Stop, osatVars
    <3>2. OneId' /\ Unlisted'
      BY <3>1 DEF BeliefInv, OneId, Claims, Unlisted, IdsOf
    <3> QED  BY <2>1, <3>1, <3>2 DEF BeliefInv, Believed, StoppedGameIsDark, Running
  <2>2. CASE current # None
    <3> DEFINE m == ResetMode(modes[current])
    <3>1. modes[current] \in Mode
      BY <2>2, CurrentMode DEF TypeOK
    <3>2. m \in Mode /\ m.cfg = modes[current].cfg /\ ~m.running
      BY <3>1, ResetModeType
    <3>3. /\ modes' = [modes EXCEPT ![current] = m] /\ WriteTo(modes[current].cfg.ids, <<"INACTIVE">>)
          /\ UNCHANGED <<current, clients, light, id, inbox>>
      BY <1>6, <2>2 DEF Stop, osatVars
    <3> HIDE DEF m
    <3> QED  BY <2>2, <3>2, <3>3, HaltBelief
  <2> QED  BY <2>1, <2>2
<1>7. ASSUME LoadMalformed PROVE BeliefInv'
  <2>1. /\ UNCHANGED <<modes, current, clients, dropped, id, inbox, toOsat, light>>
        /\ crashed' # "no"
    BY <1>7 DEF LoadMalformed, osatVars
  <2>2. OneId' /\ Unlisted' /\ \A p \in Osats : Destined(p)' = Destined(p)
    BY <2>1 DEF BeliefInv, OneId, Claims, Unlisted, IdsOf, Destined
  <2>3. Believed' /\ StoppedGameIsDark'
    BY <2>1, <2>2, KeepDark DEF BeliefInv, Believed
  <2> QED  BY <2>2, <2>3 DEF BeliefInv
<1>8. CASE Operator
  BY <1>5, <1>6, <1>7, <1>8, StartBelief, ThreshBelief DEF Operator
<1>9. ASSUME NEW o \in Osats, Osat(o) \/ Fault(o) PROVE BeliefInv'
  BY <1>9, AnnounceBelief, ReceiveBelief, AnswerBelief, LoseBelief, PowerCutBelief DEF Osat, Fault
<1> QED  BY <1>2, <1>3, <1>4, <1>8, <1>9 DEF Next, Tick

LEMMA InitBelief == Init => BeliefInv
<1> SUFFICES ASSUME Init PROVE BeliefInv
  OBVIOUS
<1>1. OneId
  BY DEF Init, OneId, Claims, IdsOf
<1>2. Unlisted
  BY DEF Init, Unlisted, Dark, StatesIn
<1>3. Believed /\ StoppedGameIsDark
  BY DEF Init, Believed, StoppedGameIsDark, Running
<1> QED  BY <1>1, <1>2, <1>3 DEF BeliefInv

\* The devices, the list and the game's board stay in agreement, id by id: what
\* the next two theorems read off (Mode.h:254, ClientList.h:33).
THEOREM BeliefHolds == Spec => [](TypeOK /\ BeliefInv)
<1>1. Init => TypeOK /\ BeliefInv
  BY InitTypes, InitBelief
<1>2. TypeOK /\ BeliefInv /\ [Next]_vars => TypeOK' /\ BeliefInv'
  BY NextTypes, BeliefStep
<1> QED  BY <1>1, <1>2, PTL DEF Spec

\* The server never waits in vain: an id it takes for lit, unless its command
\* or its device was lost, has a device that is lit, is going to be, or whose
\* answer is on its way, for any modes and any mix of games, late answers and
\* faults (Mode_RandomN.h:29 against Mode.h:254).
THEOREM NoOsatIsLost == Spec => []NoLostOsat
<1>1. TypeOK /\ BeliefInv => NoLostOsat
  <2> SUFFICES ASSUME TypeOK, BeliefInv, Running, crashed = "no",
                      NEW i \in modes[current].cfg.ids \ dropped,
                      modes[current].states[i] # "INACTIVE"
               PROVE  \E o \in Under({i}) : Destined(o) \in {"ACTIVE", "ACTIVE_TO"} \/ Answered(o)
    BY DEF NoLostOsat
  <2>1. PICK o \in Osats : i \in IdsOf(o) /\ Holds(o, modes[current])
    BY DEF BeliefInv, Believed
  <2>2. o \in Under({i})
    BY <2>1 DEF Under
  <2>3. Destined(o) \in {"ACTIVE", "ACTIVE_TO"} \/ Answered(o)
    BY <2>1 DEF Holds, LitFor, Owes, Counts, Answered
  <2> QED  BY <2>2, <2>3
<1> QED  BY <1>1, BeliefHolds, PTL

\* When the current game is over, however it ended, its devices are dark or
\* on their way to it, unless the command itself was lost (Mode_RandomN.h:104
\* and its siblings): no device listed late, and no answer of an earlier
\* game, can light one.
THEOREM StoppedIsDark == Spec => []StoppedGameIsDark
BY BeliefHolds, PTL DEF BeliefInv

=============================================================================
