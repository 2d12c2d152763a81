------------------------------- MODULE Modes -------------------------------
(***************************************************************************)
(* The game modes (osat_server/src/Mode.h and its three subclasses) as     *)
(* functions from a mode object to the object after a call. An object is a *)
(* record: its configuration, _running, _states, the two counters and      *)
(* _finish_up. Time is left out: that an interval has elapsed is a choice  *)
(* of the caller, and the durations a report carries are not modelled.     *)
(* The vector _cfg.ids is taken as the set of its members.                 *)
(***************************************************************************)
EXTENDS Naturals, FiniteSets

OsatStates == {"ACTIVE", "ACTIVE_TO", "INACTIVE"}

AllIn(m, state) == [i \in m.cfg.ids |-> state]

NewMode(cfg) == [cfg |-> cfg, running |-> FALSE, finish_up |-> FALSE,
                 hits |-> 0, timeouts |-> 0,
                 states |-> [i \in cfg.ids |-> "INACTIVE"]]

\* The state in which a mode lights an Osat.
LitState(m) == IF m.cfg.mode_type = "random_n" THEN "ACTIVE_TO" ELSE "ACTIVE"

\* getRandomIds(num, state): draws until it has num distinct ids in the
\* wanted state or has drawn often enough to give up; it can give up with
\* fewer as soon as one draw can miss.
RandomIds(m, num, state) ==
  LET eligible == {i \in m.cfg.ids : state \in {m.states[i], "ANY"}}
  IN  {S \in SUBSET eligible :
         \/ Cardinality(S) = num
         \/ Cardinality(S) < num /\ (S # {} \/ eligible # m.cfg.ids)}

\* reset(): _finish_up is not among what it clears.
ResetMode(m) == [m EXCEPT !.running = FALSE, !.hits = 0, !.timeouts = 0,
                          !.states = AllIn(m, "INACTIVE")]

\* Seeded fault: the wrong order, so that the board goes dark.
SeededStartCommands(m) ==
  IF m.cfg.mode_type = "reverse_fill" THEN <<"ACTIVE", "INACTIVE">> ELSE <<"INACTIVE">>

\* What a started mode sends to every id, in this order.
StartCommands(m) ==
  CASE m.cfg.mode_type = "random_n"     -> <<"CFG-TIMEOUT", "INACTIVE">>
    [] m.cfg.mode_type = "random_fill"  -> <<"INACTIVE">>
    [] m.cfg.mode_type = "reverse_fill" -> <<"INACTIVE", "ACTIVE">>

StartMode(m) ==
  [ResetMode(m) EXCEPT !.running = TRUE,
     !.states = AllIn(m, IF m.cfg.mode_type = "reverse_fill" THEN "ACTIVE" ELSE "INACTIVE")]

\* The actions that setAction looks at; the fills ignore a timeout, before they
\* look for its id.
Counts(m, action) == action = "hit" \/ (action = "timeout" /\ m.cfg.mode_type = "random_n")

\* Seeded fault: random_n takes over the setAction of random_fill.
SeededActOnNoTimeout(m, id, action) ==
  IF action = "hit" THEN [m EXCEPT !.hits = @ + 1, !.states[id] = "INACTIVE"] ELSE m

\* setAction of a running mode, of an action it counts, for one of its own ids.
ActOn(m, id, action) ==
  LET counted == IF action = "hit"
                 THEN [m EXCEPT !.hits = @ + 1, !.states[id] = "INACTIVE"]
                 ELSE [m EXCEPT !.timeouts = @ + 1, !.states[id] = "INACTIVE"]
  IN  [counted EXCEPT !.finish_up =
         @ \/ (m.cfg.mode_type = "random_n" /\ counted.timeouts >= m.cfg.max_timeout_count)]

\* tick() of a running mode that is not finishing: which ids it may light.
\* The empty choice is also the tick whose interval has not elapsed. The count
\* is cut to the width of getRandomIds' parameter.
Choices(m) ==
  IF m.cfg.mode_type = "reverse_fill" THEN {{}}
  ELSE {{}} \cup RandomIds(m, m.cfg.activate_count % 256, "INACTIVE")

\* Seeded fault: a full board is looked for in the state of random_n.
SeededPlayTick(m, lit) ==
  [m EXCEPT !.states = [i \in m.cfg.ids |-> IF i \in lit THEN LitState(m) ELSE m.states[i]],
            !.finish_up = \A i \in m.cfg.ids : m.states[i] = "ACTIVE_TO"]

\* The rest of that tick: light them, then look whether the board is full
\* (random_fill) or cleared (reverse_fill).
PlayTick(m, lit) ==
  LET states == [i \in m.cfg.ids |-> IF i \in lit THEN LitState(m) ELSE m.states[i]]
      goal == [random_fill |-> "ACTIVE", reverse_fill |-> "INACTIVE"]
  IN  [m EXCEPT !.states = states,
                !.finish_up = m.cfg.mode_type # "random_n" /\
                  \A i \in m.cfg.ids : states[i] = goal[m.cfg.mode_type]]

\* Seeded fault: the report does not take the flag back.
SeededReportTick(m) == ResetMode(m)

\* tick() of a running mode that is finishing: report, then reset.
ReportTick(m) == [ResetMode(m) EXCEPT !.finish_up = FALSE]
=============================================================================
