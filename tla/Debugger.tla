------------------------------ MODULE Debugger ------------------------------
(***************************************************************************)
(* The visual debugger: the test bench (visual_testbench.v) and the curses *)
(* process it forks (visual_c_hooks.cpp).  At every clock edge the test    *)
(* bench prints the core's tables into one pipe, line by line, and blocks  *)
(* until the debugger answers through the other.  The debugger keeps the   *)
(* last NUM_HISTORY cycles in a ring through which the user can go back.   *)
(*                                                                         *)
(* A table's contents are abstracted to a stamp: the cycle and clock level *)
(* they were printed at.  What a window shows is the stamps of its tables. *)
(***************************************************************************)
EXTENDS Integers, Sequences, FiniteSets

CONSTANTS
  NUM_HISTORY,   \* slots of the history ring
  MaxCycle,      \* bound: the program has halted by this cycle
  MaxBack        \* bound: cycles the user goes back

ASSUME HistoryAssumption ==
  /\ NUM_HISTORY \in Nat \ {0, 1}
  /\ MaxCycle \in Nat
  /\ MaxBack \in Nat

VARIABLES
  tb,             \* test bench: "run", "wait" for an answer, "final" wait, "exited", "killed"
  clock, clock_count, reset,
  out,            \* lines printed and not yet read by the debugger
  resp,           \* answers written and not yet read by the test bench
  child,          \* debugger: "reading" lines, taking "input", "exited"
  present_cycle,  \* the cycle the test bench is on, as last read
  curr_cycle,     \* the cycle the screen is about
  history_num,    \* its slot
  time_wrapped,   \* the ring has been filled once
  mode,           \* which tables the user asked for
  history         \* slot -> table -> stamp

vars == <<tb, clock, clock_count, reset, out, resp, child, present_cycle,
          curr_cycle, history_num, time_wrapped, mode, history>>

Slots == 0..(NUM_HISTORY - 1)
Modes == {"menu", "o", "s", "r", "l"}
Stamp == [cycle : 0..MaxCycle, clock : 0..1]
Unwritten == [cycle |-> -1, clock |-> 0]
Posedge(k) == [cycle |-> k, clock |-> 1]

-----------------------------------------------------------------------------
(* Tables and windows. *)

Tables == {"if", "id", "rob", "rs", "rat.prn", "rat.freelist", "rat.validlist", "rrat.prn",
           "rrat.freelist", "rrat.validlist", "prf", "sq.ends", "lq", "sq"}

\* The tables a line brings, by its prefix.
TablesOf(prefix) ==
  CASE prefix = "f"  -> {"if"}
    [] prefix = "d"  -> {"id"}
    [] prefix = "o"  -> {"rob"}
    [] prefix = "s"  -> {"rs"}
    [] prefix = "ra" -> {"rat.prn", "rrat.prn"}
    [] prefix = "r"  -> {"rat.freelist", "rat.validlist", "rrat.freelist", "rrat.validlist"}
    [] prefix = "p"  -> {"prf"}
    [] prefix = "q"  -> {"sq.ends"}
    [] prefix = "ql" -> {"lq"}
    [] prefix = "qs" -> {"sq"}
    [] OTHER         -> {}

\* The order in which the test bench prints the tables at an edge.
Prefixes == <<"c", "f", "d", "o", "s", "ra", "r", "p", "q", "ql", "qs", "break">>

Dump(k, level) ==
  [i \in DOMAIN Prefixes |-> [prefix |-> Prefixes[i], stamp |-> [cycle |-> k, clock |-> level]]]

Text(s) == [prefix |-> s, stamp |-> Unwritten]

draw_if == {"if"}
draw_id == {"id"}
draw_rob == {"rob"}
draw_rs == {"rs"}

\* The window called RRAT prints the speculative map and free list.
draw_rat_prf ==
  {"rat.prn", "rat.freelist", "rat.validlist"}                  \* rat_win
    \cup {"rat.prn", "rat.freelist", "rrat.validlist"}          \* rrat_win
    \cup {"prf"}
draw_lsq == {"lq", "sq"}

\* The tables on the screen: those of the mode, and the front end's.
redraw ==
  CASE mode = "o" -> draw_rob \cup draw_if \cup draw_id
    [] mode = "s" -> draw_rs \cup draw_if \cup draw_id
    [] mode = "r" -> draw_rat_prf \cup draw_if \cup draw_id
    [] mode = "l" -> draw_lsq \cup draw_if \cup draw_id
    [] OTHER      -> draw_if \cup draw_id

Shown == {history[history_num][t] : t \in redraw}

-----------------------------------------------------------------------------
(* The test bench. *)

Alive == child # "exited"

\* Printing into a pipe that nobody reads any more kills the test bench.
Send(lines, next) ==
  IF Alive THEN out' = out \o lines /\ tb' = next
           ELSE UNCHANGED out /\ tb' = "killed"

\* A clock edge: the cycle counter, then the dump and the blocking call.
Edge ==
  LET level == 1 - clock
      k == IF level = 1 /\ ~reset THEN clock_count + 1 ELSE clock_count
  IN  /\ tb = "run"
      /\ k <= MaxCycle
      /\ clock' = level
      /\ clock_count' = k
      /\ reset' \in {reset, FALSE}
      /\ Send(Dump(k, level), "wait")
      /\ UNCHANGED <<resp, child, present_cycle, curr_cycle, history_num, time_wrapped, mode, history>>

\* A program that halts: "\nDONE\n" is printed and one more answer awaited.
Halt ==
  /\ tb = "run"
  /\ ~reset
  /\ Send(<<Text("\n"), Text("DONE\n"), Text("\n")>>, "final")
  /\ UNCHANGED <<clock, clock_count, reset, resp, child, present_cycle, curr_cycle, history_num,
                 time_wrapped, mode, history>>

\* The answer "n" lets the simulation go on, "Z" ends it.
waitforresponse ==
  /\ tb \in {"wait", "final"}
  /\ resp # <<>>
  /\ resp' = Tail(resp)
  /\ tb' = IF Head(resp) = "n" /\ tb = "wait" THEN "run" ELSE "exited"
  /\ UNCHANGED <<clock, clock_count, reset, out, child, present_cycle, curr_cycle, history_num,
                 time_wrapped, mode, history>>

-----------------------------------------------------------------------------
(* The debugger. *)

\* Mutant: lines go to the slot on display.
WriteSlot_Current == history_num

\* Lines go to the slot behind the one on display: the next cycle's.
WriteSlot == (history_num + 1) % NUM_HISTORY

\* One line from the test bench.  DONE is not recognised: fgets keeps the end
\* of the line, with which strcmp(readbuffer, "DONE") compares it, so
\* testbench_finished is never set.
processinput ==
  /\ child = "reading"
  /\ out # <<>>
  /\ Head(out).prefix # "break"
  /\ history' = [history EXCEPT ![WriteSlot] =
                   [t \in Tables |-> IF t \in TablesOf(Head(out).prefix) THEN Head(out).stamp ELSE @[t]]]
  /\ present_cycle' = IF Head(out).prefix = "c" THEN Head(out).stamp.cycle ELSE present_cycle
  /\ out' = Tail(out)
  /\ UNCHANGED <<tb, clock, clock_count, reset, resp, child, curr_cycle, history_num, time_wrapped, mode>>

\* The line "break": show the present cycle, answer, and turn to the user.
Break ==
  /\ child = "reading"
  /\ out # <<>>
  /\ Head(out).prefix = "break"
  /\ out' = Tail(out)
  /\ curr_cycle' = present_cycle
  /\ time_wrapped' = (time_wrapped \/ history_num = NUM_HISTORY - 1)
  /\ history_num' = present_cycle % NUM_HISTORY
  /\ resp' = Append(resp, "n")
  /\ child' = "input"
  /\ UNCHANGED <<tb, clock, clock_count, reset, present_cycle, mode, history>>

\* Mutant: the key answers the test bench, which "break" did already.
KeyNext_Answers ==
  /\ child = "input"
  /\ child' = "reading" /\ resp' = Append(resp, "n")
  /\ UNCHANGED <<tb, clock, clock_count, reset, out, present_cycle, curr_cycle, history_num,
                 time_wrapped, mode, history>>

\* Key n: the next cycle, from the test bench if the screen is up to date.
KeyNext ==
  /\ child = "input"
  /\ IF present_cycle = curr_cycle
     THEN child' = "reading" /\ UNCHANGED <<curr_cycle, history_num, time_wrapped>>
     ELSE /\ curr_cycle' = curr_cycle + 1
          /\ history_num' = (history_num + 1) % NUM_HISTORY
          /\ time_wrapped' = (time_wrapped \/ history_num + 1 = NUM_HISTORY - 1)
          /\ UNCHANGED child
  /\ UNCHANGED <<tb, clock, clock_count, reset, out, resp, present_cycle, mode, history>>

\* Key b: the previous cycle.  It stops in front of the slot behind the
\* present cycle's, and at slot 0 until the ring has been filled once.
KeyBack ==
  /\ child = "input"
  /\ present_cycle - curr_cycle < MaxBack
  /\ history_num # (present_cycle % NUM_HISTORY) + 1
  /\ history_num # 0 \/ time_wrapped
  /\ curr_cycle' = curr_cycle - 1
  /\ history_num' = IF history_num # 0 THEN history_num - 1 ELSE NUM_HISTORY - 1
  /\ UNCHANGED <<tb, clock, clock_count, reset, out, resp, child, present_cycle, time_wrapped, mode, history>>

\* Mutant: the debugger leaves without a word.
KeyQuit_Silent ==
  /\ child = "input"
  /\ child' = "exited"
  /\ UNCHANGED <<tb, clock, clock_count, reset, out, resp, present_cycle, curr_cycle, history_num,
                 time_wrapped, mode, history>>

\* Key q.
KeyQuit ==
  /\ child = "input"
  /\ resp' = Append(resp, "Z")
  /\ child' = "exited"
  /\ UNCHANGED <<tb, clock, clock_count, reset, out, present_cycle, curr_cycle, history_num,
                 time_wrapped, mode, history>>

\* Keys o, s, r and l.
KeyMode ==
  /\ child = "input"
  /\ mode' \in Modes \ {"menu"}
  /\ UNCHANGED <<tb, clock, clock_count, reset, out, resp, child, present_cycle, curr_cycle,
                 history_num, time_wrapped, history>>

-----------------------------------------------------------------------------
\* Whether the assignment of 0 to the clock at time 0 counts as an edge is a
\* race of two initial blocks.  The ring's slots come from malloc.
Init ==
  /\ tb = "run" /\ clock \in {0, 1} /\ clock_count = 0 /\ reset = TRUE
  /\ out = <<>> /\ resp = <<>>
  /\ child = "reading"
  /\ present_cycle = 0 /\ curr_cycle = 0 /\ history_num = 0
  /\ time_wrapped = FALSE
  /\ mode = "menu"
  /\ history = [s \in Slots |-> [t \in Tables |-> Unwritten]]

TestBench == Edge \/ Halt \/ waitforresponse
Reader == processinput \/ Break
User == KeyNext \/ KeyBack \/ KeyQuit \/ KeyMode

Next == TestBench \/ Reader \/ User

Spec == Init /\ [][Next]_vars

\* The simulator runs and the debugger reads; the user may walk away.
FairSpec == Spec /\ WF_vars(TestBench) /\ WF_vars(Reader)

-----------------------------------------------------------------------------
(* Properties. *)

\* Types of the globals of visual_c_hooks.cpp and of the two pipes.
TypeOK ==
  /\ tb \in {"run", "wait", "final", "exited", "killed"}
  /\ clock \in 0..1 /\ clock_count \in 0..MaxCycle /\ reset \in BOOLEAN
  /\ Len(out) <= Len(Prefixes) + 3 /\ Len(resp) <= 2
  /\ child \in {"reading", "input", "exited"}
  /\ present_cycle \in 0..MaxCycle
  /\ curr_cycle \in (-MaxBack)..MaxCycle
  /\ history_num \in Slots
  /\ time_wrapped \in BOOLEAN
  /\ mode \in Modes
  /\ history \in [Slots -> [Tables -> Stamp \cup {Unwritten}]]

\* Dumps not yet read to their end, and answers not yet read.
Breaks == {i \in DOMAIN out : out[i].prefix = "break"}
Answers == {i \in DOMAIN resp : resp[i] = "n"}

\* The two processes move in turns although each only waits on a pipe: until
\* the program halts, the right to go on is with the test bench, in a dump
\* not yet read to its end, or in an answer not yet read, in one place only.
\* The debugger is therefore never more than one edge behind.
OneTurn ==
  tb \in {"run", "wait"} =>
    /\ (IF tb = "run" THEN 1 ELSE 0) + Cardinality(Breaks) + Cardinality(Answers) = 1
    /\ child = "input" => clock_count - present_cycle \in 0..1

\* Every table on the screen is the one of the rising edge of the cycle the
\* screen names, as far back as NUM_HISTORY - 2 cycles.  The slot one cycle
\* further back is overwritten by the dump of the falling edge, and slot 0 is
\* never written for cycle 0, which is why the code's own limit, one slot
\* more, would not do.
ShowsItsCycle ==
  child = "input" /\ curr_cycle >= 1 /\ present_cycle - curr_cycle <= NUM_HISTORY - 2 =>
    Shown = {Posedge(curr_cycle)}

\* The user gets the keys back after each step, unless the program has
\* halted, and the test bench ends after the debugger has.
Responsive ==
  /\ (child = "reading") ~> (child = "input" \/ tb = "final")
  /\ (child = "exited") ~> (tb \in {"exited", "killed"})
=============================================================================
