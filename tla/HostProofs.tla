----------------------------- MODULE HostProofs ------------------------------
(***************************************************************************)
(* Proofs about the code around the core.  Debugger, for every length of   *)
(* the history ring and every program: the simulation and the debugger     *)
(* take turns, and the screen shows the cycle it names.  InstCodec, for    *)
(* every word of 32 bits and every instruction: the decoders agree, and    *)
(* encode and decode are inverse.  Heap, for every array and every program *)
(* whose blocks its merges miss: blocks do not overlap and none is lost.   *)
(* Traversals, for every graph: a search that ends has marked what can be  *)
(* reached, and its array has a cell for every vertex that enters it.      *)
(***************************************************************************)
EXTENDS InstCodec, Debugger, Heap, Traversals, NumberLemmas, SequenceTheorems


-----------------------------------------------------------------------------
(* The debugger: the invariant. *)

Line == [prefix : {Prefixes[j] : j \in 1..12} \cup {"\n", "DONE\n"}, stamp : Stamp \cup {Unwritten}]

RegistersOK ==
  /\ tb \in {"run", "wait", "final", "exited", "killed"}
  /\ clock \in 0..1 /\ clock_count \in 0..MaxCycle /\ reset \in BOOLEAN
  /\ out \in Seq(Line) /\ Len(out) <= 12
  /\ child \in {"reading", "input", "exited"}
  /\ present_cycle \in 0..MaxCycle
  /\ curr_cycle \in (-MaxBack)..MaxCycle
  /\ time_wrapped \in BOOLEAN
  /\ mode \in Modes
  /\ history_num \in Slots
  /\ history \in [Slots -> [Tables -> Stamp \cup {Unwritten}]]

\* The number of the line of a dump that is read next.
Next_line == 13 - Len(out)

\* The rest of the dump of the present edge.
Unread ==
  /\ out # <<>>
  /\ \A j \in 1..Len(out) : out[j] = Dump(clock_count, clock)[Next_line - 1 + j]
  /\ child # "reading" => Next_line = 1

Silent == resp = IF child = "exited" THEN <<"Z">> ELSE <<>>
Answered == resp = IF child = "exited" THEN <<"n", "Z">> ELSE <<"n">>

\* Who is to move.
Turn ==
  \/ tb = "run" /\ out = <<>> /\ Silent
  \/ tb = "wait" /\ Unread /\ Silent
  \/ tb = "wait" /\ out = <<>> /\ Answered
  \/ tb = "final" /\ Len(out) <= 3 /\ (\A j \in 1..Len(out) : out[j] \in {Text("\n"), Text("DONE\n")}) /\ Silent
  \/ tb \in {"exited", "killed"} /\ child = "exited" /\ resp \in {<<>>, <<"Z">>, <<"n", "Z">>}

\* The last cycle that the debugger has read to its end.
Base == IF child = "reading" THEN curr_cycle ELSE present_cycle

\* The simulation is at most one rising edge ahead, whose dump is on its way.
CyclesOK ==
  child # "exited" =>
    /\ Base >= 0
    /\ clock_count = Base \/ (clock_count = Base + 1 /\ tb = "wait" /\ out # <<>> /\ clock = 1)
    /\ history_num = curr_cycle % NUM_HISTORY
    /\ child = "input" => curr_cycle <= present_cycle /\ present_cycle - curr_cycle <= MaxBack
    /\ child = "reading" => present_cycle = IF tb = "wait" /\ out # <<>> /\ Next_line > 1
                                            THEN clock_count ELSE curr_cycle

\* The ring has the last cycles' tables, as of their rising edges.
HistoryOK ==
  child # "exited" =>
    \A c \in 1..Base : Base - c <= NUM_HISTORY - 2 =>
      \A t \in Tables : history[c % NUM_HISTORY][t] = Posedge(c)

\* What has been read of a rising edge's dump is in the slot behind.
PartialOK ==
  child = "reading" /\ tb = "wait" /\ out # <<>> /\ clock_count = curr_cycle + 1 =>
    \A j \in 1..(Next_line - 1) : \A t \in TablesOf(Prefixes[j]) :
      history[(curr_cycle + 1) % NUM_HISTORY][t] = Posedge(clock_count)

IInv == RegistersOK /\ Turn /\ CyclesOK /\ HistoryOK /\ PartialOK

-----------------------------------------------------------------------------
(* Lines, dumps and tables. *)

\* A dump is twelve lines stamped with the edge they were printed at.
LEMMA DumpIs ==
  ASSUME NEW k \in 0..MaxCycle, NEW level \in 0..1
  PROVE  /\ Dump(k, level) \in Seq(Line) /\ Len(Dump(k, level)) = 12
         /\ \A j \in 1..12 :
              Dump(k, level)[j] = [prefix |-> Prefixes[j], stamp |-> [cycle |-> k, clock |-> level]]
<1>1. Len(Prefixes) = 12 /\ DOMAIN Prefixes = 1..12
  BY DEF Prefixes
<1>2. [cycle |-> k, clock |-> level] \in Stamp
  BY DEF Stamp
<1>3. Dump(k, level) \in [1..12 -> Line]
  BY <1>1, <1>2 DEF Dump, Line
<1>4. Dump(k, level) \in Seq(Line) /\ Len(Dump(k, level)) = 12
  <2> DEFINE d == Dump(k, level)
  <2>1. d \in [1..12 -> Line] /\ 12 \in Nat
    BY <1>3
  <2> HIDE DEF d
  <2>2. d \in Seq(Line)
    BY <2>1, SeqDef
  <2>3. Len(d) = 12
    BY <2>1, <2>2, LenProperties
  <2> QED BY <2>2, <2>3 DEF d
<1> QED BY <1>1, <1>4 DEF Dump

\* The line break is the last of a dump, and it only.
LEMMA BreakIsLast ==
  ASSUME NEW j \in 1..12
  PROVE  Prefixes[j] = "break" <=> j = 12
BY DEF Prefixes

\* Every table is brought by one of the lines before break, and break brings none.
LEMMA EveryTable ==
  ASSUME NEW t \in Tables
  PROVE  \E j \in 1..11 : t \in TablesOf(Prefixes[j])
<1>1. /\ TablesOf("f") = {"if"} /\ TablesOf("d") = {"id"}
      /\ TablesOf("o") = {"rob"} /\ TablesOf("s") = {"rs"}
      /\ TablesOf("ra") = {"rat.prn", "rrat.prn"}
      /\ TablesOf("r") = {"rat.freelist", "rat.validlist", "rrat.freelist", "rrat.validlist"}
      /\ TablesOf("p") = {"prf"} /\ TablesOf("q") = {"sq.ends"}
      /\ TablesOf("ql") = {"lq"} /\ TablesOf("qs") = {"sq"}
  BY DEF TablesOf
<1>2. /\ Prefixes[2] = "f" /\ Prefixes[3] = "d" /\ Prefixes[4] = "o" /\ Prefixes[5] = "s"
      /\ Prefixes[6] = "ra" /\ Prefixes[7] = "r" /\ Prefixes[8] = "p" /\ Prefixes[9] = "q"
      /\ Prefixes[10] = "ql" /\ Prefixes[11] = "qs"
  BY DEF Prefixes
<1>3. CASE t \in {"if", "id", "rob", "rs"}
  <2>1. /\ 2 \in 1..11 /\ 3 \in 1..11 /\ 4 \in 1..11 /\ 5 \in 1..11
    OBVIOUS
  <2> QED BY <1>1, <1>2, <1>3, <2>1
<1>4. CASE t \in {"rat.prn", "rrat.prn"}
  <2>1. 6 \in 1..11 /\ t \in TablesOf(Prefixes[6])
    BY <1>1, <1>2, <1>4
  <2> QED BY <2>1
<1>5. CASE t \in {"rat.freelist", "rat.validlist", "rrat.freelist", "rrat.validlist"}
  <2>1. 7 \in 1..11 /\ t \in TablesOf(Prefixes[7])
    BY <1>1, <1>2, <1>5
  <2> QED BY <2>1
<1>6. CASE t \in {"prf", "sq.ends", "lq", "sq"}
  <2>1. /\ 8 \in 1..11 /\ 9 \in 1..11 /\ 10 \in 1..11 /\ 11 \in 1..11
    OBVIOUS
  <2> QED BY <1>1, <1>2, <1>6, <2>1
<1> QED BY <1>3, <1>4, <1>5, <1>6 DEF Tables

\* What is left of the pipe when a line is read.
LEMMA TailIs ==
  ASSUME NEW S, NEW s \in Seq(S), s # <<>>
  PROVE  /\ Head(s) = s[1] /\ Head(s) \in S
         /\ Tail(s) \in Seq(S) /\ Len(Tail(s)) = Len(s) - 1
         /\ \A j \in 1..(Len(s) - 1) : Tail(s)[j] = s[j + 1]
BY HeadTailProperties

\* The line read next is the line of the dump that its number says.
LEMMA NextLine ==
  ASSUME RegistersOK, Unread
  PROVE  /\ Next_line \in 1..12 /\ Len(out) \in 1..12
         /\ Head(out) = [prefix |-> Prefixes[Next_line],
                         stamp  |-> [cycle |-> clock_count, clock |-> clock]]
         /\ Head(out).prefix = "break" <=> Next_line = 12
<1>1. out \in Seq(Line) /\ Len(out) \in 1..12 /\ out # <<>>
  <2>1. out \in Seq(Line) /\ Len(out) <= 12 /\ out # <<>>
    BY DEF RegistersOK, Unread
  <2>2. Len(out) \in Nat /\ Len(out) # 0
    BY <2>1, EmptySeq
  <2> DEFINE n == Len(out)
  <2>3. n \in Nat /\ n # 0 /\ n <= 12
    BY <2>1, <2>2
  <2> HIDE DEF n
  <2>4. n \in 1..12
    BY <2>3
  <2> QED BY <2>1, <2>4 DEF n
<1>2. Head(out) = out[1] /\ 1 \in 1..Len(out)
  BY <1>1, TailIs
<1>3. Next_line \in 1..12 /\ Next_line - 1 + 1 = Next_line
  <2> DEFINE n == Len(out)
  <2>1. n \in 1..12
    BY <1>1
  <2> HIDE DEF n
  <2>2. 13 - n \in 1..12 /\ 13 - n - 1 + 1 = 13 - n
    BY <2>1
  <2> QED BY <2>2 DEF Next_line, n
<1>4. out[1] = Dump(clock_count, clock)[Next_line]
  BY <1>2, <1>3 DEF Unread
<1>5. out[1] = [prefix |-> Prefixes[Next_line], stamp |-> [cycle |-> clock_count, clock |-> clock]]
  BY <1>3, <1>4, DumpIs, ZenonT(60) DEF RegistersOK
<1> QED BY <1>1, <1>2, <1>3, <1>5, BreakIsLast

\* Reading a line of a dump that is not its last.
LEMMA ReadOn ==
  ASSUME RegistersOK, Unread, out' = Tail(out), UNCHANGED <<clock, clock_count>>,
         child' = "reading", Next_line # 12
  PROVE  /\ Unread' /\ Next_line' = Next_line + 1 /\ out' # <<>>
         /\ out' \in Seq(Line) /\ Len(out') \in 1..12
<1> DEFINE n == Len(out)
<1>1. out \in Seq(Line) /\ out # <<>>
  BY DEF RegistersOK, Unread
<1>2. n \in 1..12 /\ 13 - n # 12
  BY NextLine DEF Next_line
<1>3. /\ out' \in Seq(Line) /\ Len(out') = n - 1
      /\ \A j \in 1..(n - 1) : out'[j] = out[j + 1]
  BY <1>1, TailIs
<1>4. \A j \in 1..n : out[j] = Dump(clock_count, clock)[13 - n - 1 + j]
  BY DEF Unread, Next_line
<1> HIDE DEF n
<1>5. n - 1 \in 1..12 /\ 13 - (n - 1) = 13 - n + 1
  BY <1>2
<1>6. \A j \in 1..(n - 1) : out'[j] = Dump(clock_count, clock)[13 - (n - 1) - 1 + j]
  <2> SUFFICES ASSUME NEW j \in 1..(n - 1)
               PROVE  out'[j] = Dump(clock_count, clock)[13 - (n - 1) - 1 + j]
    OBVIOUS
  <2>1. j + 1 \in 1..n /\ 13 - n - 1 + (j + 1) = 13 - (n - 1) - 1 + j
    BY <1>2
  <2> QED BY <2>1, <1>3, <1>4
<1>7. out' # <<>>
  BY <1>3, <1>5, EmptySeq
<1>8. Next_line' = Next_line + 1
  BY <1>3, <1>5 DEF Next_line, n
<1>9. Unread'
  <2>1. \A j \in 1..Len(out') : out'[j] = Dump(clock_count', clock')[Next_line' - 1 + j]
    BY <1>3, <1>6 DEF Next_line
  <2> QED BY <1>7, <2>1 DEF Unread
<1> QED BY <1>3, <1>5, <1>7, <1>8, <1>9

\* The slots of the last cycles are not the slot behind.
LEMMA SlotsApart ==
  ASSUME NEW b \in Nat
  PROVE  /\ \A c \in 1..b : b - c <= NUM_HISTORY - 2 =>
              c % NUM_HISTORY # (b + 1) % NUM_HISTORY /\ c % NUM_HISTORY \in Slots
         /\ (b + 1) % NUM_HISTORY \in Slots
         /\ history_num = b % NUM_HISTORY => WriteSlot = (b + 1) % NUM_HISTORY
<1>1. NUM_HISTORY \in Nat \ {0} /\ NUM_HISTORY \in Int
  BY HistoryAssumption DEF HistoryAssumption
<1>2. ASSUME NEW c \in 1..b, b - c <= NUM_HISTORY - 2
      PROVE  c % NUM_HISTORY # (b + 1) % NUM_HISTORY
  <2>1. c \in Int /\ b + 1 \in Int /\ c < b + 1 /\ b + 1 - c < NUM_HISTORY
    BY <1>1, <1>2
  <2> DEFINE d == b + 1
  <2> HIDE DEF d
  <2>2. d \in Int /\ c < d /\ d - c < NUM_HISTORY
    BY <2>1 DEF d
  <2>3. c % NUM_HISTORY # d % NUM_HISTORY
    BY <1>1, <2>1, <2>2, RemaindersDiffer
  <2> QED BY <2>3 DEF d
<1>3. \A c \in 1..b : c % NUM_HISTORY \in Slots
  BY <1>1, Quotient DEF Slots
<1>4. (b + 1) % NUM_HISTORY \in Slots
  <2>1. b + 1 \in Int
    OBVIOUS
  <2> QED BY <1>1, <2>1, Quotient DEF Slots
<1>5. ASSUME history_num = b % NUM_HISTORY PROVE WriteSlot = (b + 1) % NUM_HISTORY
  <2>1. b \in Int
    OBVIOUS
  <2>2. ((b % NUM_HISTORY) + 1) % NUM_HISTORY = (b + 1) % NUM_HISTORY
    BY <1>1, <2>1, RemainderOfNext
  <2> QED BY <1>5, <2>2 DEF WriteSlot
<1> QED BY <1>2, <1>3, <1>4, <1>5

-----------------------------------------------------------------------------
(* The test bench's steps keep the invariant. *)

\* The pipe is empty while the simulation runs.
LEMMA EdgeKeeps ==
  ASSUME IInv, Edge
  PROVE  IInv'
<1>1. /\ tb = "run" /\ clock' = 1 - clock /\ clock_count' \in {clock_count, clock_count + 1}
      /\ clock_count' = clock_count + 1 => clock' = 1
      /\ clock_count' <= MaxCycle /\ reset' \in BOOLEAN
      /\ UNCHANGED <<resp, child, present_cycle, curr_cycle, history_num, time_wrapped, mode, history>>
  <2>1. clock \in 0..1 /\ clock_count \in 0..MaxCycle /\ reset \in BOOLEAN /\ MaxCycle \in Nat
    BY HistoryAssumption DEF IInv, RegistersOK, HistoryAssumption
  <2> DEFINE level == 1 - clock
             k == IF level = 1 /\ ~reset THEN clock_count + 1 ELSE clock_count
  <2>2. /\ tb = "run" /\ clock' = level /\ clock_count' = k /\ k <= MaxCycle
        /\ reset' \in {reset, FALSE}
        /\ UNCHANGED <<resp, child, present_cycle, curr_cycle, history_num, time_wrapped, mode, history>>
    BY DEF Edge
  <2>3. k \in {clock_count, clock_count + 1} /\ (k = clock_count + 1 => level = 1)
    BY <2>1
  <2> HIDE DEF k
  <2> QED BY <2>1, <2>2, <2>3
<1>2. out = <<>> /\ Silent
  BY <1>1 DEF IInv, Turn
<1>3. /\ clock' \in 0..1 /\ clock_count' \in 0..MaxCycle
      /\ clock_count \in Nat /\ Base' = Base
      /\ child # "exited" => clock_count = Base
  <2>1. clock \in 0..1 /\ clock_count \in 0..MaxCycle /\ MaxCycle \in Nat
    BY HistoryAssumption DEF IInv, RegistersOK, HistoryAssumption
  <2>2. child # "exited" => clock_count = Base
    BY <1>1 DEF IInv, CyclesOK
  <2>3. Base' = Base
    BY <1>1 DEF Base
  <2> QED BY <1>1, <2>1, <2>2, <2>3
<1>4. HistoryOK'
  BY <1>1, <1>3 DEF IInv, HistoryOK
<1>5. CASE Alive
  <2>1. out' = out \o Dump(clock_count', clock') /\ tb' = "wait"
    BY <1>1, <1>5 DEF Edge, Send
  <2>2. /\ Dump(clock_count', clock') \in Seq(Line) /\ Len(Dump(clock_count', clock')) = 12
    BY <1>3, DumpIs
  <2>3. out' = Dump(clock_count', clock')
    BY <1>2, <2>1, <2>2, ConcatEmptySeq
  <2>4. out' \in Seq(Line) /\ Len(out') = 12 /\ out' # <<>> /\ Next_line' = 1
    <3>1. out' # <<>>
      <4>1. Len(out') = 12 /\ Len(<<>>) = 0
        BY <2>2, <2>3
      <4> QED BY <4>1
    <3>2. out' \in Seq(Line) /\ Len(out') = 12
      BY <2>2, <2>3, Zenon
    <3>3. Next_line' = 1
      BY <3>2 DEF Next_line
    <3> QED BY <3>1, <3>2, <3>3
  <2>5. RegistersOK'
    BY <1>1, <1>3, <2>1, <2>4 DEF IInv, RegistersOK
  <2>6. Unread'
    <3>1. \A j \in 1..12 : out'[j] = Dump(clock_count', clock')[1 - 1 + j]
      BY <2>3
    <3> QED BY <2>4, <3>1 DEF Unread
  <2>7. Turn'
    BY <1>1, <1>2, <2>1, <2>6 DEF Turn, Silent
  <2>8. CyclesOK'
    BY <1>1, <1>2, <1>3, <2>1, <2>4 DEF IInv, CyclesOK
  <2>9. PartialOK'
    BY <2>4 DEF PartialOK
  <2> QED BY <1>4, <2>5, <2>7, <2>8, <2>9 DEF IInv
<1>6. CASE ~Alive
  <2>1. out' = out /\ tb' = "killed" /\ child = "exited"
    BY <1>1, <1>6 DEF Edge, Send, Alive
  <2>2. RegistersOK'
    BY <1>1, <1>3, <2>1 DEF IInv, RegistersOK
  <2>3. Turn'
    BY <1>1, <1>2, <2>1 DEF Turn, Silent
  <2> QED BY <1>1, <1>4, <2>1, <2>2, <2>3 DEF IInv, CyclesOK, PartialOK
<1> QED BY <1>5, <1>6

\* The program halts.
LEMMA HaltKeeps ==
  ASSUME IInv, Halt
  PROVE  IInv'
<1> DEFINE lines == <<Text("\n"), Text("DONE\n"), Text("\n")>>
<1>1. /\ tb = "run" /\ Send(lines, "final")
      /\ UNCHANGED <<clock, clock_count, reset, resp, child, present_cycle, curr_cycle, history_num,
                     time_wrapped, mode, history>>
  BY DEF Halt
<1>2. out = <<>> /\ Silent
  BY <1>1 DEF IInv, Turn
<1>3. Base' = Base /\ HistoryOK'
  BY <1>1 DEF IInv, HistoryOK, Base
<1>4. /\ lines \in Seq(Line) /\ Len(lines) = 3
      /\ \A j \in 1..3 : lines[j] \in {Text("\n"), Text("DONE\n")}
  <2>1. Text("\n") \in Line /\ Text("DONE\n") \in Line
    BY DEF Text, Line
  <2> QED BY <2>1
<1>5. CASE Alive
  <2>1. out' = out \o lines /\ tb' = "final"
    BY <1>1, <1>5 DEF Send
  <2> HIDE DEF lines
  <2>2. out' = lines
    BY <1>2, <1>4, <2>1, ConcatEmptySeq
  <2>3. RegistersOK'
    <3>1. out' \in Seq(Line) /\ Len(out') = 3
      BY <1>4, <2>2, Zenon
    <3>2. Len(out') <= 12
      BY <3>1
    <3> QED BY <1>1, <2>1, <3>1, <3>2 DEF IInv, RegistersOK
  <2>4. Turn'
    <3>1. Len(out') = 3 /\ \A j \in 1..Len(out') : out'[j] \in {Text("\n"), Text("DONE\n")}
      BY <1>4, <2>2, Zenon
    <3>2. Len(out') <= 3
      BY <3>1
    <3>3. Silent'
      BY <1>1, <1>2 DEF Silent
    <3> QED BY <2>1, <3>1, <3>2, <3>3 DEF Turn
  <2>5. CyclesOK'
    BY <1>1, <1>2, <1>3, <2>1 DEF IInv, CyclesOK
  <2>6. PartialOK'
    BY <2>1 DEF PartialOK
  <2> QED BY <1>3, <2>3, <2>4, <2>5, <2>6 DEF IInv
<1>6. CASE ~Alive
  <2>1. out' = out /\ tb' = "killed" /\ child = "exited"
    BY <1>1, <1>6 DEF Send, Alive
  <2>2. RegistersOK'
    BY <1>1, <2>1 DEF IInv, RegistersOK
  <2>3. Turn'
    BY <1>1, <1>2, <2>1 DEF Turn, Silent
  <2> QED BY <1>1, <1>3, <2>1, <2>2, <2>3 DEF IInv, CyclesOK, PartialOK
<1> QED BY <1>5, <1>6

\* An answer is read.
LEMMA AnswerKeeps ==
  ASSUME IInv, waitforresponse
  PROVE  IInv'
<1>1. /\ tb \in {"wait", "final"} /\ resp # <<>> /\ resp' = Tail(resp)
      /\ tb' = IF Head(resp) = "n" /\ tb = "wait" THEN "run" ELSE "exited"
      /\ UNCHANGED <<clock, clock_count, reset, out, child, present_cycle, curr_cycle, history_num,
                     time_wrapped, mode, history>>
  BY DEF waitforresponse
<1>2. Base' = Base /\ HistoryOK'
  BY <1>1 DEF IInv, HistoryOK, Base
<1>3. RegistersOK'
  BY <1>1 DEF IInv, RegistersOK
<1>4. CASE tb = "wait" /\ out = <<>> /\ Answered
  <2>1. resp = (IF child = "exited" THEN <<"n", "Z">> ELSE <<"n">>)
    BY <1>4 DEF Answered
  <2>2. Head(resp) = "n" /\ Tail(resp) = IF child = "exited" THEN <<"Z">> ELSE <<>>
    BY <2>1
  <2>3. tb' = "run" /\ out' = <<>> /\ Silent'
    BY <1>1, <1>4, <2>2 DEF Silent
  <2>4. CyclesOK'
    BY <1>1, <1>2, <1>4, <2>3 DEF IInv, CyclesOK
  <2>5. Turn' /\ PartialOK'
    BY <2>3 DEF Turn, PartialOK
  <2> QED BY <1>2, <1>3, <2>4, <2>5 DEF IInv
<1>5. CASE Silent
  <2>1. child = "exited" /\ resp = <<"Z">>
    BY <1>1, <1>5 DEF Silent
  <2>2. Head(resp) = "Z" /\ Tail(resp) = <<>>
    BY <2>1
  <2>3. tb' = "exited" /\ child' = "exited" /\ resp' = <<>>
    BY <1>1, <2>1, <2>2
  <2> QED BY <1>2, <1>3, <2>3 DEF IInv, Turn, CyclesOK, PartialOK
<1> QED BY <1>1, <1>4, <1>5 DEF IInv, Turn

-----------------------------------------------------------------------------
(* The debugger's steps keep the invariant. *)

\* While the debugger reads, a line is of a dump or says that the program halted.
LEMMA WhatIsRead ==
  ASSUME IInv, child = "reading", out # <<>>
  PROVE  /\ Silent /\ resp = <<>> /\ Base = curr_cycle /\ curr_cycle \in Nat
         /\ history_num = curr_cycle % NUM_HISTORY
         /\ \/ tb = "wait" /\ Unread
            \/ /\ tb = "final" /\ clock_count = curr_cycle
               /\ TablesOf(Head(out).prefix) = {} /\ Head(out).prefix \notin {"break", "c"}
               /\ Tail(out) \in Seq(Line) /\ Len(Tail(out)) <= 3
               /\ \A j \in 1..Len(Tail(out)) : Tail(out)[j] \in {Text("\n"), Text("DONE\n")}
<1>1. \/ tb = "wait" /\ Unread /\ Silent
      \/ /\ tb = "final" /\ Len(out) <= 3
         /\ (\A j \in 1..Len(out) : out[j] \in {Text("\n"), Text("DONE\n")}) /\ Silent
  BY DEF IInv, Turn
<1>2. resp = <<>>
  BY <1>1 DEF Silent
<1>3. /\ Base = curr_cycle /\ Base >= 0 /\ history_num = curr_cycle % NUM_HISTORY
      /\ tb # "wait" => clock_count = curr_cycle
  BY DEF IInv, CyclesOK, Base
<1>4. curr_cycle \in Nat
  BY <1>3, HistoryAssumption DEF IInv, RegistersOK, HistoryAssumption
<1>5. ASSUME Len(out) <= 3, \A j \in 1..Len(out) : out[j] \in {Text("\n"), Text("DONE\n")}
      PROVE  /\ TablesOf(Head(out).prefix) = {} /\ Head(out).prefix \notin {"break", "c"}
             /\ Tail(out) \in Seq(Line) /\ Len(Tail(out)) <= 3
             /\ \A j \in 1..Len(Tail(out)) : Tail(out)[j] \in {Text("\n"), Text("DONE\n")}
  <2> DEFINE n == Len(out)
  <2>1. out \in Seq(Line) /\ n \in Nat /\ n # 0
    BY EmptySeq DEF IInv, RegistersOK
  <2>2. /\ Head(out) = out[1] /\ Tail(out) \in Seq(Line) /\ Len(Tail(out)) = n - 1
        /\ \A j \in 1..(n - 1) : Tail(out)[j] = out[j + 1]
    BY <2>1, TailIs
  <2>3. n <= 3 /\ \A j \in 1..n : out[j] \in {Text("\n"), Text("DONE\n")}
    BY <1>5
  <2> HIDE DEF n
  <2>4. \A j \in 1..(n - 1) : Tail(out)[j] \in {Text("\n"), Text("DONE\n")}
    <3> SUFFICES ASSUME NEW j \in 1..(n - 1) PROVE Tail(out)[j] \in {Text("\n"), Text("DONE\n")}
      OBVIOUS
    <3>1. j + 1 \in 1..n
      BY <2>1
    <3> QED BY <3>1, <2>2, <2>3
  <2>5. n - 1 <= 3 /\ 1 \in 1..n
    BY <2>1, <2>3
  <2>6. Head(out).prefix \in {"\n", "DONE\n"}
    BY <2>2, <2>3, <2>5 DEF Text
  <2>7. TablesOf("\n") = {} /\ TablesOf("DONE\n") = {}
    BY DEF TablesOf
  <2> QED BY <2>2, <2>4, <2>5, <2>6, <2>7
<1> QED BY <1>1, <1>2, <1>3, <1>4, <1>5

\* A line is stored in the slot behind.
LEMMA ReadKeeps ==
  ASSUME IInv, processinput
  PROVE  IInv'
<1> DEFINE b == curr_cycle
           w == (b + 1) % NUM_HISTORY
           line == Head(out)
<1>1. /\ child = "reading" /\ out # <<>> /\ line.prefix # "break" /\ out' = Tail(out)
      /\ history' = [history EXCEPT ![WriteSlot] =
                       [t \in Tables |-> IF t \in TablesOf(line.prefix) THEN line.stamp ELSE @[t]]]
      /\ present_cycle' = IF line.prefix = "c" THEN line.stamp.cycle ELSE present_cycle
      /\ UNCHANGED <<tb, clock, clock_count, reset, resp, child, curr_cycle, history_num, time_wrapped, mode>>
  BY DEF processinput
<1>2. /\ Silent /\ Base = b /\ b \in Nat /\ Base' = b /\ Silent'
      /\ history_num = b % NUM_HISTORY /\ history_num' = history_num
  BY <1>1, WhatIsRead DEF Base, Silent
<1>3. WriteSlot = w /\ w \in Slots
  BY <1>2, SlotsApart
<1>4. \A c \in 1..b : b - c <= NUM_HISTORY - 2 => c % NUM_HISTORY # w /\ c % NUM_HISTORY \in Slots
  BY <1>2, SlotsApart
<1>5. /\ history \in [Slots -> [Tables -> Stamp \cup {Unwritten}]]
      /\ out \in Seq(Line) /\ line \in Line /\ line.stamp \in Stamp \cup {Unwritten}
  <2>1. out \in Seq(Line) /\ history \in [Slots -> [Tables -> Stamp \cup {Unwritten}]]
    BY DEF IInv, RegistersOK
  <2>2. line \in Line
    BY <1>1, <2>1, TailIs
  <2> QED BY <2>1, <2>2 DEF Line
<1> HIDE DEF line, w
<1>6. /\ history' \in [Slots -> [Tables -> Stamp \cup {Unwritten}]]
      /\ \A s \in Slots : s # w => history'[s] = history[s]
      /\ \A t \in Tables : history'[w][t] = IF t \in TablesOf(line.prefix) THEN line.stamp ELSE history[w][t]
  BY <1>1, <1>3, <1>5
<1>7. HistoryOK'
  <2>1. ASSUME NEW c \in 1..b, b - c <= NUM_HISTORY - 2, NEW t \in Tables
        PROVE  history'[c % NUM_HISTORY][t] = Posedge(c)
    <3>1. history'[c % NUM_HISTORY] = history[c % NUM_HISTORY]
      BY <1>4, <1>6, <2>1
    <3>2. history[c % NUM_HISTORY][t] = Posedge(c)
      BY <1>1, <1>2, <2>1 DEF IInv, HistoryOK
    <3> QED BY <3>1, <3>2
  <2> QED BY <1>2, <2>1 DEF HistoryOK
<1>8. CASE tb = "wait" /\ Unread
  <2>1. /\ Next_line \in 1..12 /\ Next_line # 12
        /\ line = [prefix |-> Prefixes[Next_line], stamp |-> [cycle |-> clock_count, clock |-> clock]]
    BY <1>1, <1>8, NextLine DEF IInv, line
  <2>2. /\ Unread' /\ Next_line' = Next_line + 1 /\ out' # <<>>
        /\ out' \in Seq(Line) /\ Len(out') \in 1..12
    BY <1>1, <1>8, <2>1, ReadOn DEF IInv
  <2>3. Turn'
    BY <1>1, <1>2, <1>8, <2>2 DEF Turn
  <2>4. present_cycle' = clock_count
    <3>1. CASE Next_line = 1
      BY <1>1, <2>1, <3>1 DEF Prefixes
    <3>2. CASE Next_line # 1
      <4>1. line.prefix # "c"
        BY <2>1, <3>2 DEF Prefixes
      <4>2. Next_line > 1
        BY <2>1, <3>2
      <4>3. present_cycle = clock_count
        BY <1>1, <1>8, <4>2 DEF IInv, CyclesOK
      <4> QED BY <1>1, <4>1, <4>3
    <3> QED BY <3>1, <3>2
  <2>5. RegistersOK'
    <3>1. \A n \in 1..12 : n <= 12
      OBVIOUS
    <3>2. Len(out') <= 12
      BY <2>2, <3>1, Zenon
    <3> QED BY <1>1, <1>6, <2>2, <2>4, <3>2 DEF IInv, RegistersOK
  <2>6. CyclesOK'
    <3>1. Next_line' > 1
      BY <2>1, <2>2
    <3>2. clock_count = b \/ (clock_count = b + 1 /\ clock = 1)
      BY <1>1, <1>2 DEF IInv, CyclesOK
    <3> QED BY <1>1, <1>2, <1>8, <2>2, <2>4, <3>1, <3>2 DEF CyclesOK
  <2>7. PartialOK'
    <3> SUFFICES ASSUME clock_count = b + 1, NEW j \in 1..(Next_line' - 1), NEW t \in TablesOf(Prefixes[j])
                 PROVE  history'[w][t] = Posedge(clock_count)
      BY <1>1 DEF PartialOK, w
    <3>1. clock = 1 /\ line.stamp = Posedge(clock_count)
      <4>1. clock = 1
        BY <1>1, <1>2 DEF IInv, CyclesOK
      <4> QED BY <2>1, <4>1 DEF Posedge
    <3>2. t \in Tables
      <4>1. TablesOf(Prefixes[j]) \subseteq Tables
        BY DEF TablesOf, Tables
      <4> QED BY <4>1
    <3>3. CASE t \in TablesOf(line.prefix)
      BY <1>6, <3>1, <3>2, <3>3
    <3>4. CASE t \notin TablesOf(line.prefix)
      <4>1. j # Next_line
        BY <2>1, <3>4
      <4>2. j \in 1..(Next_line - 1)
        BY <2>1, <2>2, <4>1
      <4>3. history[w][t] = Posedge(clock_count)
        BY <1>1, <1>8, <4>2 DEF IInv, PartialOK, w
      <4> QED BY <1>6, <3>2, <3>4, <4>3
    <3> QED BY <3>3, <3>4
  <2> QED BY <1>7, <2>3, <2>5, <2>6, <2>7 DEF IInv
<1>9. CASE tb = "final"
  <2>1. /\ clock_count = b /\ line.prefix # "c"
        /\ out' \in Seq(Line) /\ Len(out') <= 3
        /\ \A j \in 1..Len(out') : out'[j] \in {Text("\n"), Text("DONE\n")}
    <3>1. /\ clock_count = b /\ line.prefix # "c"
          /\ Tail(out) \in Seq(Line) /\ Len(Tail(out)) <= 3
          /\ \A j \in 1..Len(Tail(out)) : Tail(out)[j] \in {Text("\n"), Text("DONE\n")}
      BY <1>1, <1>9, WhatIsRead DEF line
    <3> QED BY <1>1, <3>1, Zenon
  <2>2. Turn'
    BY <1>1, <1>2, <1>9, <2>1 DEF Turn
  <2>3. present_cycle' = b
    BY <1>1, <1>9, <2>1 DEF IInv, CyclesOK
  <2>4. RegistersOK'
    <3>1. Len(out') \in Nat /\ Len(out') <= 12
      BY <2>1
    <3>2. b \in 0..MaxCycle
      BY <2>1 DEF IInv, RegistersOK
    <3> QED BY <1>1, <1>6, <2>1, <2>3, <3>1, <3>2 DEF IInv, RegistersOK
  <2>5. CyclesOK'
    BY <1>1, <1>2, <1>9, <2>1, <2>3 DEF CyclesOK
  <2> QED BY <1>1, <1>7, <1>9, <2>2, <2>4, <2>5 DEF IInv, PartialOK
<1> QED BY <1>1, <1>8, <1>9, WhatIsRead

\* The line break: what was read becomes the present cycle.
LEMMA BreakKeeps ==
  ASSUME IInv, Break
  PROVE  IInv'
<1> DEFINE b == curr_cycle
           p == present_cycle
<1>1. /\ child = "reading" /\ out # <<>> /\ Head(out).prefix = "break" /\ out' = Tail(out)
      /\ curr_cycle' = p /\ history_num' = p % NUM_HISTORY /\ resp' = Append(resp, "n")
      /\ child' = "input" /\ time_wrapped' = (time_wrapped \/ history_num = NUM_HISTORY - 1)
      /\ UNCHANGED <<tb, clock, clock_count, reset, present_cycle, mode, history>>
  BY DEF Break
<1>2. /\ resp = <<>> /\ Base = b /\ b \in Nat /\ Base' = p
      /\ tb = "wait" /\ Unread
  BY <1>1, WhatIsRead DEF Base
<1>3. Next_line = 12 /\ out \in Seq(Line)
  BY <1>1, <1>2, NextLine DEF IInv, RegistersOK
<1>4. out' = <<>>
  <2>1. Len(out) \in 1..12 /\ 13 - Len(out) = 12
    BY <1>2, <1>3, NextLine DEF IInv, Next_line
  <2>2. Tail(out) \in Seq(Line) /\ Len(Tail(out)) = Len(out) - 1
    BY <1>1, <1>3, TailIs
  <2>3. Len(Tail(out)) = 0
    <3> DEFINE n == Len(out)
               m == Len(Tail(out))
    <3>1. n \in 1..12 /\ 13 - n = 12 /\ m = n - 1
      BY <2>1, <2>2
    <3> HIDE DEF n, m
    <3>2. m = 0
      BY <3>1
    <3> QED BY <3>2 DEF m
  <2> QED BY <1>1, <2>2, <2>3, EmptySeq
<1>5. p = clock_count /\ p \in 0..MaxCycle /\ p \in Nat /\ MaxCycle \in Nat
  BY <1>1, <1>2, <1>3, HistoryAssumption DEF IInv, CyclesOK, RegistersOK, HistoryAssumption
<1>6. p = b \/ (p = b + 1 /\ clock_count = b + 1)
  BY <1>1, <1>2, <1>5 DEF IInv, CyclesOK
<1>7. RegistersOK'
  <2>1. p % NUM_HISTORY \in Slots
    BY <1>5, Quotient, HistoryAssumption DEF Slots, HistoryAssumption
  <2>2. p \in (-MaxBack)..MaxCycle
    BY <1>5, HistoryAssumption DEF HistoryAssumption
  <2>3. out' \in Seq(Line) /\ Len(out') <= 12
    BY <1>4
  <2> QED BY <1>1, <2>1, <2>2, <2>3 DEF IInv, RegistersOK
<1>8. Turn'
  <2>1. resp' = <<"n">>
    BY <1>1, <1>2
  <2> QED BY <1>1, <1>2, <1>4, <2>1 DEF Turn, Answered
<1>9. CyclesOK'
  <2>1. p - p <= MaxBack
    BY <1>5, HistoryAssumption DEF HistoryAssumption
  <2> QED BY <1>1, <1>2, <1>4, <1>5, <2>1 DEF CyclesOK
<1>10. HistoryOK'
  <2> SUFFICES ASSUME NEW c \in 1..p, p - c <= NUM_HISTORY - 2, NEW t \in Tables
               PROVE  history[c % NUM_HISTORY][t] = Posedge(c)
    BY <1>1, <1>2 DEF HistoryOK
  <2>1. CASE c \in 1..b
    <3>1. b - c <= NUM_HISTORY - 2
      BY <1>2, <1>5, <1>6, <2>1, HistoryAssumption DEF HistoryAssumption
    <3> QED BY <1>1, <1>2, <2>1, <3>1 DEF IInv, HistoryOK
  <2>2. CASE c \notin 1..b
    <3>1. c = b + 1 /\ clock_count = b + 1
      BY <1>2, <1>5, <1>6, <2>2
    <3>2. PICK j \in 1..11 : t \in TablesOf(Prefixes[j])
      BY EveryTable
    <3>3. j \in 1..(Next_line - 1)
      BY <1>3
    <3> QED BY <1>1, <1>2, <3>1, <3>2, <3>3 DEF IInv, PartialOK
  <2> QED BY <2>1, <2>2
<1> QED BY <1>1, <1>7, <1>8, <1>9, <1>10 DEF IInv, PartialOK

\* Where the user has the keys.
LEMMA AtTheKeys ==
  ASSUME IInv, child = "input"
  PROVE  /\ Base = present_cycle /\ present_cycle \in 0..MaxCycle /\ curr_cycle \in (-MaxBack)..MaxCycle
         /\ history_num = curr_cycle % NUM_HISTORY /\ history_num \in 0..(NUM_HISTORY - 1)
         /\ curr_cycle <= present_cycle /\ curr_cycle \in Int /\ present_cycle \in Int
         /\ NUM_HISTORY \in Nat \ {0, 1} /\ MaxBack \in Nat /\ MaxCycle \in Nat
<1>1. Base = present_cycle
  BY DEF Base
<1>2. NUM_HISTORY \in Nat \ {0, 1} /\ MaxBack \in Nat /\ MaxCycle \in Nat
  BY HistoryAssumption DEF HistoryAssumption
<1> QED BY <1>1, <1>2 DEF IInv, RegistersOK, CyclesOK, Slots

\* A step of the ring's display keeps the invariant if it stays on the cycle's slot.
LEMMA DisplayKeeps ==
  ASSUME IInv, child = "input", child' = "input",
         curr_cycle' \in (-MaxBack)..MaxCycle, curr_cycle' <= present_cycle,
         present_cycle - curr_cycle' <= MaxBack, history_num' = curr_cycle' % NUM_HISTORY,
         time_wrapped' \in BOOLEAN, mode' \in Modes,
         UNCHANGED <<tb, clock, clock_count, reset, out, resp, present_cycle, history>>
  PROVE  IInv'
<1>1. Base = present_cycle /\ Base' = present_cycle /\ child' = child
  BY DEF Base
<1>2. history_num' \in Slots
  <2>1. curr_cycle' \in Int
    BY HistoryAssumption DEF HistoryAssumption
  <2> QED BY <2>1, Quotient, HistoryAssumption DEF Slots, HistoryAssumption
<1>3. RegistersOK'
  BY <1>1, <1>2 DEF IInv, RegistersOK
<1>4. Turn'
  BY <1>1 DEF IInv, Turn, Unread, Next_line, Silent, Answered
<1>5. CyclesOK'
  BY <1>1 DEF IInv, CyclesOK
<1>6. HistoryOK'
  BY <1>1 DEF IInv, HistoryOK
<1>7. PartialOK'
  BY DEF PartialOK
<1> QED BY <1>3, <1>4, <1>5, <1>6, <1>7 DEF IInv

\* Key n.
LEMMA NextKeeps ==
  ASSUME IInv, KeyNext
  PROVE  IInv'
<1>1. /\ child = "input"
      /\ UNCHANGED <<tb, clock, clock_count, reset, out, resp, present_cycle, mode, history>>
  BY DEF KeyNext
<1>2. CASE present_cycle = curr_cycle
  <2>1. child' = "reading" /\ UNCHANGED <<curr_cycle, history_num, time_wrapped>>
    BY <1>2 DEF KeyNext
  <2>2. Base = present_cycle /\ Base' = present_cycle
    BY <1>1, <1>2, <2>1 DEF Base
  <2>3. tb = "wait" /\ out # <<>> => Next_line = 1
    BY <1>1 DEF IInv, Turn, Unread
  <2>4. Next_line' = Next_line
    BY <1>1 DEF Next_line
  <2>5. RegistersOK'
    BY <1>1, <2>1 DEF IInv, RegistersOK
  <2>6. Turn'
    BY <1>1, <2>1, <2>4 DEF IInv, Turn, Unread, Silent, Answered
  <2>7. CyclesOK'
    BY <1>1, <1>2, <2>1, <2>2, <2>3, <2>4 DEF IInv, CyclesOK
  <2>8. HistoryOK'
    BY <1>1, <2>1, <2>2 DEF IInv, HistoryOK
  <2>9. PartialOK'
    BY <1>1, <2>3, <2>4 DEF PartialOK
  <2> QED BY <2>5, <2>6, <2>7, <2>8, <2>9 DEF IInv
<1>3. CASE present_cycle # curr_cycle
  <2>1. /\ curr_cycle' = curr_cycle + 1 /\ history_num' = (history_num + 1) % NUM_HISTORY
        /\ time_wrapped' \in BOOLEAN /\ child' = child
    BY <1>3 DEF KeyNext, IInv, RegistersOK
  <2>2. history_num' = (curr_cycle + 1) % NUM_HISTORY
    BY <1>1, <2>1, AtTheKeys, RemainderOfNext
  <2>3. /\ curr_cycle + 1 \in (-MaxBack)..MaxCycle /\ curr_cycle + 1 <= present_cycle
        /\ present_cycle - (curr_cycle + 1) <= MaxBack
    <3>1. present_cycle - curr_cycle <= MaxBack
      BY <1>1 DEF IInv, CyclesOK
    <3>2. /\ present_cycle \in 0..MaxCycle /\ curr_cycle \in (-MaxBack)..MaxCycle
          /\ curr_cycle <= present_cycle /\ MaxBack \in Nat /\ MaxCycle \in Nat
      BY <1>1, AtTheKeys
    <3> QED BY <1>3, <3>1, <3>2
  <2>4. mode' \in Modes
    BY <1>1 DEF IInv, RegistersOK
  <2> QED BY <1>1, <2>1, <2>2, <2>3, <2>4, DisplayKeeps
<1> QED BY <1>2, <1>3

\* Key b.
LEMMA BackKeeps ==
  ASSUME IInv, KeyBack
  PROVE  IInv'
<1>1. /\ child = "input" /\ present_cycle - curr_cycle < MaxBack /\ curr_cycle' = curr_cycle - 1
      /\ history_num' = IF history_num # 0 THEN history_num - 1 ELSE NUM_HISTORY - 1
      /\ UNCHANGED <<tb, clock, clock_count, reset, out, resp, child, present_cycle, time_wrapped, mode, history>>
  BY DEF KeyBack
<1>2. /\ present_cycle \in 0..MaxCycle /\ curr_cycle \in (-MaxBack)..MaxCycle
      /\ curr_cycle <= present_cycle /\ MaxBack \in Nat /\ MaxCycle \in Nat
      /\ history_num = curr_cycle % NUM_HISTORY /\ NUM_HISTORY \in Nat \ {0}
  BY <1>1, AtTheKeys
<1>3. /\ curr_cycle - 1 \in (-MaxBack)..MaxCycle /\ curr_cycle - 1 <= present_cycle
      /\ present_cycle - (curr_cycle - 1) <= MaxBack
  BY <1>1, <1>2
<1>4. (curr_cycle - 1) % NUM_HISTORY = IF history_num # 0 THEN history_num - 1 ELSE NUM_HISTORY - 1
  <2> DEFINE x == curr_cycle - 1
             r == x % NUM_HISTORY
  <2>1. x \in Int /\ x + 1 = curr_cycle
    BY <1>2
  <2>2. r \in 0..(NUM_HISTORY - 1)
    BY <1>2, <2>1, Quotient
  <2>3. (x + 1) % NUM_HISTORY = IF r = NUM_HISTORY - 1 THEN 0 ELSE r + 1
    BY <1>2, <2>1, RemainderNext
  <2> HIDE DEF r
  <2>4. history_num = IF r = NUM_HISTORY - 1 THEN 0 ELSE r + 1
    BY <1>2, <2>1, <2>3
  <2>5. r = IF history_num # 0 THEN history_num - 1 ELSE NUM_HISTORY - 1
    BY <1>2, <2>2, <2>4
  <2> QED BY <2>5 DEF r
<1>5. time_wrapped' \in BOOLEAN /\ mode' \in Modes
  BY <1>1 DEF IInv, RegistersOK
<1> QED BY <1>1, <1>3, <1>4, <1>5, DisplayKeeps

\* Key q.
LEMMA QuitKeeps ==
  ASSUME IInv, KeyQuit
  PROVE  IInv'
<1>1. /\ child = "input" /\ resp' = Append(resp, "Z") /\ child' = "exited"
      /\ UNCHANGED <<tb, clock, clock_count, reset, out, present_cycle, curr_cycle, history_num,
                     time_wrapped, mode, history>>
  BY DEF KeyQuit
<1>2. Silent => Silent'
  BY <1>1 DEF Silent
<1>3. Answered => Answered'
  <2> SUFFICES ASSUME Answered PROVE resp' = <<"n", "Z">>
    BY <1>1 DEF Answered
  <2>1. resp = <<"n">>
    BY <1>1 DEF Answered
  <2>2. resp' = Append(<<"n">>, "Z")
    BY <1>1, <2>1
  <2> DEFINE s == Append(<<"n">>, "Z")
             S == {"n", "Z"}
  <2>3. <<"n">> \in Seq(S) /\ Len(<<"n">>) = 1 /\ <<"n">>[1] = "n" /\ "Z" \in S
    OBVIOUS
  <2>4. s \in Seq(S) /\ Len(s) = 2 /\ s[1] = "n" /\ s[2] = "Z"
    BY <2>3, AppendProperties
  <2>5. <<"n", "Z">> \in Seq(S) /\ Len(<<"n", "Z">>) = 2
        /\ <<"n", "Z">>[1] = "n" /\ <<"n", "Z">>[2] = "Z"
    OBVIOUS
  <2> HIDE DEF s, S
  <2>6. \A i \in 1..2 : i = 1 \/ i = 2
    OBVIOUS
  <2>7. s = <<"n", "Z">>
    BY <2>4, <2>5, <2>6, SeqEqual
  <2> QED BY <2>2, <2>7 DEF s
<1>4. Unread => Unread'
  BY <1>1 DEF Unread, Next_line
<1>5. Turn'
  BY <1>1, <1>2, <1>3, <1>4 DEF IInv, Turn
<1>6. RegistersOK'
  BY <1>1 DEF IInv, RegistersOK
<1> QED BY <1>1, <1>5, <1>6 DEF IInv, CyclesOK, HistoryOK, PartialOK

\* Keys o, s, r and l.
LEMMA ModeKeeps ==
  ASSUME IInv, KeyMode
  PROVE  IInv'
<1>1. /\ child = "input" /\ child' = child /\ mode' \in Modes
      /\ UNCHANGED <<tb, clock, clock_count, reset, out, resp, present_cycle, curr_cycle,
                     history_num, time_wrapped, history>>
  BY DEF KeyMode
<1>2. /\ curr_cycle \in (-MaxBack)..MaxCycle /\ curr_cycle <= present_cycle
      /\ present_cycle - curr_cycle <= MaxBack /\ history_num = curr_cycle % NUM_HISTORY
      /\ time_wrapped \in BOOLEAN
  BY <1>1 DEF IInv, RegistersOK, CyclesOK
<1> QED BY <1>1, <1>2, DisplayKeeps

\* The invariant holds at the start and after every step.
THEOREM Invariant == Spec => []IInv
<1>1. Init => IInv
  <2> SUFFICES ASSUME Init PROVE IInv
    OBVIOUS
  <2>1. /\ tb = "run" /\ clock \in 0..1 /\ clock_count = 0 /\ reset = TRUE
        /\ out = <<>> /\ resp = <<>> /\ child = "reading" /\ present_cycle = 0 /\ curr_cycle = 0
        /\ history_num = 0 /\ time_wrapped = FALSE /\ mode = "menu"
        /\ history = [s \in Slots |-> [t \in Tables |-> Unwritten]]
    BY DEF Init
  <2>2. /\ NUM_HISTORY \in Nat \ {0, 1} /\ MaxCycle \in Nat /\ MaxBack \in Nat
        /\ 0 \in 0..MaxCycle /\ 0 \in (-MaxBack)..MaxCycle /\ 0 \in Slots
    BY HistoryAssumption DEF HistoryAssumption, Slots
  <2>3. RegistersOK
    <3>1. out \in Seq(Line) /\ Len(out) <= 12
      BY <2>1
    <3>2. mode \in Modes
      BY <2>1 DEF Modes
    <3>3. history \in [Slots -> [Tables -> Stamp \cup {Unwritten}]]
      BY <2>1
    <3> QED BY <2>1, <2>2, <3>1, <3>2, <3>3 DEF RegistersOK
  <2>4. Turn
    BY <2>1 DEF Turn, Silent
  <2>5. CyclesOK
    <3>1. 0 = NUM_HISTORY * 0 + 0 /\ 0 \in 0..(NUM_HISTORY - 1)
      BY <2>2
    <3>2. 0 % NUM_HISTORY = 0
      BY <2>2, <3>1, RemainderIs
    <3> QED BY <2>1, <3>2 DEF CyclesOK, Base
  <2>6. HistoryOK /\ PartialOK
    BY <2>1 DEF HistoryOK, PartialOK, Base
  <2> QED BY <2>3, <2>4, <2>5, <2>6 DEF IInv
<1>2. IInv /\ [Next]_vars => IInv'
  <2> SUFFICES ASSUME IInv, [Next]_vars PROVE IInv'
    OBVIOUS
  <2>1. CASE TestBench
    BY <2>1, EdgeKeeps, HaltKeeps, AnswerKeeps DEF TestBench
  <2>2. CASE Reader
    BY <2>2, ReadKeeps, BreakKeeps DEF Reader
  <2>3. CASE User
    BY <2>3, NextKeeps, BackKeeps, QuitKeeps, ModeKeeps DEF User
  <2>4. CASE UNCHANGED vars
    <3>1. /\ UNCHANGED <<tb, clock, clock_count, reset, out, resp, child, present_cycle,
                         curr_cycle, history_num, time_wrapped, mode, history>>
      BY <2>4 DEF vars
    <3> QED BY <3>1 DEF IInv, RegistersOK, Turn, Unread, Next_line, Silent, Answered, CyclesOK,
                        HistoryOK, PartialOK, Base
  <2> QED BY <2>1, <2>2, <2>3, <2>4 DEF Next
<1> QED BY <1>1, <1>2, PTL DEF Spec

-----------------------------------------------------------------------------
(* What follows from the invariant. *)

\* The invariant gives the types of the globals and of the two pipes.
LEMMA InvTypes ==
  ASSUME IInv
  PROVE  TypeOK
<1>1. Len(out) <= Len(Prefixes) + 3
  <2>1. Len(Prefixes) = 12 /\ Len(out) <= 12 /\ out \in Seq(Line)
    BY DEF Prefixes, IInv, RegistersOK
  <2>2. Len(out) \in Nat
    BY <2>1
  <2> QED BY <2>1, <2>2
<1>2. Len(resp) <= 2
  <2>1. resp \in {<<>>, <<"n">>, <<"Z">>, <<"n", "Z">>}
    BY DEF IInv, Turn, Silent, Answered
  <2>2. Len(<<>>) = 0 /\ Len(<<"n">>) = 1 /\ Len(<<"Z">>) = 1 /\ Len(<<"n", "Z">>) = 2
    OBVIOUS
  <2>3. Len(resp) \in {0, 1, 2}
    BY <2>1, <2>2
  <2>4. \A n \in {0, 1, 2} : n <= 2
    OBVIOUS
  <2> QED BY <2>3, <2>4, Zenon
<1> QED BY <1>1, <1>2 DEF IInv, RegistersOK, TypeOK

\* The line break that is on its way, and the answer that is.
LEMMA InvTurns ==
  ASSUME IInv
  PROVE  OneTurn
<1> SUFFICES ASSUME tb \in {"run", "wait"}
             PROVE  /\ (IF tb = "run" THEN 1 ELSE 0) + Cardinality(Breaks) + Cardinality(Answers) = 1
                    /\ child = "input" => clock_count - present_cycle \in 0..1
  BY DEF OneTurn
<1>1. child = "input" => clock_count - present_cycle \in 0..1
  <2> SUFFICES ASSUME child = "input" PROVE clock_count - present_cycle \in 0..1
    OBVIOUS
  <2>1. clock_count = present_cycle \/ clock_count = present_cycle + 1
    BY AtTheKeys DEF IInv, CyclesOK
  <2>2. present_cycle \in Int
    BY AtTheKeys
  <2> QED BY <2>1, <2>2
<1>2. ASSUME out = <<>> PROVE Cardinality(Breaks) = 0
  <2>1. Breaks = {}
    BY <1>2 DEF Breaks
  <2> QED BY <2>1, FS_EmptySet
<1>3. ASSUME Silent PROVE Cardinality(Answers) = 0
  <2>1. resp \in {<<>>, <<"Z">>}
    BY <1>3 DEF Silent
  <2>2. Answers = {}
    BY <2>1 DEF Answers
  <2> QED BY <2>2, FS_EmptySet
<1>4. ASSUME Answered PROVE Cardinality(Answers) = 1
  <2>1. resp \in {<<"n">>, <<"n", "Z">>}
    BY <1>4 DEF Answered
  <2>2. Answers = {1}
    BY <2>1 DEF Answers
  <2> QED BY <2>2, FS_Singleton
<1>5. ASSUME Unread PROVE Cardinality(Breaks) = 1
  <2> DEFINE n == Len(out)
  <2>1. n \in 1..12 /\ DOMAIN out = 1..n
    <3>1. out \in Seq(Line)
      BY DEF IInv, RegistersOK
    <3> QED BY <1>5, <3>1, NextLine, LenProperties DEF IInv
  <2>2. \A j \in 1..n : out[j] = Dump(clock_count, clock)[13 - n - 1 + j]
    BY <1>5 DEF Unread, Next_line
  <2> HIDE DEF n
  <2>3. ASSUME NEW j \in 1..n PROVE out[j].prefix = "break" <=> j = n
    <3> DEFINE i == 13 - n - 1 + j
    <3>1. i \in 1..12 /\ (i = 12 <=> j = n)
      BY <2>1
    <3>2. out[j] = Dump(clock_count, clock)[i]
      BY <2>2
    <3> HIDE DEF i
    <3>3. clock_count \in 0..MaxCycle /\ clock \in 0..1
      BY DEF IInv, RegistersOK
    <3>4. Dump(clock_count, clock)[i]
            = [prefix |-> Prefixes[i], stamp |-> [cycle |-> clock_count, clock |-> clock]]
      BY <3>1, <3>3, DumpIs
    <3>5. out[j].prefix = Prefixes[i]
      BY <3>2, <3>4
    <3> QED BY <3>1, <3>5, BreakIsLast
  <2>4. n \in 1..n
    BY <2>1
  <2>5. Breaks = {n}
    BY <2>1, <2>3, <2>4 DEF Breaks
  <2> QED BY <2>5, FS_Singleton
<1>6. CASE tb = "run" /\ out = <<>> /\ Silent
  BY <1>1, <1>2, <1>3, <1>6
<1>7. CASE tb = "wait" /\ Unread /\ Silent
  BY <1>1, <1>3, <1>5, <1>7
<1>8. CASE tb = "wait" /\ out = <<>> /\ Answered
  BY <1>1, <1>2, <1>4, <1>8
<1> QED BY <1>6, <1>7, <1>8 DEF IInv, Turn

\* A window shows tables of the slot on display only, and some.
LEMMA InvScreen ==
  ASSUME IInv
  PROVE  ShowsItsCycle
<1> SUFFICES ASSUME child = "input", curr_cycle >= 1, present_cycle - curr_cycle <= NUM_HISTORY - 2
             PROVE  Shown = {Posedge(curr_cycle)}
  BY DEF ShowsItsCycle
<1>1. curr_cycle \in 1..Base /\ Base - curr_cycle <= NUM_HISTORY - 2
      /\ history_num = curr_cycle % NUM_HISTORY
  BY AtTheKeys
<1>2. \A t \in Tables : history[history_num][t] = Posedge(curr_cycle)
  BY <1>1 DEF IInv, HistoryOK
<1>3. redraw \subseteq Tables /\ "if" \in redraw
  BY DEF redraw, draw_if, draw_id, draw_rob, draw_rs, draw_rat_prf, draw_lsq, Tables
<1> QED BY <1>2, <1>3 DEF Shown

\* The globals and the pipes have their types: no pipe holds more than one dump
\* and no more than two answers are unread.
THEOREM TypeCorrect == Spec => []TypeOK
BY Invariant, InvTypes, PTL

\* The simulation and the debugger take turns until the program halts.
THEOREM TakeTurns == Spec => []OneTurn
BY Invariant, InvTurns, PTL

\* The screen shows the cycle that it names, as far back as the ring reaches.
THEOREM ScreenRight == Spec => []ShowsItsCycle
BY Invariant, InvScreen, PTL

-----------------------------------------------------------------------------
(* The codec: fields of words. *)

\* The values of funct3, funct7 and funct12 that the decoders compare with, as sets of bits.
LEMMA BitsValues ==
  /\ Bits(0) = {} /\ Bits(1) = {0} /\ Bits(2) = {1} /\ Bits(3) = {0, 1}
  /\ Bits(4) = {2} /\ Bits(5) = {0, 2} /\ Bits(6) = {1, 2} /\ Bits(7) = {0, 1, 2}
  /\ Bits(32) = {5} /\ Bits(261) = {0, 2, 8}
<1>1. Bits(0) = {} /\ Bits(1) = {0} /\ Bits(2) = {1} /\ Bits(3) = {0, 1}
  BY DEF Bits, Power
<1>2. Bits(4) = {2} /\ Bits(5) = {0, 2} /\ Bits(6) = {1, 2} /\ Bits(7) = {0, 1, 2}
  BY DEF Bits, Power
<1>3. Bits(32) = {5} /\ Bits(261) = {0, 2, 8}
  BY DEF Bits, Power
<1> QED BY <1>1, <1>2, <1>3

\* The opcodes, as sets of bits.
LEMMA OpcodeBits ==
  /\ Bits(55) = {0, 1, 2, 4, 5} /\ Bits(23) = {0, 1, 2, 4} /\ Bits(111) = {0, 1, 2, 3, 5, 6}
  /\ Bits(103) = {0, 1, 2, 5, 6} /\ Bits(99) = {0, 1, 5, 6} /\ Bits(3) = {0, 1} /\ Bits(35) = {0, 1, 5}
  /\ Bits(19) = {0, 1, 4} /\ Bits(51) = {0, 1, 4, 5} /\ Bits(15) = {0, 1, 2, 3} /\ Bits(115) = {0, 1, 4, 5, 6}
<1>1. Bits(55) = {0, 1, 2, 4, 5} /\ Bits(23) = {0, 1, 2, 4} /\ Bits(111) = {0, 1, 2, 3, 5, 6}
  BY DEF Bits, Power
<1>2. Bits(103) = {0, 1, 2, 5, 6} /\ Bits(99) = {0, 1, 5, 6} /\ Bits(3) = {0, 1} /\ Bits(35) = {0, 1, 5}
  BY DEF Bits, Power
<1>3. Bits(19) = {0, 1, 4} /\ Bits(51) = {0, 1, 4, 5} /\ Bits(15) = {0, 1, 2, 3} /\ Bits(115) = {0, 1, 4, 5, 6}
  BY DEF Bits, Power
<1> QED BY <1>1, <1>2, <1>3

\* A field of three bits has a number below 8.
LEMMA NumRange == \A w : Num(w) \in 0..7
BY DEF Num

\* Fields of three bits are equal when their bits are.
LEMMA ThreeBits == ASSUME NEW f \in SUBSET (0..2), NEW g \in SUBSET (0..2),
                          0 \in f <=> 0 \in g, 1 \in f <=> 1 \in g, 2 \in f <=> 2 \in g
                   PROVE  f = g
<1>1. \A b \in 0..2 : b = 0 \/ b = 1 \/ b = 2
  OBVIOUS
<1>2. \A b \in 0..2 : b \in f <=> b \in g
  BY <1>1, Zenon
<1>3. f \subseteq g /\ g \subseteq f
  BY <1>2, Zenon
<1> QED BY <1>3, Zenon

\* A field of three bits has the number whose bits it is.
LEMMA NumBits == ASSUME NEW f \in SUBSET (0..2), NEW n \in 0..7
                 PROVE  Num(f) = n <=> f = Bits(n)
<1>1. n = 0 \/ n = 1 \/ n = 2 \/ n = 3 \/ n = 4 \/ n = 5 \/ n = 6 \/ n = 7
  OBVIOUS
<1>2. Bits(n) \in SUBSET (0..2) /\ Num(Bits(n)) = n
  BY <1>1, BitsValues DEF Num
<1>3. ASSUME Num(f) = n PROVE f = Bits(n)
  <2> DEFINE g == Bits(n)
  <2>1. Num(f) = Num(g) /\ g \in SUBSET (0..2)
    BY <1>2, <1>3
  <2> HIDE DEF g
  <2>2. /\ 0 \in f <=> 0 \in g
        /\ 1 \in f <=> 1 \in g
        /\ 2 \in f <=> 2 \in g
    BY <2>1 DEF Num
  <2>3. f = g
    BY <2>1, <2>2, ThreeBits
  <2> QED BY <2>3 DEF g
<1> QED BY <1>2, <1>3

\* An opcode is taken from a word bit by bit.
LEMMA OpcodeIs == ASSUME NEW w, NEW d \in SUBSET (0..6)
               PROVE  Field(w, 0, 7) = d <=> \A b \in 0..6 : b \in w <=> b \in d
<1>1. \A b : b \in Field(w, 0, 7) <=> b \in 0..6 /\ b \in w
  BY DEF Field
<1>2. ASSUME \A b \in 0..6 : b \in w <=> b \in d PROVE \A b : b \in Field(w, 0, 7) <=> b \in d
  BY <1>1, <1>2, Zenon
<1>3. ASSUME \A b : b \in Field(w, 0, 7) <=> b \in d PROVE Field(w, 0, 7) = d
  BY <1>3, Zenon
<1> QED BY <1>1, <1>2, <1>3, Zenon

\* So is funct3.
LEMMA Funct3Is == ASSUME NEW w, NEW d \in SUBSET (0..2)
               PROVE  Field(w, 12, 3) = d <=> \A b \in 0..2 : b + 12 \in w <=> b \in d
<1>1. \A b : b \in Field(w, 12, 3) <=> b \in 0..2 /\ b + 12 \in w
  BY DEF Field
<1>2. ASSUME \A b \in 0..2 : b + 12 \in w <=> b \in d PROVE \A b : b \in Field(w, 12, 3) <=> b \in d
  BY <1>1, <1>2, Zenon
<1>3. ASSUME \A b : b \in Field(w, 12, 3) <=> b \in d PROVE Field(w, 12, 3) = d
  BY <1>3, Zenon
<1> QED BY <1>1, <1>2, <1>3, Zenon

\* So is funct7.
LEMMA Funct7Is == ASSUME NEW w, NEW d \in SUBSET (0..6)
               PROVE  Field(w, 25, 7) = d <=> \A b \in 0..6 : b + 25 \in w <=> b \in d
<1>1. \A b : b \in Field(w, 25, 7) <=> b \in 0..6 /\ b + 25 \in w
  BY DEF Field
<1>2. ASSUME \A b \in 0..6 : b + 25 \in w <=> b \in d PROVE \A b : b \in Field(w, 25, 7) <=> b \in d
  BY <1>1, <1>2, Zenon
<1>3. ASSUME \A b : b \in Field(w, 25, 7) <=> b \in d PROVE Field(w, 25, 7) = d
  BY <1>3, Zenon
<1> QED BY <1>1, <1>2, <1>3, Zenon

\* So is the number of a register.
LEMMA RegisterIs == ASSUME NEW w, NEW lo \in Nat, NEW d \in SUBSET (0..4)
                    PROVE  Field(w, lo, 5) = d <=> \A b \in 0..4 : b + lo \in w <=> b \in d
<1>1. \A b : b \in Field(w, lo, 5) <=> b \in 0..4 /\ b + lo \in w
  BY DEF Field
<1>2. ASSUME \A b \in 0..4 : b + lo \in w <=> b \in d PROVE \A b : b \in Field(w, lo, 5) <=> b \in d
  BY <1>1, <1>2, Zenon
<1>3. ASSUME \A b : b \in Field(w, lo, 5) <=> b \in d PROVE Field(w, lo, 5) = d
  BY <1>3, Zenon
<1> QED BY <1>1, <1>2, <1>3, Zenon

\* So is funct12.
LEMMA Funct12Is == ASSUME NEW w, NEW d \in SUBSET (0..11)
                   PROVE  Field(w, 20, 12) = d <=> \A b \in 0..11 : b + 20 \in w <=> b \in d
<1>1. \A b : b \in Field(w, 20, 12) <=> b \in 0..11 /\ b + 20 \in w
  BY DEF Field
<1>2. ASSUME \A b \in 0..11 : b + 20 \in w <=> b \in d PROVE \A b : b \in Field(w, 20, 12) <=> b \in d
  BY <1>1, <1>2, Zenon
<1>3. ASSUME \A b : b \in Field(w, 20, 12) <=> b \in d PROVE Field(w, 20, 12) = d
  BY <1>3, Zenon
<1> QED BY <1>1, <1>2, <1>3, Zenon

\* A pattern over the opcode matches a word that has it.
LEMMA UMatch == ASSUME NEW w \in Word, NEW c \in SUBSET (0..6)
                PROVE  w \cap 0..6 = c <=> Field(w, 0, 7) = c
BY OpcodeIs

\* A pattern over the opcode and funct3 matches a word that has both.
LEMMA IMatch == ASSUME NEW w \in Word, NEW c \in SUBSET (0..6), NEW d \in SUBSET (0..2)
                PROVE  w \cap (0..6 \cup 12..14) = c \cup Shl(d, 12) <=> Field(w, 0, 7) = c /\ Field(w, 12, 3) = d
<1> DEFINE mask == 0..6 \cup 12..14
           value == c \cup Shl(d, 12)
<1>1. Field(w, 0, 7) = c <=> \A b \in 0..6 : b \in w <=> b \in c
  BY OpcodeIs, Zenon
<1>2. Field(w, 12, 3) = d <=> \A b \in 0..2 : b + 12 \in w <=> b \in d
  BY Funct3Is, Zenon
<1>3. \A b : b \in value <=> b \in c \/ (b \in 12..14 /\ b - 12 \in d)
  BY DEF Shl
<1>4. ASSUME w \cap mask = value PROVE Field(w, 0, 7) = c /\ Field(w, 12, 3) = d
  <2>1. ASSUME NEW b \in 0..6 PROVE b \in w <=> b \in c
    BY <1>3, <1>4
  <2>2. ASSUME NEW b \in 0..2 PROVE b + 12 \in w <=> b \in d
    BY <1>3, <1>4
  <2> QED BY <2>1, <2>2, <1>1, <1>2
<1>5. ASSUME Field(w, 0, 7) = c, Field(w, 12, 3) = d PROVE w \cap mask = value
  <2>1. ASSUME NEW b \in w \cap mask PROVE b \in value
    <3>1. CASE b \in 0..6
      BY <3>1, <1>5, <1>1, <1>3
    <3>2. CASE b \in 12..14
      <4>1. b - 12 \in 0..2 /\ b = (b - 12) + 12
        BY <3>2
      <4> QED BY <4>1, <3>2, <1>5, <1>2, <1>3
    <3> QED BY <3>1, <3>2
  <2>2. ASSUME NEW b \in value PROVE b \in w \cap mask
    <3>1. CASE b \in c
      BY <3>1, <1>5, <1>1
    <3>2. CASE b \in 12..14 /\ b - 12 \in d
      <4>1. b - 12 \in 0..2 /\ b = (b - 12) + 12
        BY <3>2
      <4> QED BY <4>1, <3>2, <1>5, <1>2
    <3> QED BY <3>1, <3>2, <1>3
  <2> QED BY <2>1, <2>2
<1> QED BY <1>4, <1>5

\* A pattern over the opcode, funct3 and funct7 matches a word that has all three.
LEMMA RMatch == ASSUME NEW w \in Word, NEW c \in SUBSET (0..6), NEW d \in SUBSET (0..2), NEW e \in SUBSET (0..6)
                PROVE  w \cap (0..6 \cup 12..14 \cup 25..31) = c \cup Shl(d, 12) \cup Shl(e, 25)
                         <=> Field(w, 0, 7) = c /\ Field(w, 12, 3) = d /\ Field(w, 25, 7) = e
<1> DEFINE mask == 0..6 \cup 12..14 \cup 25..31
           value == c \cup Shl(d, 12) \cup Shl(e, 25)
<1>1. Field(w, 0, 7) = c <=> \A b \in 0..6 : b \in w <=> b \in c
  BY OpcodeIs, Zenon
<1>2. Field(w, 12, 3) = d <=> \A b \in 0..2 : b + 12 \in w <=> b \in d
  BY Funct3Is, Zenon
<1>3. Field(w, 25, 7) = e <=> \A b \in 0..6 : b + 25 \in w <=> b \in e
  BY Funct7Is, Zenon
<1>4. \A b : b \in value <=> b \in c \/ (b \in 12..14 /\ b - 12 \in d) \/ (b \in 25..31 /\ b - 25 \in e)
  BY DEF Shl
<1>5. ASSUME w \cap mask = value PROVE Field(w, 0, 7) = c /\ Field(w, 12, 3) = d /\ Field(w, 25, 7) = e
  <2>1. ASSUME NEW b \in 0..6 PROVE b \in w <=> b \in c
    BY <1>4, <1>5
  <2>2. ASSUME NEW b \in 0..2 PROVE b + 12 \in w <=> b \in d
    BY <1>4, <1>5
  <2>3. ASSUME NEW b \in 0..6 PROVE b + 25 \in w <=> b \in e
    BY <1>4, <1>5
  <2> QED BY <2>1, <2>2, <2>3, <1>1, <1>2, <1>3
<1>6. ASSUME Field(w, 0, 7) = c, Field(w, 12, 3) = d, Field(w, 25, 7) = e PROVE w \cap mask = value
  <2>1. ASSUME NEW b \in w \cap mask PROVE b \in value
    <3>1. CASE b \in 0..6
      BY <3>1, <1>6, <1>1, <1>4
    <3>2. CASE b \in 12..14
      <4>1. b - 12 \in 0..2 /\ b = (b - 12) + 12
        BY <3>2
      <4> QED BY <4>1, <3>2, <1>6, <1>2, <1>4
    <3>3. CASE b \in 25..31
      <4>1. b - 25 \in 0..6 /\ b = (b - 25) + 25
        BY <3>3
      <4> QED BY <4>1, <3>3, <1>6, <1>3, <1>4
    <3> QED BY <3>1, <3>2, <3>3
  <2>2. ASSUME NEW b \in value PROVE b \in w \cap mask
    <3>1. CASE b \in c
      BY <3>1, <1>6, <1>1
    <3>2. CASE b \in 12..14 /\ b - 12 \in d
      <4>1. b - 12 \in 0..2 /\ b = (b - 12) + 12
        BY <3>2
      <4> QED BY <4>1, <3>2, <1>6, <1>2
    <3>3. CASE b \in 25..31 /\ b - 25 \in e
      <4>1. b - 25 \in 0..6 /\ b = (b - 25) + 25
        BY <3>3
      <4> QED BY <4>1, <3>3, <1>6, <1>3
    <3> QED BY <3>1, <3>2, <3>3, <1>4
  <2> QED BY <2>1, <2>2
<1> QED BY <1>5, <1>6

\* The opcodes, and the values of funct7, that the patterns have.
Codes == {55, 23, 111, 103, 99, 3, 35, 19, 51, 15, 115}
Funct7s == {0, 1, 32}

\* Opcodes have seven bits.
LEMMA OpcodeType == \A op \in Codes : Bits(op) \in SUBSET (0..6)
BY OpcodeBits DEF Codes

\* Numbers below 8 have three.
LEMMA Funct3Type == \A f3 \in 0..7 : Bits(f3) \in SUBSET (0..2)
<1>1. \A n \in 0..7 : n = 0 \/ n = 1 \/ n = 2 \/ n = 3 \/ n = 4 \/ n = 5 \/ n = 6 \/ n = 7
  OBVIOUS
<1> QED BY <1>1, BitsValues

\* A casez pattern matches a word.
Matches(w, p) == w \cap p.mask = p.value

\* Which words the pattern of an opcode matches.
LEMMA UPattern == ASSUME NEW w \in Word, NEW op \in Codes
                  PROVE  Matches(w, Utype(op)) <=> Field(w, 0, 7) = Bits(op)
<1>1. Utype(op).mask = 0..6 /\ Utype(op).value = Bits(op)
  BY DEF Utype
<1> QED BY <1>1, OpcodeType, UMatch DEF Matches

\* Which words the pattern of an opcode and funct3 matches.
LEMMA IPattern == ASSUME NEW w \in Word, NEW op \in Codes, NEW f3 \in 0..7
                  PROVE  Matches(w, Itype(op, f3))
                           <=> Field(w, 0, 7) = Bits(op) /\ Field(w, 12, 3) = Bits(f3)
<1>1. Itype(op, f3).mask = 0..6 \cup 12..14 /\ Itype(op, f3).value = Bits(op) \cup Shl(Bits(f3), 12)
  BY DEF Itype
<1> QED BY <1>1, OpcodeType, Funct3Type, IMatch DEF Matches

\* Which words the pattern of an opcode, funct3 and funct7 matches.
LEMMA RPattern == ASSUME NEW w \in Word, NEW op \in Codes, NEW f3 \in 0..7,
                         NEW f7 \in Funct7s
                  PROVE  Matches(w, Rtype(op, f3, f7))
                           <=> Field(w, 0, 7) = Bits(op) /\ Field(w, 12, 3) = Bits(f3) /\ Field(w, 25, 7) = Bits(f7)
<1> DEFINE c == Bits(op)
           d == Bits(f3)
           e == Bits(f7)
<1>1. c \in SUBSET (0..6) /\ d \in SUBSET (0..2) /\ e \in SUBSET (0..6)
  BY OpcodeType, Funct3Type, BitsValues DEF Funct7s
<1>2. /\ Rtype(op, f3, f7).mask = 0..6 \cup 12..14 \cup 25..31
      /\ Rtype(op, f3, f7).value = c \cup Shl(d, 12) \cup Shl(e, 25)
  BY DEF Rtype
<1> HIDE DEF c, d, e
<1>3. w \cap (0..6 \cup 12..14 \cup 25..31) = c \cup Shl(d, 12) \cup Shl(e, 25)
        <=> Field(w, 0, 7) = c /\ Field(w, 12, 3) = d /\ Field(w, 25, 7) = e
  BY <1>1, RMatch
<1>4. Matches(w, Rtype(op, f3, f7))
        <=> Field(w, 0, 7) = c /\ Field(w, 12, 3) = d /\ Field(w, 25, 7) = e
  BY <1>2, <1>3, Zenon DEF Matches
<1> QED BY <1>4 DEF c, d, e

\* The bits of different constants are different.
LEMMA Distinct ==
  /\ \A a, b \in Codes : Bits(a) = Bits(b) => a = b
  /\ \A a, b \in {0, 1, 32, 261} : Bits(a) = Bits(b) => a = b
  /\ \A a, b \in 0..7 : Bits(a) = Bits(b) => a = b
<1>1. ASSUME NEW a \in Codes,
             NEW b \in Codes, Bits(a) = Bits(b) PROVE a = b
  <2>1. \A i \in 0..6 : i \in Bits(a) <=> i \in Bits(b)
    BY <1>1
  <2>2. /\ 2 \in Bits(a) <=> a \in {55, 23, 111, 103, 15}
        /\ 3 \in Bits(a) <=> a \in {111, 15}
        /\ 4 \in Bits(a) <=> a \in {55, 23, 19, 51, 115}
        /\ 5 \in Bits(a) <=> a \in {55, 111, 103, 99, 35, 51, 115}
        /\ 6 \in Bits(a) <=> a \in {111, 103, 99, 115}
    BY OpcodeBits DEF Codes
  <2>3. /\ 2 \in Bits(b) <=> b \in {55, 23, 111, 103, 15}
        /\ 3 \in Bits(b) <=> b \in {111, 15}
        /\ 4 \in Bits(b) <=> b \in {55, 23, 19, 51, 115}
        /\ 5 \in Bits(b) <=> b \in {55, 111, 103, 99, 35, 51, 115}
        /\ 6 \in Bits(b) <=> b \in {111, 103, 99, 115}
    BY OpcodeBits DEF Codes
  <2> QED BY <2>1, <2>2, <2>3 DEF Codes
<1>2. \A a, b \in {0, 1, 32, 261} : Bits(a) = Bits(b) => a = b
  BY BitsValues
<1>3. ASSUME NEW a \in 0..7, NEW b \in 0..7, Bits(a) = Bits(b) PROVE a = b
  <2>1. \A n \in 0..7 : n = 0 \/ n = 1 \/ n = 2 \/ n = 3 \/ n = 4 \/ n = 5 \/ n = 6 \/ n = 7
    OBVIOUS
  <2>2. \A n \in 0..7 : Bits(n) \in SUBSET (0..2)
    BY <2>1, BitsValues
  <2> QED BY <1>3, <2>2, NumBits
<1> QED BY <1>1, <1>2, <1>3

\* The table that an opcode sends the name to.
LEMMA NameOf == ASSUME NEW f3, NEW f7, NEW f12
                PROVE  /\ Name(Bits(55), f3, f7, f12) = "lui"
                       /\ Name(Bits(23), f3, f7, f12) = "auipc"
                       /\ Name(Bits(111), f3, f7, f12) = "jal"
                       /\ Name(Bits(103), f3, f7, f12) = "jalr"
                       /\ Name(Bits(99), f3, f7, f12) = Branches[Num(f3) + 1]
                       /\ Name(Bits(3), f3, f7, f12) = Loads[Num(f3) + 1]
                       /\ Name(Bits(35), f3, f7, f12) = Stores[Num(f3) + 1]
                       /\ Name(Bits(19), f3, f7, f12) = Immediates(f3, f7)
                       /\ Name(Bits(51), f3, f7, f12) = Arithmetic(f3, f7)
                       /\ Name(Bits(15), f3, f7, f12) = "fence"
                       /\ Name(Bits(115), f3, f7, f12) = System(f3, f12)
<1>1. \A a, b \in Codes : Bits(a) = Bits(b) <=> a = b
  BY Distinct, Zenon
<1>2. /\ Opcodes.lui = Bits(55) /\ Opcodes.auipc = Bits(23) /\ Opcodes.jal = Bits(111) /\ Opcodes.jalr = Bits(103)
      /\ Opcodes.branch = Bits(99) /\ Opcodes.load = Bits(3) /\ Opcodes.store = Bits(35)
      /\ Opcodes.immediate = Bits(19) /\ Opcodes.arithmetic = Bits(51) /\ Opcodes.fence = Bits(15)
      /\ Opcodes.system = Bits(115)
  BY DEF Opcodes
<1> QED BY <1>1, <1>2 DEF Name, Codes

\* The instructions that both name, by their fields.
Means(n, opcode, f3, f7) ==
  \/ n = "lui" /\ opcode = Bits(55)
  \/ n = "auipc" /\ opcode = Bits(23)
  \/ n = "jal" /\ opcode = Bits(111)
  \/ n \in DOMAIN SelectBranch /\ opcode = Bits(99) /\ f3 = Bits(SelectBranch[n])
  \/ n \in DOMAIN SelectLoad /\ opcode = Bits(3) /\ f3 = Bits(SelectLoad[n])
  \/ n \in DOMAIN SelectStore /\ opcode = Bits(35) /\ f3 = Bits(SelectStore[n])
  \/ n \in DOMAIN SelectImmediate /\ opcode = Bits(19) /\ f3 = Bits(SelectImmediate[n])
  \/ n \in DOMAIN SelectShift /\ opcode = Bits(19) /\ f3 = Bits(SelectShift[n][1]) /\ f7 = Bits(SelectShift[n][2])
  \/ n \in DOMAIN SelectArithmetic /\ opcode = Bits(51) /\ f3 = Bits(SelectArithmetic[n][1])
       /\ f7 = Bits(SelectArithmetic[n][2])
  \/ n \in DOMAIN SelectMultiply /\ opcode = Bits(51) /\ f3 = Bits(SelectMultiply[n][1])
       /\ f7 = Bits(SelectMultiply[n][2])

\* The names that select knows, by the layout of their fields.
LEMMA SelectNames ==
  /\ DOMAIN SelectBranch = {"beq", "bne", "blt", "bltu", "bge", "bgeu"}
  /\ DOMAIN SelectLoad = {"lb", "lh", "lw", "lbu", "lhu"}
  /\ DOMAIN SelectStore = {"sb", "sh", "sw"}
  /\ DOMAIN SelectImmediate = {"addi", "slti", "sltiu", "andi", "ori", "xori"}
  /\ DOMAIN SelectShift = {"slli", "srli", "srai"}
  /\ DOMAIN SelectArithmetic = {"add", "slt", "sltu", "and", "or", "xor", "sll", "srl", "sra", "sub"}
  /\ DOMAIN SelectMultiply = {"mul", "mulh", "mulhu", "mulhsu"}
BY DEF SelectBranch, SelectLoad, SelectStore, SelectImmediate, SelectShift, SelectArithmetic, SelectMultiply

\* The branches' names are those of their funct3.
LEMMA NamedBranch == ASSUME NEW f \in SUBSET (0..2)
                     PROVE  /\ \A n \in DOMAIN SelectBranch : SelectBranch[n] \in 0..7 /\ (Branches[Num(f) + 1] = n <=> f = Bits(SelectBranch[n]))
                            /\ Branches[Num(f) + 1] \notin DOMAIN SelectBranch => Branches[Num(f) + 1] = "invalid"
<1>1. \A k \in 0..7 : \A n \in DOMAIN SelectBranch : Branches[k + 1] = n <=> k = SelectBranch[n]
  BY DEF Branches, SelectBranch
<1>2. \A n \in DOMAIN SelectBranch : SelectBranch[n] \in 0..7
  BY DEF SelectBranch
<1>3. \A k \in 0..7 : Branches[k + 1] \notin DOMAIN SelectBranch => Branches[k + 1] = "invalid"
  BY DEF Branches, SelectBranch
<1> QED BY <1>1, <1>2, <1>3, NumRange, NumBits

\* The loads'.
LEMMA NamedLoad == ASSUME NEW f \in SUBSET (0..2)
                   PROVE  /\ \A n \in DOMAIN SelectLoad : SelectLoad[n] \in 0..7 /\ (Loads[Num(f) + 1] = n <=> f = Bits(SelectLoad[n]))
                          /\ Loads[Num(f) + 1] \notin DOMAIN SelectLoad => Loads[Num(f) + 1] = "invalid"
<1>1. \A k \in 0..7 : \A n \in DOMAIN SelectLoad : Loads[k + 1] = n <=> k = SelectLoad[n]
  BY DEF Loads, SelectLoad
<1>2. \A n \in DOMAIN SelectLoad : SelectLoad[n] \in 0..7
  BY DEF SelectLoad
<1>3. \A k \in 0..7 : Loads[k + 1] \notin DOMAIN SelectLoad => Loads[k + 1] = "invalid"
  BY DEF Loads, SelectLoad
<1> QED BY <1>1, <1>2, <1>3, NumRange, NumBits

\* The stores'.
LEMMA NamedStore == ASSUME NEW f \in SUBSET (0..2)
                    PROVE  /\ \A n \in DOMAIN SelectStore : SelectStore[n] \in 0..7 /\ (Stores[Num(f) + 1] = n <=> f = Bits(SelectStore[n]))
                           /\ Stores[Num(f) + 1] \notin DOMAIN SelectStore => Stores[Num(f) + 1] = "invalid"
<1>1. \A k \in 0..7 : \A n \in DOMAIN SelectStore : Stores[k + 1] = n <=> k = SelectStore[n]
  BY DEF Stores, SelectStore
<1>2. \A n \in DOMAIN SelectStore : SelectStore[n] \in 0..7
  BY DEF SelectStore
<1>3. \A k \in 0..7 : Stores[k + 1] \notin DOMAIN SelectStore => Stores[k + 1] = "invalid"
  BY DEF Stores, SelectStore
<1> QED BY <1>1, <1>2, <1>3, NumRange, NumBits

\* The names of operations with an immediate are those of funct3 and, for shifts, funct7.
LEMMA NamedImmediate ==
  ASSUME NEW f \in SUBSET (0..2), NEW g
  PROVE  /\ \A n \in DOMAIN SelectImmediate :
               SelectImmediate[n] \in 0..7 /\ (Immediates(f, g) = n <=> f = Bits(SelectImmediate[n]))
         /\ \A n \in DOMAIN SelectShift :
               /\ SelectShift[n][1] \in 0..7 /\ SelectShift[n][2] \in {0, 32}
               /\ Immediates(f, g) = n <=> f = Bits(SelectShift[n][1]) /\ g = Bits(SelectShift[n][2])
         /\ Immediates(f, g) \notin DOMAIN SelectImmediate \cup DOMAIN SelectShift => Immediates(f, g) = "invalid"
<1> DEFINE k == Num(f)
<1>1. k \in 0..7
  BY NumRange
<1>2. \A j \in 0..7 : k = j <=> f = Bits(j)
  BY NumBits
<1>3. Bits(0) = {} /\ Bits(32) # {}
  BY BitsValues
<1>4. /\ k = 1 => Immediates(f, g) = IF g = {} THEN "slli" ELSE "invalid"
      /\ k = 5 => Immediates(f, g) = IF g = {} THEN "srli" ELSE IF g = Bits(32) THEN "srai" ELSE "invalid"
  BY DEF Immediates
<1>8. /\ k = 0 => Immediates(f, g) = "addi"
      /\ k = 2 => Immediates(f, g) = "slti"
      /\ k = 3 => Immediates(f, g) = "sltiu"
      /\ k = 4 => Immediates(f, g) = "xori"
      /\ k = 6 => Immediates(f, g) = "ori"
      /\ k = 7 => Immediates(f, g) = "andi"
  BY DEF Immediates
<1> HIDE DEF k
<1>9. k = 0 \/ k = 1 \/ k = 2 \/ k = 3 \/ k = 4 \/ k = 5 \/ k = 6 \/ k = 7
  BY <1>1
<1>10. \A n \in DOMAIN SelectImmediate :
          \/ n = "addi" /\ SelectImmediate[n] = 0
          \/ n = "slti" /\ SelectImmediate[n] = 2
          \/ n = "sltiu" /\ SelectImmediate[n] = 3
          \/ n = "xori" /\ SelectImmediate[n] = 4
          \/ n = "ori" /\ SelectImmediate[n] = 6
          \/ n = "andi" /\ SelectImmediate[n] = 7
  BY DEF SelectImmediate
<1>11. \A n \in DOMAIN SelectShift :
          \/ n = "slli" /\ SelectShift[n][1] = 1 /\ SelectShift[n][2] = 0
          \/ n = "srli" /\ SelectShift[n][1] = 5 /\ SelectShift[n][2] = 0
          \/ n = "srai" /\ SelectShift[n][1] = 5 /\ SelectShift[n][2] = 32
  BY DEF SelectShift
<1> DEFINE str == Immediates(f, g)
<1>12. /\ k = 1 => (g = {} /\ str = "slli") \/ (g # {} /\ str = "invalid")
       /\ k = 5 => (g = {} /\ str = "srli") \/ (g = Bits(32) /\ str = "srai")
                     \/ (g # {} /\ g # Bits(32) /\ str = "invalid")
  BY <1>4
<1> HIDE DEF str
<1>5. ASSUME NEW n \in DOMAIN SelectImmediate
      PROVE  SelectImmediate[n] \in 0..7 /\ (str = n <=> k = SelectImmediate[n])
  BY <1>12, <1>8, <1>9, <1>10 DEF str
<1>6. ASSUME NEW n \in DOMAIN SelectShift
      PROVE  /\ SelectShift[n][1] \in 0..7 /\ SelectShift[n][2] \in {0, 32}
             /\ str = n <=> k = SelectShift[n][1] /\ g = Bits(SelectShift[n][2])
  BY <1>3, <1>12, <1>8, <1>9, <1>11 DEF str
<1>7. str \notin DOMAIN SelectImmediate \cup DOMAIN SelectShift => str = "invalid"
  BY <1>12, <1>8, <1>9, SelectNames DEF str
<1> QED BY <1>2, <1>5, <1>6, <1>7 DEF str

\* The names of register operations are those of funct3 and funct7.
LEMMA NamedArithmetic ==
  ASSUME NEW f \in SUBSET (0..2), NEW g
  PROVE  /\ \A n \in DOMAIN SelectArithmetic :
               /\ SelectArithmetic[n][1] \in 0..7 /\ SelectArithmetic[n][2] \in {0, 32}
               /\ Arithmetic(f, g) = n <=> f = Bits(SelectArithmetic[n][1]) /\ g = Bits(SelectArithmetic[n][2])
         /\ \A n \in DOMAIN SelectMultiply :
               /\ SelectMultiply[n][1] \in 0..7 /\ SelectMultiply[n][2] = 1
               /\ Arithmetic(f, g) = n <=> f = Bits(SelectMultiply[n][1]) /\ g = Bits(SelectMultiply[n][2])
         /\ Arithmetic(f, g) \notin DOMAIN SelectArithmetic \cup DOMAIN SelectMultiply
              => Arithmetic(f, g) \in {"invalid", "div", "divu", "rem", "remu"}
<1> DEFINE k == Num(f)
           str == Arithmetic(f, g)
<1>1. k = 0 \/ k = 1 \/ k = 2 \/ k = 3 \/ k = 4 \/ k = 5 \/ k = 6 \/ k = 7
  BY NumRange
<1>2. \A j \in 0..7 : k = j <=> f = Bits(j)
  BY NumBits
<1>3. Bits(0) = {} /\ Bits(1) # {} /\ Bits(32) # {} /\ Bits(1) # Bits(32)
  BY BitsValues
<1>4. CASE g = {}
  <2>1. /\ k = 0 => str = "add"
        /\ k = 1 => str = "sll"
        /\ k = 2 => str = "slt"
        /\ k = 3 => str = "sltu"
        /\ k = 4 => str = "xor"
        /\ k = 5 => str = "srl"
        /\ k = 6 => str = "or"
        /\ k = 7 => str = "and"
    BY <1>3, <1>4 DEF Arithmetic
  <2> HIDE DEF k, str
  <2>2. ASSUME NEW n \in DOMAIN SelectArithmetic
        PROVE  /\ SelectArithmetic[n][1] \in 0..7 /\ SelectArithmetic[n][2] \in {0, 32}
               /\ str = n <=> k = SelectArithmetic[n][1] /\ g = Bits(SelectArithmetic[n][2])
    BY <1>1, <1>3, <1>4, <2>1 DEF SelectArithmetic
  <2>3. ASSUME NEW n \in DOMAIN SelectMultiply
        PROVE  /\ SelectMultiply[n][1] \in 0..7 /\ SelectMultiply[n][2] = 1
               /\ str # n /\ g # Bits(SelectMultiply[n][2])
    BY <1>1, <1>3, <1>4, <2>1 DEF SelectMultiply
  <2>4. str \in DOMAIN SelectArithmetic
    BY <1>1, <2>1, SelectNames
  <2> QED BY <1>2, <2>2, <2>3, <2>4 DEF str
<1>5. CASE g = Bits(32)
  <2>1. /\ k = 0 => str = "sub"
        /\ k = 5 => str = "sra"
        /\ k # 0 /\ k # 5 => str = "invalid"
    BY <1>3, <1>5 DEF Arithmetic
  <2> HIDE DEF k, str
  <2>2. ASSUME NEW n \in DOMAIN SelectArithmetic
        PROVE  /\ SelectArithmetic[n][1] \in 0..7 /\ SelectArithmetic[n][2] \in {0, 32}
               /\ str = n <=> k = SelectArithmetic[n][1] /\ g = Bits(SelectArithmetic[n][2])
    BY <1>1, <1>3, <1>5, <2>1 DEF SelectArithmetic
  <2>3. ASSUME NEW n \in DOMAIN SelectMultiply
        PROVE  /\ SelectMultiply[n][1] \in 0..7 /\ SelectMultiply[n][2] = 1
               /\ str # n /\ g # Bits(SelectMultiply[n][2])
    BY <1>1, <1>3, <1>5, <2>1 DEF SelectMultiply
  <2>4. str \in DOMAIN SelectArithmetic \/ str = "invalid"
    BY <1>1, <2>1, SelectNames
  <2> QED BY <1>2, <2>2, <2>3, <2>4 DEF str
<1>6. CASE g = Bits(1)
  <2>1. /\ k = 0 => str = "mul"
        /\ k = 1 => str = "mulh"
        /\ k = 2 => str = "mulhsu"
        /\ k = 3 => str = "mulhu"
        /\ k = 4 => str = "div"
        /\ k = 5 => str = "divu"
        /\ k = 6 => str = "rem"
        /\ k = 7 => str = "remu"
    BY <1>3, <1>6 DEF Arithmetic
  <2> HIDE DEF k, str
  <2>2. ASSUME NEW n \in DOMAIN SelectArithmetic
        PROVE  /\ SelectArithmetic[n][1] \in 0..7 /\ SelectArithmetic[n][2] \in {0, 32}
               /\ str # n /\ g # Bits(SelectArithmetic[n][2])
    BY <1>1, <1>3, <1>6, <2>1 DEF SelectArithmetic
  <2>3. ASSUME NEW n \in DOMAIN SelectMultiply
        PROVE  /\ SelectMultiply[n][1] \in 0..7 /\ SelectMultiply[n][2] = 1
               /\ str = n <=> k = SelectMultiply[n][1] /\ g = Bits(SelectMultiply[n][2])
    BY <1>1, <1>3, <1>6, <2>1 DEF SelectMultiply
  <2>4. str \in DOMAIN SelectMultiply \/ str \in {"div", "divu", "rem", "remu"}
    BY <1>1, <2>1, SelectNames
  <2> QED BY <1>2, <2>2, <2>3, <2>4 DEF str
<1>7. CASE g # {} /\ g # Bits(32) /\ g # Bits(1)
  <2>1. str = "invalid"
    BY <1>3, <1>7 DEF Arithmetic
  <2> HIDE DEF k, str
  <2>2. ASSUME NEW n \in DOMAIN SelectArithmetic
        PROVE  /\ SelectArithmetic[n][1] \in 0..7 /\ SelectArithmetic[n][2] \in {0, 32}
               /\ str # n /\ g # Bits(SelectArithmetic[n][2])
    BY <1>1, <1>3, <1>7, <2>1 DEF SelectArithmetic
  <2>3. ASSUME NEW n \in DOMAIN SelectMultiply
        PROVE  /\ SelectMultiply[n][1] \in 0..7 /\ SelectMultiply[n][2] = 1
               /\ str # n /\ g # Bits(SelectMultiply[n][2])
    BY <1>1, <1>3, <1>7, <2>1 DEF SelectMultiply
  <2> QED BY <1>2, <2>1, <2>2, <2>3 DEF str
<1> QED BY <1>4, <1>5, <1>6, <1>7

\* The names of system instructions.
LEMMA NamedSystem ==
  ASSUME NEW f \in SUBSET (0..2), NEW g
  PROVE  /\ System(f, g) = "wfi" <=> f = Bits(0) /\ g = Bits(261)
         /\ System(f, g) = "csrrw" <=> f = Bits(1)
         /\ System(f, g) = "csrrs" <=> f = Bits(2)
         /\ System(f, g) = "csrrc" <=> f = Bits(3)
         /\ System(f, g) # "wfi" => System(f, g) \in Unsupported
<1> DEFINE k == Num(f)
           str == System(f, g)
<1>1. k = 0 \/ k = 1 \/ k = 2 \/ k = 3 \/ k = 4 \/ k = 5 \/ k = 6 \/ k = 7
  BY NumRange
<1>2. \A j \in 0..7 : k = j <=> f = Bits(j)
  BY NumBits
<1>3. Bits(261) # {} /\ Bits(1) # Bits(261)
  BY BitsValues
<1>4. k = 0 => (g = Bits(261) /\ str = "wfi") \/ (g # Bits(261) /\ str \in {"ecall", "ebreak", "system"})
  BY <1>3 DEF System
<1>5. /\ k = 1 => str = "csrrw"
      /\ k = 2 => str = "csrrs"
      /\ k = 3 => str = "csrrc"
      /\ k = 4 => str = "invalid"
      /\ k = 5 => str = "csrrwi"
      /\ k = 6 => str = "csrrsi"
      /\ k = 7 => str = "csrrci"
  BY DEF System
<1> HIDE DEF k, str
<1>6. /\ str = "wfi" <=> k = 0 /\ g = Bits(261)
      /\ str = "csrrw" <=> k = 1
      /\ str = "csrrs" <=> k = 2
      /\ str = "csrrc" <=> k = 3
  BY <1>1, <1>4, <1>5
<1>7. str # "wfi" => str \in Unsupported
  BY <1>1, <1>4, <1>5 DEF Unsupported
<1> QED BY <1>2, <1>6, <1>7 DEF str

\* The core's patterns have the opcodes and functs that select assigns.
LEMMA PatternTable ==
  /\ \A n \in DOMAIN SelectBranch : n \in DOMAIN ISA /\ ISA[n] = Itype(99, SelectBranch[n])
  /\ \A n \in DOMAIN SelectLoad : n \in DOMAIN ISA /\ ISA[n] = Itype(3, SelectLoad[n])
  /\ \A n \in DOMAIN SelectStore : n \in DOMAIN ISA /\ ISA[n] = Itype(35, SelectStore[n])
  /\ \A n \in DOMAIN SelectImmediate : n \in DOMAIN ISA /\ ISA[n] = Itype(19, SelectImmediate[n])
  /\ \A n \in DOMAIN SelectShift : n \in DOMAIN ISA /\ ISA[n] = Rtype(19, SelectShift[n][1], SelectShift[n][2])
  /\ \A n \in DOMAIN SelectArithmetic :
       n \in DOMAIN ISA /\ ISA[n] = Rtype(51, SelectArithmetic[n][1], SelectArithmetic[n][2])
  /\ \A n \in DOMAIN SelectMultiply :
       n \in DOMAIN ISA /\ ISA[n] = Rtype(51, SelectMultiply[n][1], SelectMultiply[n][2])
  /\ {"lui", "auipc", "jal", "jalr", "csrrw", "csrrs", "csrrc", "wfi"} \subseteq DOMAIN ISA
  /\ ISA["lui"] = Utype(55) /\ ISA["auipc"] = Utype(23) /\ ISA["jal"] = Utype(111) /\ ISA["jalr"] = Itype(103, 0)
  /\ ISA["csrrw"] = Itype(115, 1) /\ ISA["csrrs"] = Itype(115, 2) /\ ISA["csrrc"] = Itype(115, 3)
  /\ ISA["wfi"] = [mask |-> 0..31, value |-> Shl(Bits(261), 20) \cup Bits(115)]
  /\ DOMAIN ISA = DOMAIN SelectBranch \cup DOMAIN SelectLoad \cup DOMAIN SelectStore \cup DOMAIN SelectImmediate
                    \cup DOMAIN SelectShift \cup DOMAIN SelectArithmetic \cup DOMAIN SelectMultiply
                    \cup {"lui", "auipc", "jal", "jalr", "csrrw", "csrrs", "csrrc", "wfi"}
<1>1. \A n \in DOMAIN SelectBranch : n \in DOMAIN ISA /\ ISA[n] = Itype(99, SelectBranch[n])
  BY DEF ISA, SelectBranch
<1>2. \A n \in DOMAIN SelectLoad : n \in DOMAIN ISA /\ ISA[n] = Itype(3, SelectLoad[n])
  BY DEF ISA, SelectLoad
<1>3. \A n \in DOMAIN SelectStore : n \in DOMAIN ISA /\ ISA[n] = Itype(35, SelectStore[n])
  BY DEF ISA, SelectStore
<1>4. \A n \in DOMAIN SelectImmediate : n \in DOMAIN ISA /\ ISA[n] = Itype(19, SelectImmediate[n])
  BY DEF ISA, SelectImmediate
<1>5. \A n \in DOMAIN SelectShift : n \in DOMAIN ISA /\ ISA[n] = Rtype(19, SelectShift[n][1], SelectShift[n][2])
  BY DEF ISA, SelectShift
<1>6. \A n \in DOMAIN SelectArithmetic :
       n \in DOMAIN ISA /\ ISA[n] = Rtype(51, SelectArithmetic[n][1], SelectArithmetic[n][2])
  BY DEF ISA, SelectArithmetic
<1>7. \A n \in DOMAIN SelectMultiply :
       n \in DOMAIN ISA /\ ISA[n] = Rtype(51, SelectMultiply[n][1], SelectMultiply[n][2])
  BY DEF ISA, SelectMultiply
<1>8. {"lui", "auipc", "jal", "jalr", "csrrw", "csrrs", "csrrc", "wfi"} \subseteq DOMAIN ISA
  BY DEF ISA
<1>9. /\ ISA["lui"] = Utype(55) /\ ISA["auipc"] = Utype(23) /\ ISA["jal"] = Utype(111) /\ ISA["jalr"] = Itype(103, 0)
      /\ ISA["csrrw"] = Itype(115, 1) /\ ISA["csrrs"] = Itype(115, 2) /\ ISA["csrrc"] = Itype(115, 3)
      /\ ISA["wfi"] = [mask |-> 0..31, value |-> Shl(Bits(261), 20) \cup Bits(115)]
  BY DEF ISA
<1>10. DOMAIN ISA = DOMAIN SelectBranch \cup DOMAIN SelectLoad \cup DOMAIN SelectStore \cup DOMAIN SelectImmediate
                    \cup DOMAIN SelectShift \cup DOMAIN SelectArithmetic \cup DOMAIN SelectMultiply
                    \cup {"lui", "auipc", "jal", "jalr", "csrrw", "csrrs", "csrrc", "wfi"}
  BY SelectNames DEF ISA
<1> QED BY <1>1, <1>2, <1>3, <1>4, <1>5, <1>6, <1>7, <1>8, <1>9, <1>10, Zenon

\* What the core executes, by the fields of the word.
LEMMA CoreMeans ==
  ASSUME NEW w \in Word, NEW n
  PROVE  n \in decoder(w) <=>
           \/ Means(n, Field(w, 0, 7), Field(w, 12, 3), Field(w, 25, 7))
           \/ n = "jalr" /\ Field(w, 0, 7) = Bits(103) /\ Field(w, 12, 3) = Bits(0)
           \/ n = "csrrw" /\ Field(w, 0, 7) = Bits(115) /\ Field(w, 12, 3) = Bits(1)
           \/ n = "csrrs" /\ Field(w, 0, 7) = Bits(115) /\ Field(w, 12, 3) = Bits(2)
           \/ n = "csrrc" /\ Field(w, 0, 7) = Bits(115) /\ Field(w, 12, 3) = Bits(3)
           \/ n = "wfi" /\ w = Shl(Bits(261), 20) \cup Bits(115)
<1>0. n \in decoder(w) <=> n \in DOMAIN ISA /\ Matches(w, ISA[n])
  BY DEF decoder, Matches
<1> DEFINE op == Field(w, 0, 7)
           f3 == Field(w, 12, 3)
           f7 == Field(w, 25, 7)
           rhs == \/ Means(n, op, f3, f7)
                  \/ n = "jalr" /\ op = Bits(103) /\ f3 = Bits(0)
                  \/ n = "csrrw" /\ op = Bits(115) /\ f3 = Bits(1)
                  \/ n = "csrrs" /\ op = Bits(115) /\ f3 = Bits(2)
                  \/ n = "csrrc" /\ op = Bits(115) /\ f3 = Bits(3)
                  \/ n = "wfi" /\ w = Shl(Bits(261), 20) \cup Bits(115)
<1> HIDE DEF op, f3, f7
<1>1. CASE n \in DOMAIN SelectBranch
  <2>1. SelectBranch[n] \in 0..7
    BY <1>1, NamedBranch
  <2>2. n \in decoder(w) <=> op = Bits(99) /\ f3 = Bits(SelectBranch[n])
    <3>1. n \in DOMAIN ISA /\ ISA[n] = Itype(99, SelectBranch[n])
      BY <1>1, PatternTable
    <3>2. Matches(w, Itype(99, SelectBranch[n]))
            <=> op = Bits(99) /\ f3 = Bits(SelectBranch[n])
      BY <2>1, IPattern DEF op, f3, Codes
    <3> QED BY <1>0, <3>1, <3>2, Zenon
  <2>3. rhs <=> op = Bits(99) /\ f3 = Bits(SelectBranch[n])
    BY <1>1, SelectNames DEF Means
  <2> QED BY <2>2, <2>3 DEF op, f3, f7
<1>2. CASE n \in DOMAIN SelectLoad
  <2>1. SelectLoad[n] \in 0..7
    BY <1>2, NamedLoad
  <2>2. n \in decoder(w) <=> op = Bits(3) /\ f3 = Bits(SelectLoad[n])
    <3>1. n \in DOMAIN ISA /\ ISA[n] = Itype(3, SelectLoad[n])
      BY <1>2, PatternTable
    <3>2. Matches(w, Itype(3, SelectLoad[n]))
            <=> op = Bits(3) /\ f3 = Bits(SelectLoad[n])
      BY <2>1, IPattern DEF op, f3, Codes
    <3> QED BY <1>0, <3>1, <3>2, Zenon
  <2>3. rhs <=> op = Bits(3) /\ f3 = Bits(SelectLoad[n])
    BY <1>2, SelectNames DEF Means
  <2> QED BY <2>2, <2>3 DEF op, f3, f7
<1>3. CASE n \in DOMAIN SelectStore
  <2>1. SelectStore[n] \in 0..7
    BY <1>3, NamedStore
  <2>2. n \in decoder(w) <=> op = Bits(35) /\ f3 = Bits(SelectStore[n])
    <3>1. n \in DOMAIN ISA /\ ISA[n] = Itype(35, SelectStore[n])
      BY <1>3, PatternTable
    <3>2. Matches(w, Itype(35, SelectStore[n]))
            <=> op = Bits(35) /\ f3 = Bits(SelectStore[n])
      BY <2>1, IPattern DEF op, f3, Codes
    <3> QED BY <1>0, <3>1, <3>2, Zenon
  <2>3. rhs <=> op = Bits(35) /\ f3 = Bits(SelectStore[n])
    BY <1>3, SelectNames DEF Means
  <2> QED BY <2>2, <2>3 DEF op, f3, f7
<1>4. CASE n \in DOMAIN SelectImmediate
  <2>1. SelectImmediate[n] \in 0..7
    BY <1>4, NamedImmediate
  <2>2. n \in decoder(w) <=> op = Bits(19) /\ f3 = Bits(SelectImmediate[n])
    <3>1. n \in DOMAIN ISA /\ ISA[n] = Itype(19, SelectImmediate[n])
      BY <1>4, PatternTable
    <3>2. Matches(w, Itype(19, SelectImmediate[n]))
            <=> op = Bits(19) /\ f3 = Bits(SelectImmediate[n])
      BY <2>1, IPattern DEF op, f3, Codes
    <3> QED BY <1>0, <3>1, <3>2, Zenon
  <2>3. rhs <=> op = Bits(19) /\ f3 = Bits(SelectImmediate[n])
    BY <1>4, SelectNames DEF Means
  <2> QED BY <2>2, <2>3 DEF op, f3, f7
<1>5. CASE n \in DOMAIN SelectShift
  <2>1. SelectShift[n][1] \in 0..7 /\ SelectShift[n][2] \in {0, 32}
    BY <1>5, NamedImmediate
  <2>2. n \in decoder(w) <=> op = Bits(19) /\ f3 = Bits(SelectShift[n][1]) /\ f7 = Bits(SelectShift[n][2])
    <3>1. n \in DOMAIN ISA /\ ISA[n] = Rtype(19, SelectShift[n][1], SelectShift[n][2])
      BY <1>5, PatternTable
    <3>2. Matches(w, Rtype(19, SelectShift[n][1], SelectShift[n][2]))
            <=> op = Bits(19) /\ f3 = Bits(SelectShift[n][1]) /\ f7 = Bits(SelectShift[n][2])
      <4> DEFINE j == SelectShift[n][1]
                 m == SelectShift[n][2]
      <4>1. j \in 0..7 /\ m \in Funct7s
        BY <2>1 DEF Funct7s
      <4> HIDE DEF j, m
      <4>2. Matches(w, Rtype(19, j, m)) <=> op = Bits(19) /\ f3 = Bits(j) /\ f7 = Bits(m)
        <5>1. 19 \in Codes
          BY DEF Codes
        <5> QED BY <4>1, <5>1, RPattern DEF op, f3, f7
      <4> QED BY <4>2 DEF j, m
    <3> QED BY <1>0, <3>1, <3>2, Zenon
  <2>3. rhs <=> op = Bits(19) /\ f3 = Bits(SelectShift[n][1]) /\ f7 = Bits(SelectShift[n][2])
    BY <1>5, SelectNames DEF Means
  <2> QED BY <2>2, <2>3 DEF op, f3, f7
<1>6. CASE n \in DOMAIN SelectArithmetic
  <2>1. SelectArithmetic[n][1] \in 0..7 /\ SelectArithmetic[n][2] \in {0, 32}
    BY <1>6, NamedArithmetic
  <2>2. n \in decoder(w) <=> op = Bits(51) /\ f3 = Bits(SelectArithmetic[n][1]) /\ f7 = Bits(SelectArithmetic[n][2])
    <3>1. n \in DOMAIN ISA /\ ISA[n] = Rtype(51, SelectArithmetic[n][1], SelectArithmetic[n][2])
      BY <1>6, PatternTable
    <3>2. Matches(w, Rtype(51, SelectArithmetic[n][1], SelectArithmetic[n][2]))
            <=> op = Bits(51) /\ f3 = Bits(SelectArithmetic[n][1]) /\ f7 = Bits(SelectArithmetic[n][2])
      <4> DEFINE j == SelectArithmetic[n][1]
                 m == SelectArithmetic[n][2]
      <4>1. j \in 0..7 /\ m \in Funct7s
        BY <2>1 DEF Funct7s
      <4> HIDE DEF j, m
      <4>2. Matches(w, Rtype(51, j, m)) <=> op = Bits(51) /\ f3 = Bits(j) /\ f7 = Bits(m)
        <5>1. 51 \in Codes
          BY DEF Codes
        <5> QED BY <4>1, <5>1, RPattern DEF op, f3, f7
      <4> QED BY <4>2 DEF j, m
    <3> QED BY <1>0, <3>1, <3>2, Zenon
  <2>3. rhs <=> op = Bits(51) /\ f3 = Bits(SelectArithmetic[n][1]) /\ f7 = Bits(SelectArithmetic[n][2])
    BY <1>6, SelectNames DEF Means
  <2> QED BY <2>2, <2>3 DEF op, f3, f7
<1>7. CASE n \in DOMAIN SelectMultiply
  <2>1. SelectMultiply[n][1] \in 0..7 /\ SelectMultiply[n][2] = 1
    BY <1>7, NamedArithmetic
  <2>2. n \in decoder(w) <=> op = Bits(51) /\ f3 = Bits(SelectMultiply[n][1]) /\ f7 = Bits(SelectMultiply[n][2])
    <3>1. n \in DOMAIN ISA /\ ISA[n] = Rtype(51, SelectMultiply[n][1], SelectMultiply[n][2])
      BY <1>7, PatternTable
    <3>2. Matches(w, Rtype(51, SelectMultiply[n][1], SelectMultiply[n][2]))
            <=> op = Bits(51) /\ f3 = Bits(SelectMultiply[n][1]) /\ f7 = Bits(SelectMultiply[n][2])
      <4> DEFINE j == SelectMultiply[n][1]
                 m == SelectMultiply[n][2]
      <4>1. j \in 0..7 /\ m \in Funct7s
        BY <2>1 DEF Funct7s
      <4> HIDE DEF j, m
      <4>2. Matches(w, Rtype(51, j, m)) <=> op = Bits(51) /\ f3 = Bits(j) /\ f7 = Bits(m)
        <5>1. 51 \in Codes
          BY DEF Codes
        <5> QED BY <4>1, <5>1, RPattern DEF op, f3, f7
      <4> QED BY <4>2 DEF j, m
    <3> QED BY <1>0, <3>1, <3>2, Zenon
  <2>3. rhs <=> op = Bits(51) /\ f3 = Bits(SelectMultiply[n][1]) /\ f7 = Bits(SelectMultiply[n][2])
    BY <1>7, SelectNames DEF Means
  <2> QED BY <2>2, <2>3 DEF op, f3, f7
<1>8. CASE n \in {"lui", "auipc", "jal"}
  <2>1. n \in decoder(w) <=> (n = "lui" /\ op = Bits(55)) \/ (n = "auipc" /\ op = Bits(23)) \/ (n = "jal" /\ op = Bits(111))
    BY <1>0, <1>8, PatternTable, UPattern DEF op, Codes
  <2>2. rhs <=> (n = "lui" /\ op = Bits(55)) \/ (n = "auipc" /\ op = Bits(23)) \/ (n = "jal" /\ op = Bits(111))
    BY <1>8, SelectNames DEF Means
  <2> QED BY <2>1, <2>2 DEF op, f3, f7
<1>9. CASE n \in {"jalr", "csrrw", "csrrs", "csrrc"}
  <2>1. n \in decoder(w) <=>
          \/ n = "jalr" /\ op = Bits(103) /\ f3 = Bits(0)
          \/ n = "csrrw" /\ op = Bits(115) /\ f3 = Bits(1)
          \/ n = "csrrs" /\ op = Bits(115) /\ f3 = Bits(2)
          \/ n = "csrrc" /\ op = Bits(115) /\ f3 = Bits(3)
    <3>1. /\ Matches(w, Itype(103, 0)) <=> op = Bits(103) /\ f3 = Bits(0)
          /\ \A k \in 1..3 : Matches(w, Itype(115, k)) <=> op = Bits(115) /\ f3 = Bits(k)
      BY IPattern DEF op, f3, Codes
    <3>2. n \in DOMAIN ISA /\ ISA[n] = CASE n = "jalr" -> Itype(103, 0) [] n = "csrrw" -> Itype(115, 1)
                                         [] n = "csrrs" -> Itype(115, 2) [] n = "csrrc" -> Itype(115, 3)
      BY <1>9, PatternTable
    <3> QED BY <1>0, <1>9, <3>1, <3>2
  <2>2. ~Means(n, op, f3, f7)
    BY <1>9, SelectNames DEF Means
  <2> QED BY <1>9, <2>1, <2>2 DEF op, f3, f7
<1>10. CASE n = "wfi"
  <2>1. w \cap 0..31 = w
    BY DEF Word
  <2>2. n \in decoder(w) <=> w = Shl(Bits(261), 20) \cup Bits(115)
    BY <1>0, <1>10, <2>1, PatternTable DEF Matches
  <2>3. ~Means(n, op, f3, f7)
    BY <1>10, SelectNames DEF Means
  <2> QED BY <1>10, <2>2, <2>3 DEF op, f3, f7
<1>11. CASE n \notin DOMAIN ISA
  <2>1. ~rhs
    BY <1>11, PatternTable, Zenon DEF Means
  <2> QED BY <2>1, <1>11, <1>0 DEF op, f3, f7
<1> QED BY <1>1, <1>2, <1>3, <1>4, <1>5, <1>6, <1>7, <1>8, <1>9, <1>10, <1>11, PatternTable

\* The class and the printing decoders name an instruction by its fields.
LEMMA Names ==
  ASSUME NEW op, NEW f3 \in SUBSET (0..2), NEW f7, NEW f12, NEW n, Means(n, op, f3, f7)
  PROVE  Name(op, f3, f7, f12) = n
<1> DEFINE str == Name(op, f3, f7, f12)
<1>1. CASE n \in {"lui", "auipc", "jal"}
  BY <1>1, NameOf, SelectNames DEF Means
<1>2. CASE n \in DOMAIN SelectBranch
  <2>1. op = Bits(99) /\ f3 = Bits(SelectBranch[n])
    BY <1>2, SelectNames DEF Means
  <2> QED BY <1>2, <2>1, NameOf, NamedBranch
<1>3. CASE n \in DOMAIN SelectLoad
  <2>1. op = Bits(3) /\ f3 = Bits(SelectLoad[n])
    BY <1>3, SelectNames DEF Means
  <2> QED BY <1>3, <2>1, NameOf, NamedLoad
<1>4. CASE n \in DOMAIN SelectStore
  <2>1. op = Bits(35) /\ f3 = Bits(SelectStore[n])
    BY <1>4, SelectNames DEF Means
  <2> QED BY <1>4, <2>1, NameOf, NamedStore
<1>5. CASE n \in DOMAIN SelectImmediate
  <2>1. op = Bits(19) /\ f3 = Bits(SelectImmediate[n])
    BY <1>5, SelectNames DEF Means
  <2> QED BY <1>5, <2>1, NameOf, NamedImmediate
<1>6. CASE n \in DOMAIN SelectShift
  <2>1. op = Bits(19) /\ f3 = Bits(SelectShift[n][1]) /\ f7 = Bits(SelectShift[n][2])
    BY <1>6, SelectNames DEF Means
  <2> QED BY <1>6, <2>1, NameOf, NamedImmediate
<1>7. CASE n \in DOMAIN SelectArithmetic
  <2>1. op = Bits(51) /\ f3 = Bits(SelectArithmetic[n][1]) /\ f7 = Bits(SelectArithmetic[n][2])
    BY <1>7, SelectNames DEF Means
  <2> QED BY <1>7, <2>1, NameOf, NamedArithmetic
<1>8. CASE n \in DOMAIN SelectMultiply
  <2>1. op = Bits(51) /\ f3 = Bits(SelectMultiply[n][1]) /\ f7 = Bits(SelectMultiply[n][2])
    BY <1>8, SelectNames DEF Means
  <2> QED BY <1>8, <2>1, NameOf, NamedArithmetic
<1> QED BY <1>1, <1>2, <1>3, <1>4, <1>5, <1>6, <1>7, <1>8, Zenon DEF Means

\* They name no other.
LEMMA Named ==
  ASSUME NEW op, NEW f3 \in SUBSET (0..2), NEW f7, NEW f12, Name(op, f3, f7, f12) \notin Unsupported
  PROVE  \/ Means(Name(op, f3, f7, f12), op, f3, f7)
         \/ Name(op, f3, f7, f12) = "jalr" /\ op = Bits(103)
         \/ Name(op, f3, f7, f12) = "wfi" /\ op = Bits(115) /\ f3 = Bits(0) /\ f12 = Bits(261)
<1> DEFINE str == Name(op, f3, f7, f12)
<1>1. CASE op = Bits(55) \/ op = Bits(23) \/ op = Bits(111) \/ op = Bits(103)
  BY <1>1, NameOf DEF Means
<1>2. CASE op = Bits(99)
  <2>1. str \in DOMAIN SelectBranch /\ f3 = Bits(SelectBranch[str])
    BY <1>2, NameOf, NamedBranch DEF Unsupported
  <2> QED BY <1>2, <2>1, Zenon DEF Means
<1>3. CASE op = Bits(3)
  <2>1. str \in DOMAIN SelectLoad /\ f3 = Bits(SelectLoad[str])
    BY <1>3, NameOf, NamedLoad DEF Unsupported
  <2> QED BY <1>3, <2>1, Zenon DEF Means
<1>4. CASE op = Bits(35)
  <2>1. str \in DOMAIN SelectStore /\ f3 = Bits(SelectStore[str])
    BY <1>4, NameOf, NamedStore DEF Unsupported
  <2> QED BY <1>4, <2>1, Zenon DEF Means
<1>5. CASE op = Bits(19)
  <2>1. str \in DOMAIN SelectImmediate \cup DOMAIN SelectShift
    BY <1>5, NameOf, NamedImmediate DEF Unsupported
  <2>2. CASE str \in DOMAIN SelectImmediate
    <3>1. f3 = Bits(SelectImmediate[str])
      BY <1>5, <2>2, NameOf, NamedImmediate
    <3> QED BY <1>5, <2>2, <3>1, Zenon DEF Means
  <2>3. CASE str \in DOMAIN SelectShift
    <3>1. f3 = Bits(SelectShift[str][1]) /\ f7 = Bits(SelectShift[str][2])
      BY <1>5, <2>3, NameOf, NamedImmediate
    <3> QED BY <1>5, <2>3, <3>1, Zenon DEF Means
  <2> QED BY <2>1, <2>2, <2>3
<1>6. CASE op = Bits(51)
  <2>1. str \in DOMAIN SelectArithmetic \cup DOMAIN SelectMultiply
    BY <1>6, NameOf, NamedArithmetic DEF Unsupported
  <2>2. CASE str \in DOMAIN SelectArithmetic
    <3>1. f3 = Bits(SelectArithmetic[str][1]) /\ f7 = Bits(SelectArithmetic[str][2])
      BY <1>6, <2>2, NameOf, NamedArithmetic
    <3> QED BY <1>6, <2>2, <3>1, Zenon DEF Means
  <2>3. CASE str \in DOMAIN SelectMultiply
    <3>1. f3 = Bits(SelectMultiply[str][1]) /\ f7 = Bits(SelectMultiply[str][2])
      BY <1>6, <2>3, NameOf, NamedArithmetic
    <3> QED BY <1>6, <2>3, <3>1, Zenon DEF Means
  <2> QED BY <2>1, <2>2, <2>3
<1>7. CASE op = Bits(115)
  <2>1. str = "wfi"
    BY <1>7, NameOf, NamedSystem
  <2> QED BY <1>7, <2>1, NameOf, NamedSystem
<1>8. CASE op = Bits(15)
  BY <1>8, NameOf DEF Unsupported
<1>9. CASE op \notin {Bits(55), Bits(23), Bits(111), Bits(103), Bits(99), Bits(3), Bits(35), Bits(19), Bits(51),
                      Bits(15), Bits(115)}
  <2>1. str = "invalid"
    BY <1>9 DEF Name, Opcodes
  <2> QED BY <2>1 DEF Unsupported
<1> QED BY <1>1, <1>2, <1>3, <1>4, <1>5, <1>6, <1>7, <1>8, <1>9

\* The immediates the core makes of a word, by pieces.
LEMMA Signext ==
  ASSUME NEW w \in Word
  PROVE  /\ signext(w, "I") = {b \in 11..31 : 31 \in w} \cup Shl(Field(w, 20, 11), 0)
         /\ signext(w, "S") = {b \in 11..31 : 31 \in w} \cup Shl(Field(w, 25, 6), 5) \cup Shl(Field(w, 7, 5), 0)
         /\ signext(w, "B") = {b \in 12..31 : 31 \in w} \cup Shl(Field(w, 7, 1), 11) \cup Shl(Field(w, 25, 6), 5)
                                \cup Shl(Field(w, 8, 4), 1)
         /\ signext(w, "U") = Shl(Field(w, 12, 20), 12)
         /\ signext(w, "J") = {b \in 20..31 : 31 \in w} \cup Shl(Field(w, 12, 8), 12) \cup Shl(Field(w, 20, 1), 11)
                                \cup Shl(Field(w, 21, 10), 1)
<1>1. 30 - 20 + 1 = 11 /\ 30 - 25 + 1 = 6 /\ 11 - 7 + 1 = 5 /\ 7 - 7 + 1 = 1 /\ 11 - 8 + 1 = 4 /\ 31 - 12 + 1 = 20
        /\ 19 - 12 + 1 = 8 /\ 20 - 20 + 1 = 1 /\ 30 - 21 + 1 = 10
  OBVIOUS
<1>2. signext(w, "I") = {b \in 11..31 : 31 \in w} \cup Shl(Field(w, 20, 11), 0)
  BY <1>1 DEF signext
<1>3. signext(w, "S") = {b \in 11..31 : 31 \in w} \cup Shl(Field(w, 25, 6), 5) \cup Shl(Field(w, 7, 5), 0)
  BY <1>1 DEF signext
<1>4. signext(w, "B") = {b \in 12..31 : 31 \in w} \cup Shl(Field(w, 7, 1), 11) \cup Shl(Field(w, 25, 6), 5)
                                \cup Shl(Field(w, 8, 4), 1)
  BY <1>1 DEF signext
<1>5. signext(w, "U") = Shl(Field(w, 12, 20), 12)
  BY <1>1 DEF signext
<1>6. signext(w, "J") = {b \in 20..31 : 31 \in w} \cup Shl(Field(w, 12, 8), 12) \cup Shl(Field(w, 20, 1), 11)
                                \cup Shl(Field(w, 21, 10), 1)
  BY <1>1 DEF signext
<1> QED BY <1>2, <1>3, <1>4, <1>5, <1>6

\* The class makes the same immediates as the core.
LEMMA ImmediateKinds ==
  ASSUME NEW o, NEW w \in Word, NEW shift \in BOOLEAN
  PROVE  /\ ~shift => Immediate(o, w, "I", shift) = signext(w, "I")
         /\ shift => Immediate(o, w, "I", shift) = signext(w, "I") \cap 0..4
         /\ Immediate(o, w, "S", shift) = signext(w, "S")
         /\ Immediate(o, w, "B", shift) = signext(w, "B")
         /\ Shl(Immediate(o, w, "U", shift), 12) = signext(w, "U")
         /\ Immediate(o, w, "J", shift) = signext(w, "J")
<1>1. ASSUME ~shift PROVE Immediate(o, w, "I", shift) = signext(w, "I")
  <2>1. Immediate(o, w, "I", shift) = Field(w, 20, 11) \cup Extend(w, 11)
    BY <1>1 DEF Immediate
  <2>2. Extend(w, 11) = {b \in 11..31 : 31 \in w}
    BY DEF Extend
  <2>3. Field(w, 20, 11) = Shl(Field(w, 20, 11), 0)
    BY DEF Field, Shl
  <2>4. signext(w, "I") = {b \in 11..31 : 31 \in w} \cup Shl(Field(w, 20, 11), 0)
    BY Signext
  <2> QED BY <2>1, <2>2, <2>3, <2>4
<1>2. ASSUME shift PROVE Immediate(o, w, "I", shift) = signext(w, "I") \cap 0..4
  <2>1. Immediate(o, w, "I", shift) = Field(w, 20, 5)
    BY <1>2 DEF Immediate
  <2> QED BY <2>1, Signext DEF Shl, Field
<1>3. Immediate(o, w, "S", shift) = signext(w, "S")
  BY Signext DEF Immediate, Extend, Shl, Field
<1>4. Immediate(o, w, "B", shift) = signext(w, "B")
  BY Signext DEF Immediate, Extend, Shl, Field
<1>5. Shl(Immediate(o, w, "U", shift), 12) = signext(w, "U")
  BY Signext DEF Immediate
<1>6. Immediate(o, w, "J", shift) = signext(w, "J")
  BY Signext DEF Immediate, Extend, Shl, Field
<1> QED BY <1>1, <1>2, <1>3, <1>4, <1>5, <1>6

\* The layout of an opcode, whatever the object had.
LEMMA FormatOf ==
  ASSUME NEW o
  PROVE  /\ \A op \in {Bits(55), Bits(23)} : Format(o, op) = [riscv |-> "U", imm |-> "U"]
         /\ Format(o, Bits(111)) = [riscv |-> "U", imm |-> "J"]
         /\ \A op \in {Bits(103), Bits(3), Bits(19)} : Format(o, op) = [riscv |-> "I", imm |-> "I"]
         /\ Format(o, Bits(99)) = [riscv |-> "S", imm |-> "B"]
         /\ Format(o, Bits(35)) = [riscv |-> "S", imm |-> "S"]
         /\ Format(o, Bits(51)) = [riscv |-> "R", imm |-> "R"]
         /\ Format(o, Bits(115)) = [riscv |-> "P", imm |-> "R"]
<1>1. \A a, b \in Codes : Bits(a) = Bits(b) <=> a = b
  BY Distinct, Zenon
<1>2. /\ Opcodes.lui = Bits(55) /\ Opcodes.auipc = Bits(23) /\ Opcodes.jal = Bits(111) /\ Opcodes.jalr = Bits(103)
      /\ Opcodes.branch = Bits(99) /\ Opcodes.load = Bits(3) /\ Opcodes.store = Bits(35)
      /\ Opcodes.immediate = Bits(19) /\ Opcodes.arithmetic = Bits(51) /\ Opcodes.fence = Bits(15)
      /\ Opcodes.system = Bits(115)
  BY DEF Opcodes
<1> QED BY <1>1, <1>2 DEF Format, Codes

\* The fields of a decoded object.
LEMMA DecodedFields ==
  ASSUME NEW o, NEW w, NEW p, p = Decoded(o, w)
  PROVE  /\ p.str = Name(Field(w, 0, 7), Field(w, 12, 3), Field(w, 25, 7), Field(w, 20, 12))
         /\ p.op = IF p.str \in Unsupported THEN "INVALID" ELSE p.str
         /\ p.riscv = Format(o, Field(w, 0, 7)).riscv /\ p.imm = Format(o, Field(w, 0, 7)).imm
         /\ p.opcode = Field(w, 0, 7) /\ p.funct3 = Field(w, 12, 3) /\ p.funct7 = Field(w, 25, 7)
         /\ p.funct12 = Field(w, 20, 12) /\ p.rs1 = Field(w, 15, 5) /\ p.rs2 = Field(w, 20, 5)
         /\ p.rd = Field(w, 7, 5)
BY Zenon DEF Decoded

\* Shifts have five bits of immediate.
Shifts(w) == Field(w, 0, 7) = Bits(19) /\ Num(Field(w, 12, 3)) \in {1, 5}

\* The immediate of a decoded object.
LEMMA DecodedImmediate ==
  ASSUME NEW o, NEW w \in Word, NEW p, p = Decoded(o, w)
  PROVE  /\ p.imm = "I" /\ ~Shifts(w) => p.imm_value = signext(w, "I")
         /\ p.imm = "I" /\ Shifts(w) => p.imm_value = signext(w, "I") \cap 0..4
         /\ p.imm = "S" => p.imm_value = signext(w, "S")
         /\ p.imm = "B" => p.imm_value = signext(w, "B")
         /\ p.imm = "U" => p.imm_value = Field(w, 12, 20) /\ Shl(p.imm_value, 12) = signext(w, "U")
         /\ p.imm = "J" => p.imm_value = signext(w, "J")
<1> DEFINE shift == Field(w, 0, 7) = Bits(19) /\ Num(Field(w, 12, 3)) \in {1, 5}
<1>1. Opcodes.immediate = Bits(19)
  BY DEF Opcodes
<1>2. p.imm_value = Immediate(o, w, p.imm, shift)
  BY <1>1, Zenon DEF Decoded
<1>3. shift \in BOOLEAN /\ (shift <=> Shifts(w))
  BY DEF Shifts
<1> HIDE DEF shift
<1>4. /\ ~shift => Immediate(o, w, "I", shift) = signext(w, "I")
      /\ shift => Immediate(o, w, "I", shift) = signext(w, "I") \cap 0..4
      /\ Immediate(o, w, "S", shift) = signext(w, "S")
      /\ Immediate(o, w, "B", shift) = signext(w, "B")
      /\ Shl(Immediate(o, w, "U", shift), 12) = signext(w, "U")
      /\ Immediate(o, w, "J", shift) = signext(w, "J")
  BY <1>3, ImmediateKinds, Zenon
<1>5. Immediate(o, w, "U", shift) = Field(w, 12, 20)
  BY DEF Immediate
<1>6. CASE p.imm = "I"
  BY <1>2, <1>3, <1>4, <1>6, Zenon
<1>7. CASE p.imm = "U"
  BY <1>2, <1>4, <1>5, <1>7, Zenon
<1>8. CASE p.imm # "I" /\ p.imm # "U"
  BY <1>2, <1>4, <1>8, Zenon
<1> QED BY <1>6, <1>7, <1>8, Zenon

\* The fields of the core's wfi.
LEMMA WfiFields ==
  ASSUME NEW w \in Word, w = Shl(Bits(261), 20) \cup Bits(115)
  PROVE  /\ Field(w, 0, 7) = Bits(115) /\ Field(w, 12, 3) = Bits(0) /\ Field(w, 20, 12) = Bits(261)
         /\ Field(w, 7, 5) = {} /\ Field(w, 15, 5) = {} /\ 31 \notin w
<1>1. \A b : b \in Shl(Bits(261), 20) <=> b \in {20, 22, 28}
  BY BitsValues DEF Shl
<1>2. \A b : b \in w <=> b \in {0, 1, 4, 5, 6, 20, 22, 28}
  BY <1>1, OpcodeBits
<1>3. \A b : b \in Field(w, 0, 7) <=> b \in {0, 1, 4, 5, 6}
  BY <1>2 DEF Field
<1>4. \A b : b \notin Field(w, 12, 3) /\ b \notin Field(w, 7, 5) /\ b \notin Field(w, 15, 5)
  BY <1>2 DEF Field
<1>5. \A b : b \in Field(w, 20, 12) <=> b \in {0, 2, 8}
  BY <1>2 DEF Field
<1>6. Field(w, 0, 7) = Bits(115)
  BY <1>3, OpcodeBits
<1>7. Field(w, 12, 3) = Bits(0)
  BY <1>4, BitsValues
<1>8. Field(w, 20, 12) = Bits(261)
  BY <1>5, BitsValues
<1>9. Field(w, 7, 5) = {} /\ Field(w, 15, 5) = {}
  BY <1>4
<1>10. 31 \notin w
  BY <1>2
<1> QED BY <1>6, <1>7, <1>8, <1>9, <1>10

\* funct3 has three bits.
LEMMA Funct3Field == ASSUME NEW w PROVE Field(w, 12, 3) \in SUBSET (0..2)
BY DEF Field

\* What the core executes, the other decoders name, whatever follows funct3
\* when the opcode does not use it.
LEMMA CoreNames ==
  ASSUME NEW w \in Word, NEW n \in decoder(w), NEW f7, NEW f12,
         f7 = Field(w, 25, 7) \/ (31 \in w /\ f7 = Field(w, 25, 7) \cup 7..31),
         f12 = Field(w, 20, 12) \/ (31 \in w /\ f12 = Field(w, 20, 12) \cup 12..31)
  PROVE  Name(Field(w, 0, 7), Field(w, 12, 3), f7, f12) = n
<1> DEFINE op == Field(w, 0, 7)
           f3 == Field(w, 12, 3)
           g == Field(w, 25, 7)
<1>1. f3 \in SUBSET (0..2)
  BY Funct3Field
<1>2. ASSUME Means(n, op, f3, g) PROVE Means(n, op, f3, f7)
  <2>1. CASE f7 = g
    BY <1>2, <2>1
  <2>2. CASE 31 \in w
    <3>1. 6 \in g
      BY <2>2 DEF Field
    <3>2. g # Bits(0) /\ g # Bits(1) /\ g # Bits(32)
      BY <3>1, BitsValues
    <3>3. /\ \A m \in DOMAIN SelectShift : SelectShift[m][2] \in {0, 32}
          /\ \A m \in DOMAIN SelectArithmetic : SelectArithmetic[m][2] \in {0, 32}
          /\ \A m \in DOMAIN SelectMultiply : SelectMultiply[m][2] = 1
      BY <1>1, NamedImmediate, NamedArithmetic
    <3>4. /\ \A m \in DOMAIN SelectShift : g # Bits(SelectShift[m][2])
          /\ \A m \in DOMAIN SelectArithmetic : g # Bits(SelectArithmetic[m][2])
          /\ \A m \in DOMAIN SelectMultiply : g # Bits(SelectMultiply[m][2])
      BY <3>2, <3>3
    <3> HIDE DEF op, f3, g
    <3> QED BY <3>4, <1>2, ZenonT(60) DEF Means
  <2> QED BY <2>1, <2>2
<1>3. CASE Means(n, op, f3, g)
  BY <1>1, <1>2, <1>3, Names
<1>4. CASE n = "jalr" /\ op = Bits(103)
  BY <1>4, NameOf
<1>5. CASE op = Bits(115) /\ ((n = "csrrw" /\ f3 = Bits(1)) \/ (n = "csrrs" /\ f3 = Bits(2)) \/ (n = "csrrc" /\ f3 = Bits(3)))
  BY <1>1, <1>5, NameOf, NamedSystem
<1>6. CASE n = "wfi" /\ w = Shl(Bits(261), 20) \cup Bits(115)
  <2>1. op = Bits(115) /\ f3 = Bits(0) /\ Field(w, 20, 12) = Bits(261) /\ 31 \notin w
    BY <1>6, WfiFields
  <2>2. f12 = Bits(261)
    BY <2>1
  <2>3. System(f3, f12) = "wfi"
    BY <1>1, <2>1, <2>2, NamedSystem
  <2> QED BY <1>6, <2>1, <2>3, NameOf
<1> QED BY <1>3, <1>4, <1>5, <1>6, CoreMeans

\* What the core executes, the class and the printing decoders give its name.
LEMMA CoreNamed ==
  ASSUME NEW w \in Word, NEW n \in decoder(w)
  PROVE  /\ Name(Field(w, 0, 7), Field(w, 12, 3), Field(w, 25, 7), Field(w, 20, 12)) = n
         /\ Name(Field(w, 0, 7), Field(w, 12, 3), Field(w, 25, 7) \cup Extend(w, 7), Field(w, 20, 12) \cup Extend(w, 12)) = n
<1>1. ASSUME NEW f7, NEW f12,
             f7 = Field(w, 25, 7) \/ (31 \in w /\ f7 = Field(w, 25, 7) \cup 7..31),
             f12 = Field(w, 20, 12) \/ (31 \in w /\ f12 = Field(w, 20, 12) \cup 12..31)
      PROVE  Name(Field(w, 0, 7), Field(w, 12, 3), f7, f12) = n
  BY <1>1, CoreNames
<1>2. Name(Field(w, 0, 7), Field(w, 12, 3), Field(w, 25, 7), Field(w, 20, 12)) = n
  BY <1>1, Zenon
<1>3. CASE 31 \in w
  <2>1. Name(Field(w, 0, 7), Field(w, 12, 3), Field(w, 25, 7) \cup 7..31, Field(w, 20, 12) \cup 12..31) = n
    BY <1>1, <1>3, Zenon
  <2>2. Extend(w, 7) = 7..31 /\ Extend(w, 12) = 12..31
    BY <1>3 DEF Extend
  <2> QED BY <1>2, <2>1, <2>2, Zenon
<1>4. CASE 31 \notin w
  <2>1. Field(w, 25, 7) \cup Extend(w, 7) = Field(w, 25, 7) /\ Field(w, 20, 12) \cup Extend(w, 12) = Field(w, 20, 12)
    BY <1>4 DEF Extend
  <2> QED BY <1>2, <2>1, Zenon
<1> QED BY <1>3, <1>4

\* The opcodes of what the core executes, and which of it is a shift.
LEMMA CoreOpcode ==
  ASSUME NEW w \in Word, NEW n \in decoder(w)
  PROVE  /\ Field(w, 0, 7) \in {Bits(55), Bits(23), Bits(111), Bits(103), Bits(99), Bits(3), Bits(35), Bits(19),
                                Bits(51), Bits(115)}
         /\ Field(w, 0, 7) = Bits(51) => n \in DOMAIN SelectArithmetic \cup DOMAIN SelectMultiply
         /\ n \in DOMAIN SelectShift <=> Field(w, 0, 7) = Bits(19) /\ Num(Field(w, 12, 3)) \in {1, 5}
<1> DEFINE op == Field(w, 0, 7)
           f3 == Field(w, 12, 3)
           g == Field(w, 25, 7)
<1>1. f3 \in SUBSET (0..2)
  BY Funct3Field
<1>2. /\ \A a, b \in Codes : Bits(a) = Bits(b) <=> a = b
      /\ {55, 23, 111, 103, 99, 3, 35, 19, 51, 115} \subseteq Codes
  BY Distinct DEF Codes
<1>3. \A a, b \in 0..7 : Bits(a) = Bits(b) => a = b
  BY Distinct
<1>4. \A k \in 0..7 : Num(f3) = k <=> f3 = Bits(k)
  BY <1>1, NumBits
<1> HIDE DEF op, f3, g
<1>5. \/ Means(n, op, f3, g)
      \/ n = "jalr" /\ op = Bits(103)
      \/ n \in {"csrrw", "csrrs", "csrrc", "wfi"} /\ op = Bits(115)
  BY CoreMeans, WfiFields DEF op, f3, g
<1>6. op \in {Bits(55), Bits(23), Bits(111), Bits(103), Bits(99), Bits(3), Bits(35), Bits(19), Bits(51), Bits(115)}
  BY <1>5 DEF Means
<1>7. op = Bits(51) => n \in DOMAIN SelectArithmetic \cup DOMAIN SelectMultiply
  BY <1>2, <1>5 DEF Means
<1>8. ASSUME n \in DOMAIN SelectShift PROVE op = Bits(19) /\ Num(f3) \in {1, 5}
  <2>1. op = Bits(19) /\ f3 = Bits(SelectShift[n][1])
    BY <1>5, <1>8, SelectNames DEF Means
  <2>2. SelectShift[n][1] \in {1, 5}
    BY <1>8 DEF SelectShift
  <2> QED BY <2>1, <2>2, <1>4
<1>9. ASSUME op = Bits(19), Num(f3) \in {1, 5} PROVE n \in DOMAIN SelectShift
  <2>1. n \in DOMAIN SelectShift \/ (n \in DOMAIN SelectImmediate /\ f3 = Bits(SelectImmediate[n]))
    BY <1>2, <1>5, <1>9 DEF Means
  <2>2. f3 = Bits(1) \/ f3 = Bits(5)
    BY <1>4, <1>9
  <2>3. \A m \in DOMAIN SelectImmediate : SelectImmediate[m] \in {0, 2, 3, 4, 6, 7}
    BY DEF SelectImmediate
  <2> QED BY <2>1, <2>2, <2>3, <1>3
<1> QED BY <1>6, <1>7, <1>8, <1>9 DEF op, f3

\* The debugger names the ALU functions as the core's decoder goes by them.
LEMMA AluNames == \A n \in DOMAIN SelectArithmetic \cup DOMAIN SelectMultiply : decode_alu(alu_func(n)) = n
<1> SUFFICES ASSUME NEW n \in DOMAIN SelectArithmetic \cup DOMAIN SelectMultiply
             PROVE  decode_alu(alu_func(n)) = n
  OBVIOUS
<1>1. n \in {"add", "slt", "sltu", "and", "or", "xor", "sll", "srl", "sra", "sub", "mul", "mulh", "mulhu", "mulhsu"}
  BY SelectNames
<1>2. alu_func(n) \in 0..13
  BY DEF alu_func
<1>3. \/ n = "add" /\ alu_func(n) = 0
      \/ n = "sub" /\ alu_func(n) = 1
      \/ n = "slt" /\ alu_func(n) = 2
      \/ n = "sltu" /\ alu_func(n) = 3
      \/ n = "and" /\ alu_func(n) = 4
      \/ n = "or" /\ alu_func(n) = 5
      \/ n = "xor" /\ alu_func(n) = 6
      \/ n = "sll" /\ alu_func(n) = 7
      \/ n = "srl" /\ alu_func(n) = 8
      \/ n = "sra" /\ alu_func(n) = 9
      \/ n = "mul" /\ alu_func(n) = 10
      \/ n = "mulh" /\ alu_func(n) = 11
      \/ n = "mulhsu" /\ alu_func(n) = 12
      \/ n = "mulhu" /\ alu_func(n) = 13
  BY <1>1 DEF alu_func
<1> QED BY <1>3 DEF decode_alu

\* The five things the decoders agree on for an instruction of the core.
LEMMA CoreAgrees ==
  ASSUME NEW o, NEW w \in Word, NEW p, p = Decoded(o, w), NEW n \in decoder(w)
  PROVE  /\ p.str = n
         /\ pipe_decode(w, TRUE) \in IF is_nop(p) THEN {n, "nop"} ELSE {n}
         /\ p.riscv # "P" /\ p.riscv # "R" =>
              LET core_imm == signext(w, p.imm)
              IN  CASE IsShift(n)  -> p.imm_value = core_imm \cap 0..4
                    [] p.imm = "U" -> Shl(p.imm_value, 12) = core_imm
                    [] OTHER       -> p.imm_value = core_imm
         /\ p.riscv = "R" => decode_alu(alu_func(n)) = n
<1> DEFINE op == Field(w, 0, 7)
           f3 == Field(w, 12, 3)
           f == Format(o, op)
<1>0. /\ p.str = Name(op, f3, Field(w, 25, 7), Field(w, 20, 12))
      /\ p.op = IF p.str \in Unsupported THEN "INVALID" ELSE p.str
      /\ p.riscv = f.riscv /\ p.imm = f.imm
      /\ p.rs1 = Field(w, 15, 5) /\ p.rd = Field(w, 7, 5)
  BY DecodedFields
<1>5. /\ p.imm = "I" /\ ~Shifts(w) => p.imm_value = signext(w, "I")
      /\ p.imm = "I" /\ Shifts(w) => p.imm_value = signext(w, "I") \cap 0..4
      /\ p.imm = "S" => p.imm_value = signext(w, "S")
      /\ p.imm = "B" => p.imm_value = signext(w, "B")
      /\ p.imm = "U" => Shl(p.imm_value, 12) = signext(w, "U")
      /\ p.imm = "J" => p.imm_value = signext(w, "J")
  BY DecodedImmediate, ZenonT(60)
<1>1. p.str = n
  BY <1>0, CoreNamed, Zenon
<1>2. pipe_decode(w, TRUE) \in IF is_nop(p) THEN {n, "nop"} ELSE {n}
  <2>1. 32 - 25 = 7 /\ 32 - 20 = 12
    OBVIOUS
  <2>2. CASE w # Bits(19)
    <3>1. Name(op, f3, Field(w, 25, 7) \cup Extend(w, 7), Field(w, 20, 12) \cup Extend(w, 12)) = n
      BY CoreNamed, Zenon
    <3>2. pipe_decode(w, TRUE) = n
      BY <2>1, <2>2, <3>1 DEF pipe_decode
    <3> QED BY <3>2
  <2>3. CASE w = Bits(19)
    <3>1. pipe_decode(w, TRUE) = "nop"
      BY <2>3 DEF pipe_decode
    <3>2. \A b : b \in w <=> b \in {0, 1, 4}
      BY <2>3, OpcodeBits
    <3>3. op = Bits(19)
      BY <3>2, OpcodeBits DEF Field
    <3>4. f3 = {} /\ Field(w, 7, 5) = {} /\ Field(w, 15, 5) = {} /\ Field(w, 20, 11) = {} /\ Extend(w, 11) = {}
      BY <3>2 DEF Field, Extend
    <3>5. Num(f3) = 0
      BY <3>4 DEF Num
    <3>6. p.op = "addi"
      <4>1. Immediates(f3, Field(w, 25, 7)) = "addi"
        BY <3>5 DEF Immediates
      <4>2. p.str = "addi"
        BY <1>0, <3>3, <4>1, NameOf
      <4> QED BY <1>0, <4>2 DEF Unsupported
    <3>7. p.imm_value = {}
      <4>1. f.imm = "I"
        BY <3>3, FormatOf
      <4>2. ~Shifts(w)
        BY <3>5 DEF Shifts
      <4>3. signext(w, "I") = {}
        BY <3>2, Signext DEF Shl, Field
      <4> QED BY <1>0, <1>5, <4>1, <4>2, <4>3
    <3>8. is_nop(p)
      BY <1>0, <3>4, <3>6, <3>7 DEF is_nop
    <3> QED BY <3>1, <3>8
  <2> QED BY <2>2, <2>3
<1>3. p.riscv # "P" /\ p.riscv # "R" =>
              LET core_imm == signext(w, p.imm)
              IN  CASE IsShift(n)  -> p.imm_value = core_imm \cap 0..4
                    [] p.imm = "U" -> Shl(p.imm_value, 12) = core_imm
                    [] OTHER       -> p.imm_value = core_imm
  <2>2. n \in DOMAIN SelectShift <=> Shifts(w)
    BY CoreOpcode DEF Shifts
  <2>4. Shifts(w) => f = [riscv |-> "I", imm |-> "I"]
    BY FormatOf DEF Shifts
  <2>5. \/ f = [riscv |-> "U", imm |-> "U"]
        \/ f = [riscv |-> "U", imm |-> "J"]
        \/ f = [riscv |-> "I", imm |-> "I"]
        \/ f = [riscv |-> "S", imm |-> "B"]
        \/ f = [riscv |-> "S", imm |-> "S"]
        \/ f = [riscv |-> "R", imm |-> "R"]
        \/ f = [riscv |-> "P", imm |-> "R"]
    BY CoreOpcode, FormatOf
  <2> HIDE DEF f
  <2>7. CASE Shifts(w)
    <3>1. p.imm_value = signext(w, p.imm) \cap 0..4 /\ n \in DOMAIN SelectShift /\ p.imm = "I"
      BY <2>7, <1>0, <1>5, <2>2, <2>4
    <3> QED BY <3>1 DEF IsShift
  <2>8. CASE ~Shifts(w)
    <3>1. n \notin DOMAIN SelectShift
      BY <2>2, <2>8
    <3>2. CASE f = [riscv |-> "U", imm |-> "U"]
      <4>1. p.imm = "U" /\ Shl(p.imm_value, 12) = signext(w, p.imm)
        BY <3>2, <2>8, <1>0, <1>5
      <4> QED BY <3>1, <4>1 DEF IsShift
    <3>3. CASE f \in {[riscv |-> "U", imm |-> "J"], [riscv |-> "S", imm |-> "B"], [riscv |-> "S", imm |-> "S"],
                      [riscv |-> "I", imm |-> "I"]}
      <4>1. p.imm # "U" /\ p.imm_value = signext(w, p.imm)
        BY <3>3, <2>8, <1>0, <1>5
      <4> QED BY <3>1, <4>1 DEF IsShift
    <3>4. CASE f \in {[riscv |-> "R", imm |-> "R"], [riscv |-> "P", imm |-> "R"]}
      <4>1. p.riscv = "R" \/ p.riscv = "P"
        BY <3>4, <1>0
      <4> QED BY <4>1
    <3> QED BY <2>5, <3>2, <3>3, <3>4
  <2> QED BY <2>7, <2>8
<1>4. ASSUME p.riscv = "R" PROVE decode_alu(alu_func(n)) = n
  <2>1. f.riscv = "R"
    BY <1>0, <1>4
  <2>2. op = Bits(51)
    BY <2>1, CoreOpcode, FormatOf
  <2> QED BY <2>2, CoreOpcode, AluNames
<1> QED BY <1>1, <1>2, <1>3, <1>4

\* What the class gives a name to, the core executes, but for jalr and wfi.
LEMMA NamedByCore ==
  ASSUME NEW o, NEW w \in Word, NEW p, p = Decoded(o, w), p.op # "INVALID"
  PROVE  /\ p.op = p.str /\ p.str \notin Unsupported
         /\ \/ p.op \in decoder(w)
            \/ p.op = "jalr" /\ Field(w, 0, 7) = Bits(103)
            \/ p.op = "wfi" /\ Field(w, 0, 7) = Bits(115) /\ Field(w, 12, 3) = Bits(0) /\ Field(w, 20, 12) = Bits(261)
<1> DEFINE str == Name(Field(w, 0, 7), Field(w, 12, 3), Field(w, 25, 7), Field(w, 20, 12))
<1>1. p.str = str /\ p.op = IF p.str \in Unsupported THEN "INVALID" ELSE p.str
  BY DecodedFields
<1>2. p.op = str /\ str \notin Unsupported
  BY <1>1
<1>3. \/ Means(str, Field(w, 0, 7), Field(w, 12, 3), Field(w, 25, 7))
      \/ str = "jalr" /\ Field(w, 0, 7) = Bits(103)
      \/ str = "wfi" /\ Field(w, 0, 7) = Bits(115) /\ Field(w, 12, 3) = Bits(0) /\ Field(w, 20, 12) = Bits(261)
  BY <1>2, Named, Funct3Field
<1> HIDE DEF str
<1>4. CASE Means(str, Field(w, 0, 7), Field(w, 12, 3), Field(w, 25, 7))
  BY <1>1, <1>2, <1>4, CoreMeans
<1> QED BY <1>1, <1>2, <1>3, <1>4

\* A slice of a word, shifted back to where it was.
LEMMA Slices ==
  ASSUME NEW w \in Word
  PROVE  /\ \A b : b \in Field(w, 0, 7) <=> b \in 0..6 /\ b \in w
         /\ \A b : b \in Shl(Field(w, 7, 5), 7) <=> b \in 7..11 /\ b \in w
         /\ \A b : b \in Shl(Field(w, 12, 3), 12) <=> b \in 12..14 /\ b \in w
         /\ \A b : b \in Shl(Field(w, 15, 5), 15) <=> b \in 15..19 /\ b \in w
         /\ \A b : b \in Shl(Field(w, 20, 5), 20) <=> b \in 20..24 /\ b \in w
         /\ \A b : b \in Shl(Field(w, 25, 7), 25) <=> b \in 25..31 /\ b \in w
         /\ \A b : b \in Shl(Field(w, 20, 12), 20) <=> b \in 20..31 /\ b \in w
         /\ \A b : b \in Shl(Field(w, 12, 20), 12) <=> b \in 12..31 /\ b \in w
<1>1. \A b : b \in Field(w, 0, 7) <=> b \in 0..6 /\ b \in w
  BY DEF Field
<1>2. \A b : b \in Shl(Field(w, 7, 5), 7) <=> b \in 7..11 /\ b \in w
  BY DEF Field, Shl
<1>3. \A b : b \in Shl(Field(w, 12, 3), 12) <=> b \in 12..14 /\ b \in w
  BY DEF Field, Shl
<1>4. \A b : b \in Shl(Field(w, 15, 5), 15) <=> b \in 15..19 /\ b \in w
  BY DEF Field, Shl
<1>5. \A b : b \in Shl(Field(w, 20, 5), 20) <=> b \in 20..24 /\ b \in w
  BY DEF Field, Shl
<1>6. \A b : b \in Shl(Field(w, 25, 7), 25) <=> b \in 25..31 /\ b \in w
  BY DEF Field, Shl
<1>7. \A b : b \in Shl(Field(w, 20, 12), 20) <=> b \in 20..31 /\ b \in w
  BY DEF Field, Shl
<1>8. \A b : b \in Shl(Field(w, 12, 20), 12) <=> b \in 12..31 /\ b \in w
  BY DEF Field, Shl
<1> QED BY <1>1, <1>2, <1>3, <1>4, <1>5, <1>6, <1>7, <1>8

\* What encode puts side by side, by layout.
LEMMA EncodeForms ==
  ASSUME NEW o
  PROVE  /\ o.riscv = "R" => encode(o) = o.opcode \cup (Shl(o.rd, 7) \cup Shl(o.funct3, 12) \cup Shl(o.rs1, 15)
                                                          \cup Shl(o.rs2, 20) \cup Shl(o.funct7, 25))
         /\ o.riscv = "I" /\ o.op \notin DOMAIN SelectShift
              => encode(o) = o.opcode \cup (Shl(o.rd, 7) \cup Shl(o.funct3, 12) \cup Shl(o.rs1, 15) \cup Shl(o.imm_value, 20))
         /\ o.riscv = "I" /\ o.op \in DOMAIN SelectShift
              => encode(o) = o.opcode \cup (Shl(o.rd, 7) \cup Shl(o.funct3, 12) \cup Shl(o.rs1, 15)
                                              \cup (Shl(Field(o.imm_value, 0, 5), 20) \cup Shl(o.funct7, 25)))
         /\ o.riscv = "S" => encode(o) = o.opcode \cup (Shl(o.funct3, 12) \cup Shl(o.rs1, 15) \cup Shl(o.rs2, 20) \cup Pieces(o))
         /\ o.riscv = "U" => encode(o) = o.opcode \cup (Shl(o.rd, 7) \cup Upper(o))
         /\ o.riscv = "P" => encode(o) = o.opcode \cup (Shl(o.rd, 7) \cup Shl(o.funct3, 12) \cup Shl(o.rs1, 15)
                                                          \cup Shl(o.funct12, 20))
BY DEF encode

\* The pieces that encode puts an immediate into, of the immediate of a word.
LEMMA ImmediatePieces ==
  ASSUME NEW w \in Word, NEW imm
  PROVE  /\ imm = signext(w, "I") => \A b : b \in Shl(imm, 20) <=> b \in 20..31 /\ b \in w
         /\ imm = signext(w, "I") \cap 0..4 => \A b : b \in Shl(Field(imm, 0, 5), 20) <=> b \in 20..24 /\ b \in w
<1>1. \A b : b \in signext(w, "I") <=> b \in 0..31 /\ (IF b \in 11..31 THEN 31 \in w ELSE b + 20 \in w)
  <2>1. signext(w, "I") = {b \in 11..31 : 31 \in w} \cup Shl(Field(w, 20, 11), 0)
    BY Signext
  <2>2. \A b : b \in Shl(Field(w, 20, 11), 0) <=> b \in 0..10 /\ b + 20 \in w
    BY DEF Shl, Field
  <2> QED BY <2>1, <2>2
<1>2. ASSUME imm = signext(w, "I"), NEW b PROVE b \in Shl(imm, 20) <=> b \in 20..31 /\ b \in w
  <2>1. b \in Shl(imm, 20) <=> b \in 0..31 /\ b - 20 \in imm
    BY DEF Shl
  <2>2. ASSUME b \in 0..31 PROVE b - 20 \in imm <=> b \in 20..31 /\ b \in w
    <3>1. CASE b = 31
      BY <3>1, <1>1, <1>2
    <3>2. CASE b \in 20..30
      BY <3>2, <1>1, <1>2
    <3>3. CASE b \in 0..19
      BY <3>3, <1>1, <1>2
    <3> QED BY <2>2, <3>1, <3>2, <3>3
  <2> QED BY <2>1, <2>2
<1>3. ASSUME imm = signext(w, "I") \cap 0..4, NEW b PROVE b \in Shl(Field(imm, 0, 5), 20) <=> b \in 20..24 /\ b \in w
  <2>1. b \in Shl(Field(imm, 0, 5), 20) <=> b \in 20..24 /\ b - 20 \in imm
    BY DEF Shl, Field
  <2>2. ASSUME b \in 20..24 PROVE b - 20 \in imm <=> b \in w
    BY <1>1, <1>3, <2>2
  <2> QED BY <2>1, <2>2
<1> QED BY <1>2, <1>3

\* Those of a store's offset, a branch's target, a jump's and an upper immediate.
LEMMA TargetPieces ==
  ASSUME NEW w \in Word, NEW o
  PROVE  /\ o.imm = "S" /\ o.imm_value = signext(w, "S")
              => \A b : b \in Pieces(o) <=> b \in (7..11 \cup 25..30) /\ b \in w
         /\ o.imm = "B" /\ o.imm_value = signext(w, "B")
              => \A b : b \in Pieces(o) <=> b \in (7..11 \cup 25..31) /\ b \in w
         /\ o.imm = "J" /\ o.imm_value = signext(w, "J")
              => \A b : b \in Upper(o) <=> b \in 12..31 /\ b \in w
         /\ o.imm = "U" /\ o.imm_value = Field(w, 12, 20)
              => \A b : b \in Upper(o) <=> b \in 12..31 /\ b \in w
<1>1. ASSUME o.imm = "S", o.imm_value = signext(w, "S"), NEW b
      PROVE  b \in Pieces(o) <=> b \in (7..11 \cup 25..30) /\ b \in w
  <2>1. Pieces(o) = Shl(Field(o.imm_value, 0, 5), 7) \cup Shl(Field(o.imm_value, 5, 6), 25)
    BY <1>1 DEF Pieces
  <2>2. \A i \in 0..10 : i \in o.imm_value <=> IF i \in 0..4 THEN i + 7 \in w ELSE i + 20 \in w
    BY <1>1, Signext DEF Shl, Field
  <2>3. b \in Shl(Field(o.imm_value, 0, 5), 7) <=> b \in 7..11 /\ b - 7 \in o.imm_value
    BY DEF Shl, Field
  <2>4. b \in Shl(Field(o.imm_value, 5, 6), 25) <=> b \in 25..30 /\ b - 20 \in o.imm_value
    BY DEF Shl, Field
  <2>5. CASE b \in 7..11
    BY <2>1, <2>2, <2>3, <2>4, <2>5
  <2>6. CASE b \in 25..30
    BY <2>1, <2>2, <2>3, <2>4, <2>6
  <2> QED BY <2>1, <2>3, <2>4, <2>5, <2>6
<1>2. ASSUME o.imm = "B", o.imm_value = signext(w, "B"), NEW b
      PROVE  b \in Pieces(o) <=> b \in (7..11 \cup 25..31) /\ b \in w
  <2>1. Pieces(o) = Shl(Field(o.imm_value, 11, 1), 7) \cup Shl(Field(o.imm_value, 1, 4), 8)
                        \cup Shl(Field(o.imm_value, 5, 6), 25) \cup Shl(Field(o.imm_value, 12, 1), 31)
    BY <1>2 DEF Pieces
  <2>2. /\ \A i \in 1..4 : i \in o.imm_value <=> i + 7 \in w
        /\ \A i \in 5..10 : i \in o.imm_value <=> i + 20 \in w
        /\ 11 \in o.imm_value <=> 7 \in w
        /\ 12 \in o.imm_value <=> 31 \in w
    BY <1>2, Signext DEF Shl, Field
  <2>3. b \in Shl(Field(o.imm_value, 11, 1), 7) <=> b = 7 /\ 11 \in o.imm_value
    BY DEF Shl, Field
  <2>4. b \in Shl(Field(o.imm_value, 1, 4), 8) <=> b \in 8..11 /\ b - 7 \in o.imm_value
    BY DEF Shl, Field
  <2>5. b \in Shl(Field(o.imm_value, 5, 6), 25) <=> b \in 25..30 /\ b - 20 \in o.imm_value
    BY DEF Shl, Field
  <2>6. b \in Shl(Field(o.imm_value, 12, 1), 31) <=> b = 31 /\ 12 \in o.imm_value
    BY DEF Shl, Field
  <2>7. CASE b = 7 \/ b = 31
    BY <2>1, <2>2, <2>3, <2>4, <2>5, <2>6, <2>7
  <2>8. CASE b \in 8..11
    BY <2>1, <2>2, <2>3, <2>4, <2>5, <2>6, <2>8
  <2>9. CASE b \in 25..30
    BY <2>1, <2>2, <2>3, <2>4, <2>5, <2>6, <2>9
  <2> QED BY <2>1, <2>3, <2>4, <2>5, <2>6, <2>7, <2>8, <2>9
<1>3. ASSUME o.imm = "J", o.imm_value = signext(w, "J"), NEW b
      PROVE  b \in Upper(o) <=> b \in 12..31 /\ b \in w
  <2>1. Upper(o) = Shl(Field(o.imm_value, 12, 8), 12) \cup Shl(Field(o.imm_value, 11, 1), 20)
                        \cup Shl(Field(o.imm_value, 1, 10), 21) \cup Shl(Field(o.imm_value, 20, 1), 31)
    BY <1>3 DEF Upper
  <2>2. /\ \A i \in 1..10 : i \in o.imm_value <=> i + 20 \in w
        /\ \A i \in 12..19 : i \in o.imm_value <=> i \in w
        /\ 11 \in o.imm_value <=> 20 \in w
        /\ 20 \in o.imm_value <=> 31 \in w
    BY <1>3, Signext DEF Shl, Field
  <2>3. b \in Shl(Field(o.imm_value, 12, 8), 12) <=> b \in 12..19 /\ b \in o.imm_value
    BY DEF Shl, Field
  <2>4. b \in Shl(Field(o.imm_value, 11, 1), 20) <=> b = 20 /\ 11 \in o.imm_value
    BY DEF Shl, Field
  <2>5. b \in Shl(Field(o.imm_value, 1, 10), 21) <=> b \in 21..30 /\ b - 20 \in o.imm_value
    BY DEF Shl, Field
  <2>6. b \in Shl(Field(o.imm_value, 20, 1), 31) <=> b = 31 /\ 20 \in o.imm_value
    BY DEF Shl, Field
  <2>7. CASE b = 20 \/ b = 31
    BY <2>1, <2>2, <2>3, <2>4, <2>5, <2>6, <2>7
  <2>8. CASE b \in 12..19
    BY <2>1, <2>2, <2>3, <2>4, <2>5, <2>6, <2>8
  <2>9. CASE b \in 21..30
    BY <2>1, <2>2, <2>3, <2>4, <2>5, <2>6, <2>9
  <2> QED BY <2>1, <2>3, <2>4, <2>5, <2>6, <2>7, <2>8, <2>9
<1>4. ASSUME o.imm = "U", o.imm_value = Field(w, 12, 20), NEW b
      PROVE  b \in Upper(o) <=> b \in 12..31 /\ b \in w
  <2>1. Upper(o) = Shl(Field(o.imm_value, 0, 20), 12)
    BY <1>4 DEF Upper
  <2>2. \A i : i \in Field(o.imm_value, 0, 20) <=> i \in 0..19 /\ i + 12 \in w
    BY <1>4 DEF Field
  <2> QED BY <2>1, <2>2 DEF Shl
<1> QED BY <1>1, <1>2, <1>3, <1>4

\* How the opcode of a supported instruction lays it out.
LEMMA NamedFormat ==
  ASSUME NEW o, NEW w \in Word, NEW p, p = Decoded(o, w), p.op # "INVALID"
  PROVE  /\ p.riscv \in {"R", "I", "S", "U", "P"}
         /\ p.riscv = "I" => p.imm = "I" /\ (p.op \in DOMAIN SelectShift <=> Shifts(w))
         /\ p.riscv = "S" => p.imm = (IF IsStore(p.op) THEN "S" ELSE "B")
         /\ p.riscv = "U" => p.imm = (IF p.op = "jal" THEN "J" ELSE "U")
         /\ p.riscv # "S" => ~IsStore(p.op)
<1> DEFINE op == Field(w, 0, 7)
           f3 == Field(w, 12, 3)
           g == Field(w, 25, 7)
<1>1. p.riscv = Format(o, op).riscv /\ p.imm = Format(o, op).imm
  BY DecodedFields
<1>2. \/ p.op \in decoder(w)
      \/ p.op = "jalr" /\ op = Bits(103)
      \/ p.op = "wfi" /\ op = Bits(115)
  BY NamedByCore
<1>3. /\ \A a, b \in Codes : Bits(a) = Bits(b) <=> a = b
      /\ {55, 23, 111, 103, 99, 3, 35, 19, 51, 115} \subseteq Codes
  BY Distinct DEF Codes
<1>4. \/ Means(p.op, op, f3, g)
      \/ p.op = "jalr" /\ op = Bits(103)
      \/ p.op \in {"csrrw", "csrrs", "csrrc", "wfi"} /\ op = Bits(115)
  <2>1. CASE p.op \in decoder(w)
    BY <2>1, CoreMeans, WfiFields
  <2> QED BY <1>2, <2>1
<1>5. p.op \in DOMAIN SelectShift <=> Shifts(w)
  <2>1. CASE p.op \in decoder(w)
    BY <2>1, CoreOpcode DEF Shifts
  <2>2. CASE p.op \in {"jalr", "wfi"} /\ op \in {Bits(103), Bits(115)}
    BY <2>2, <1>3, SelectNames DEF Shifts
  <2> QED BY <1>2, <2>1, <2>2
<1> HIDE DEF op, f3, g
<1>6. IsStore(p.op) <=> op = Bits(35)
  BY <1>3, <1>4, SelectNames DEF Means, IsStore
<1>7. p.op = "jal" <=> op = Bits(111)
  BY <1>3, <1>4, SelectNames DEF Means
<1>8. op \in {Bits(55), Bits(23), Bits(111), Bits(103), Bits(99), Bits(3), Bits(35), Bits(19), Bits(51), Bits(115)}
  BY <1>4 DEF Means
<1>9. CASE op \in {Bits(55), Bits(23)}
  <2>1. p.riscv = "U" /\ p.imm = "U" /\ p.op # "jal" /\ ~IsStore(p.op)
    BY <1>1, <1>3, <1>6, <1>7, <1>9, FormatOf
  <2> QED BY <2>1
<1>10. CASE op = Bits(111)
  <2>1. p.riscv = "U" /\ p.imm = "J" /\ p.op = "jal" /\ ~IsStore(p.op)
    BY <1>1, <1>3, <1>6, <1>7, <1>10, FormatOf
  <2> QED BY <2>1
<1>11. CASE op \in {Bits(103), Bits(3), Bits(19)}
  <2>1. p.riscv = "I" /\ p.imm = "I" /\ ~IsStore(p.op)
    BY <1>1, <1>3, <1>6, <1>11, FormatOf
  <2> QED BY <2>1, <1>5
<1>12. CASE op = Bits(99)
  <2>1. p.riscv = "S" /\ p.imm = "B" /\ ~IsStore(p.op)
    BY <1>1, <1>3, <1>6, <1>12, FormatOf
  <2> QED BY <2>1
<1>13. CASE op = Bits(35)
  <2>1. p.riscv = "S" /\ p.imm = "S" /\ IsStore(p.op)
    BY <1>1, <1>6, <1>13, FormatOf
  <2> QED BY <2>1
<1>14. CASE op \in {Bits(51), Bits(115)}
  <2>1. p.riscv \in {"R", "P"} /\ ~IsStore(p.op)
    BY <1>1, <1>3, <1>6, <1>14, FormatOf
  <2> QED BY <2>1
<1> QED BY <1>8, <1>9, <1>10, <1>11, <1>12, <1>13, <1>14

\* Encoding what was decoded gives the word back, without the sign of a
\* store's offset.
LEMMA Reencodes ==
  ASSUME NEW o, NEW w \in Word, NEW p, p = Decoded(o, w), p.op # "INVALID"
  PROVE  encode(p) = IF IsStore(p.op) THEN w \ {31} ELSE w
<1>1. /\ p.opcode = Field(w, 0, 7) /\ p.funct3 = Field(w, 12, 3) /\ p.funct7 = Field(w, 25, 7)
      /\ p.funct12 = Field(w, 20, 12) /\ p.rs1 = Field(w, 15, 5) /\ p.rs2 = Field(w, 20, 5)
      /\ p.rd = Field(w, 7, 5)
  BY DecodedFields
<1>2. /\ \A b : b \in p.opcode <=> b \in 0..6 /\ b \in w
      /\ \A b : b \in Shl(p.rd, 7) <=> b \in 7..11 /\ b \in w
      /\ \A b : b \in Shl(p.funct3, 12) <=> b \in 12..14 /\ b \in w
      /\ \A b : b \in Shl(p.rs1, 15) <=> b \in 15..19 /\ b \in w
      /\ \A b : b \in Shl(p.rs2, 20) <=> b \in 20..24 /\ b \in w
      /\ \A b : b \in Shl(p.funct7, 25) <=> b \in 25..31 /\ b \in w
      /\ \A b : b \in Shl(p.funct12, 20) <=> b \in 20..31 /\ b \in w
  BY <1>1, Slices
<1>3. \A b \in w : b \in 0..31
  BY DEF Word
<1>4. CASE p.riscv = "R"
  <2>1. ~IsStore(p.op)
    BY <1>4, NamedFormat
  <2>2. encode(p) = p.opcode \cup (Shl(p.rd, 7) \cup Shl(p.funct3, 12) \cup Shl(p.rs1, 15)
                                     \cup Shl(p.rs2, 20) \cup Shl(p.funct7, 25))
    BY <1>4, EncodeForms
  <2>3. \A b : b \in encode(p) <=> b \in w
    BY <1>2, <1>3, <2>2
  <2> QED BY <2>1, <2>3
<1>5. CASE p.riscv = "P"
  <2>1. ~IsStore(p.op)
    BY <1>5, NamedFormat
  <2>2. encode(p) = p.opcode \cup (Shl(p.rd, 7) \cup Shl(p.funct3, 12) \cup Shl(p.rs1, 15) \cup Shl(p.funct12, 20))
    BY <1>5, EncodeForms
  <2>3. \A b : b \in encode(p) <=> b \in w
    BY <1>2, <1>3, <2>2
  <2> QED BY <2>1, <2>3
<1>6. CASE p.riscv = "I"
  <2>1. ~IsStore(p.op) /\ p.imm = "I" /\ (p.op \in DOMAIN SelectShift <=> Shifts(w))
    BY <1>6, NamedFormat
  <2>2. CASE Shifts(w)
    <3>1. encode(p) = p.opcode \cup (Shl(p.rd, 7) \cup Shl(p.funct3, 12) \cup Shl(p.rs1, 15)
                                       \cup (Shl(Field(p.imm_value, 0, 5), 20) \cup Shl(p.funct7, 25)))
      BY <1>6, <2>1, <2>2, EncodeForms
    <3>2. p.imm_value = signext(w, "I") \cap 0..4
      BY <2>1, <2>2, DecodedImmediate
    <3>3. \A b : b \in Shl(Field(p.imm_value, 0, 5), 20) <=> b \in 20..24 /\ b \in w
      BY <3>2, ImmediatePieces
    <3>4. \A b : b \in encode(p) <=> b \in w
      BY <1>2, <1>3, <3>1, <3>3
    <3> QED BY <2>1, <3>4
  <2>3. CASE ~Shifts(w)
    <3>1. encode(p) = p.opcode \cup (Shl(p.rd, 7) \cup Shl(p.funct3, 12) \cup Shl(p.rs1, 15) \cup Shl(p.imm_value, 20))
      BY <1>6, <2>1, <2>3, EncodeForms
    <3>2. p.imm_value = signext(w, "I")
      BY <2>1, <2>3, DecodedImmediate
    <3>3. \A b : b \in Shl(p.imm_value, 20) <=> b \in 20..31 /\ b \in w
      BY <3>2, ImmediatePieces
    <3>4. \A b : b \in encode(p) <=> b \in w
      BY <1>2, <1>3, <3>1, <3>3
    <3> QED BY <2>1, <3>4
  <2> QED BY <2>2, <2>3
<1>7. CASE p.riscv = "S"
  <2>1. p.imm = IF IsStore(p.op) THEN "S" ELSE "B"
    BY <1>7, NamedFormat
  <2>2. encode(p) = p.opcode \cup (Shl(p.funct3, 12) \cup Shl(p.rs1, 15) \cup Shl(p.rs2, 20) \cup Pieces(p))
    BY <1>7, EncodeForms
  <2>3. CASE IsStore(p.op)
    <3>1. p.imm = "S" /\ p.imm_value = signext(w, "S")
      BY <2>1, <2>3, DecodedImmediate
    <3>2. \A b : b \in Pieces(p) <=> b \in (7..11 \cup 25..30) /\ b \in w
      BY <3>1, TargetPieces
    <3>3. \A b : b \in encode(p) <=> b \in w /\ b # 31
      BY <1>2, <1>3, <2>2, <3>2
    <3> QED BY <2>3, <3>3
  <2>4. CASE ~IsStore(p.op)
    <3>1. p.imm = "B" /\ p.imm_value = signext(w, "B")
      BY <2>1, <2>4, DecodedImmediate
    <3>2. \A b : b \in Pieces(p) <=> b \in (7..11 \cup 25..31) /\ b \in w
      BY <3>1, TargetPieces
    <3>3. \A b : b \in encode(p) <=> b \in w
      BY <1>2, <1>3, <2>2, <3>2
    <3> QED BY <2>4, <3>3
  <2> QED BY <2>3, <2>4
<1>8. CASE p.riscv = "U"
  <2>1. ~IsStore(p.op) /\ p.imm = IF p.op = "jal" THEN "J" ELSE "U"
    BY <1>8, NamedFormat
  <2>2. encode(p) = p.opcode \cup (Shl(p.rd, 7) \cup Upper(p))
    BY <1>8, EncodeForms
  <2>3. \/ p.imm = "J" /\ p.imm_value = signext(w, "J")
        \/ p.imm = "U" /\ p.imm_value = Field(w, 12, 20)
    BY <2>1, DecodedImmediate
  <2>4. \A b : b \in Upper(p) <=> b \in 12..31 /\ b \in w
    BY <2>3, TargetPieces
  <2>5. \A b : b \in encode(p) <=> b \in w
    BY <1>2, <1>3, <2>2, <2>4
  <2> QED BY <2>1, <2>5
<1> QED BY <1>4, <1>5, <1>6, <1>7, <1>8, NamedFormat

\* The fields that select assigns are the instruction's.
LEMMA Selected ==
  ASSUME NEW op \in Ops, NEW junk, NEW s, s = select(op, junk)
  PROVE  /\ DOMAIN s = {"opcode", "riscv", "imm", "funct3", "funct7", "funct12"}
         /\ \/ Means(op, s.opcode, s.funct3, s.funct7)
            \/ op = "jalr" /\ s.opcode = Bits(103) /\ s.funct3 = Bits(0)
            \/ op = "wfi" /\ s.opcode = Bits(115) /\ s.funct3 = Bits(0) /\ s.funct12 = Bits(261)
         /\ op \in DOMAIN SelectArithmetic \cup DOMAIN SelectMultiply => s.riscv = "R" /\ s.imm = "R"
         /\ op \in DOMAIN SelectImmediate \cup DOMAIN SelectShift \cup DOMAIN SelectLoad \cup {"jalr"}
              => s.riscv = "I" /\ s.imm = "I"
         /\ op \in DOMAIN SelectBranch => s.riscv = "S" /\ s.imm = "B"
         /\ op \in DOMAIN SelectStore => s.riscv = "S" /\ s.imm = "S"
         /\ op \in {"lui", "auipc", "jal"} => s.riscv = "U" /\ s.imm = "U"
         /\ op = "wfi" => s.riscv = "P" /\ s.imm = "R"
<1>0. Bits(0) = {}
  BY BitsValues
<1>1. CASE op \in DOMAIN SelectImmediate
  <2>1. s = [opcode |-> Bits(19), riscv |-> "I", imm |-> "I", funct3 |-> Bits(SelectImmediate[op]), funct7 |-> junk,
             funct12 |-> junk]
    BY <1>1, SelectNames DEF select
  <2>2. Means(op, s.opcode, s.funct3, s.funct7)
    BY <1>1, <2>1 DEF Means
  <2> QED BY <1>1, <2>1, <2>2, SelectNames
<1>2. CASE op \in DOMAIN SelectShift
  <2>1. s = [opcode |-> Bits(19), riscv |-> "I", imm |-> "I", funct3 |-> Bits(SelectShift[op][1]),
             funct7 |-> Bits(SelectShift[op][2]), funct12 |-> junk]
    BY <1>2, SelectNames DEF select
  <2>2. Means(op, s.opcode, s.funct3, s.funct7)
    BY <1>2, <2>1 DEF Means
  <2> QED BY <1>2, <2>1, <2>2, SelectNames
<1>3. CASE op \in DOMAIN SelectArithmetic
  <2>1. s = [opcode |-> Bits(51), riscv |-> "R", imm |-> "R", funct3 |-> Bits(SelectArithmetic[op][1]),
             funct7 |-> Bits(SelectArithmetic[op][2]), funct12 |-> junk]
    BY <1>3, SelectNames DEF select
  <2>2. Means(op, s.opcode, s.funct3, s.funct7)
    BY <1>3, <2>1 DEF Means
  <2> QED BY <1>3, <2>1, <2>2, SelectNames
<1>4. CASE op \in DOMAIN SelectMultiply
  <2>1. s = [opcode |-> Bits(51), riscv |-> "R", imm |-> "R", funct3 |-> Bits(SelectMultiply[op][1]),
             funct7 |-> Bits(SelectMultiply[op][2]), funct12 |-> junk]
    BY <1>4, SelectNames DEF select
  <2>2. Means(op, s.opcode, s.funct3, s.funct7)
    BY <1>4, <2>1 DEF Means
  <2> QED BY <1>4, <2>1, <2>2, SelectNames
<1>5. CASE op \in DOMAIN SelectBranch
  <2>1. s = [opcode |-> Bits(99), riscv |-> "S", imm |-> "B", funct3 |-> Bits(SelectBranch[op]), funct7 |-> junk,
             funct12 |-> junk]
    BY <1>5, SelectNames DEF select
  <2>2. Means(op, s.opcode, s.funct3, s.funct7)
    BY <1>5, <2>1 DEF Means
  <2> QED BY <1>5, <2>1, <2>2, SelectNames
<1>6. CASE op \in DOMAIN SelectLoad
  <2>1. s = [opcode |-> Bits(3), riscv |-> "I", imm |-> "I", funct3 |-> Bits(SelectLoad[op]), funct7 |-> junk,
             funct12 |-> junk]
    BY <1>6, SelectNames DEF select
  <2>2. Means(op, s.opcode, s.funct3, s.funct7)
    BY <1>6, <2>1 DEF Means
  <2> QED BY <1>6, <2>1, <2>2, SelectNames
<1>7. CASE op \in DOMAIN SelectStore
  <2>1. s = [opcode |-> Bits(35), riscv |-> "S", imm |-> "S", funct3 |-> Bits(SelectStore[op]), funct7 |-> junk,
             funct12 |-> junk]
    BY <1>7, SelectNames DEF select
  <2>2. Means(op, s.opcode, s.funct3, s.funct7)
    BY <1>7, <2>1 DEF Means
  <2> QED BY <1>7, <2>1, <2>2, SelectNames
<1>8. CASE op \in {"lui", "auipc", "jal"}
  <2>1. /\ DOMAIN s = {"opcode", "riscv", "imm", "funct3", "funct7", "funct12"}
        /\ s.riscv = "U" /\ s.imm = "U"
        /\ op = "lui" => s.opcode = Bits(55)
        /\ op = "auipc" => s.opcode = Bits(23)
        /\ op = "jal" => s.opcode = Bits(111)
    BY <1>8, SelectNames DEF select
  <2>2. Means(op, s.opcode, s.funct3, s.funct7)
    BY <1>8, <2>1 DEF Means
  <2> QED BY <1>8, <2>1, <2>2, SelectNames
<1>9. CASE op = "jalr"
  <2>1. s = [opcode |-> Bits(103), riscv |-> "I", imm |-> "I", funct3 |-> Bits(0), funct7 |-> junk, funct12 |-> junk]
    BY <1>9, SelectNames DEF select
  <2> QED BY <1>9, <2>1, SelectNames
<1>10. CASE op = "wfi"
  <2>1. s = [opcode |-> Bits(115), riscv |-> "P", imm |-> "R", funct3 |-> {}, funct7 |-> junk, funct12 |-> Bits(261)]
    BY <1>10, SelectNames DEF select
  <2> QED BY <1>0, <1>10, <2>1, SelectNames
<1> QED BY <1>1, <1>2, <1>3, <1>4, <1>5, <1>6, <1>7, <1>8, <1>9, <1>10 DEF Ops

\* The fields that encode put side by side.
Sized(o) ==
  /\ o.opcode \in SUBSET (0..6) /\ o.rd \in SUBSET (0..4) /\ o.rs1 \in SUBSET (0..4) /\ o.rs2 \in SUBSET (0..4)
  /\ o.riscv # "U" => o.funct3 \in SUBSET (0..2)

\* Where encode puts the fields.
LEMMA Parts7 == ASSUME NEW o, Sized(o)
               PROVE  /\ \A b : b \in Shl(o.rd, 7) <=> b \in 7..11 /\ b - 7 \in o.rd
                      /\ \A b : b \in Shl(o.rs1, 15) <=> b \in 15..19 /\ b - 15 \in o.rs1
                      /\ \A b : b \in Shl(o.rs2, 20) <=> b \in 20..24 /\ b - 20 \in o.rs2
                      /\ o.riscv # "U" => \A b : b \in Shl(o.funct3, 12) <=> b \in 12..14 /\ b - 12 \in o.funct3
                      /\ \A x \in SUBSET (0..6) : \A b : b \in Shl(x, 25) <=> b \in 25..31 /\ b - 25 \in x
                      /\ \A x, b : b \in Shl(x, 20) => b \in 0..31 /\ b - 20 \in x
<1> DEFINE rd == o.rd
           rs1 == o.rs1
           rs2 == o.rs2
           f3 == o.funct3
<1>1. rd \in SUBSET (0..4) /\ rs1 \in SUBSET (0..4) /\ rs2 \in SUBSET (0..4) /\ (o.riscv # "U" => f3 \in SUBSET (0..2))
  BY DEF Sized
<1> HIDE DEF rd, rs1, rs2, f3
<1>2. \A b : b \in Shl(rd, 7) <=> b \in 7..11 /\ b - 7 \in rd
  BY <1>1 DEF Shl
<1>3. \A b : b \in Shl(rs1, 15) <=> b \in 15..19 /\ b - 15 \in rs1
  BY <1>1 DEF Shl
<1>4. \A b : b \in Shl(rs2, 20) <=> b \in 20..24 /\ b - 20 \in rs2
  BY <1>1 DEF Shl
<1>5. o.riscv # "U" => \A b : b \in Shl(f3, 12) <=> b \in 12..14 /\ b - 12 \in f3
  BY <1>1 DEF Shl
<1>6. \A x \in SUBSET (0..6) : \A b : b \in Shl(x, 25) <=> b \in 25..31 /\ b - 25 \in x
  BY DEF Shl
<1>7. \A x, b : b \in Shl(x, 20) => b \in 0..31 /\ b - 20 \in x
  BY DEF Shl
<1> QED BY <1>2, <1>3, <1>4, <1>5, <1>6, <1>7 DEF rd, rs1, rs2, f3

\* The fields of register operations come back from the word.
LEMMA BackR ==
  ASSUME NEW o, Sized(o), o.riscv = "R", o.funct7 \in SUBSET (0..6), NEW w, w = encode(o)
  PROVE  /\ Field(w, 0, 7) = o.opcode /\ Field(w, 7, 5) = o.rd /\ Field(w, 12, 3) = o.funct3
         /\ Field(w, 15, 5) = o.rs1 /\ Field(w, 20, 5) = o.rs2 /\ Field(w, 25, 7) = o.funct7
<1> DEFINE op == o.opcode
           rd == o.rd
           f3 == o.funct3
           rs1 == o.rs1
           rs2 == o.rs2
           f7 == o.funct7
<1>1. /\ op \in SUBSET (0..6) /\ rd \in SUBSET (0..4) /\ f3 \in SUBSET (0..2)
      /\ rs1 \in SUBSET (0..4) /\ rs2 \in SUBSET (0..4) /\ f7 \in SUBSET (0..6)
  BY DEF Sized
<1>2. w = op \cup (Shl(rd, 7) \cup Shl(f3, 12) \cup Shl(rs1, 15) \cup Shl(rs2, 20) \cup Shl(f7, 25))
  BY EncodeForms
<1>3. /\ \A b : b \in Shl(rd, 7) <=> b \in 7..11 /\ b - 7 \in rd
      /\ \A b : b \in Shl(f3, 12) <=> b \in 12..14 /\ b - 12 \in f3
      /\ \A b : b \in Shl(rs1, 15) <=> b \in 15..19 /\ b - 15 \in rs1
      /\ \A b : b \in Shl(rs2, 20) <=> b \in 20..24 /\ b - 20 \in rs2
      /\ \A b : b \in Shl(f7, 25) <=> b \in 25..31 /\ b - 25 \in f7
  BY Parts7
<1> HIDE DEF op, rd, f3, rs1, rs2, f7
<1>4. Field(w, 0, 7) = op
  <2>1. \A b \in 0..6 : b \in w <=> b \in op
    BY <1>1, <1>2, <1>3
  <2> QED BY <1>1, <2>1, OpcodeIs
<1>5. Field(w, 7, 5) = rd
  <2>1. \A b \in 0..4 : b + 7 \in w <=> b \in rd
    BY <1>1, <1>2, <1>3
  <2> QED BY <1>1, <2>1, RegisterIs
<1>6. Field(w, 12, 3) = f3
  <2>1. \A b \in 0..2 : b + 12 \in w <=> b \in f3
    BY <1>1, <1>2, <1>3
  <2> QED BY <1>1, <2>1, Funct3Is
<1>7. Field(w, 15, 5) = rs1
  <2>1. \A b \in 0..4 : b + 15 \in w <=> b \in rs1
    BY <1>1, <1>2, <1>3
  <2> QED BY <1>1, <2>1, RegisterIs
<1>8. Field(w, 20, 5) = rs2
  <2>1. \A b \in 0..4 : b + 20 \in w <=> b \in rs2
    BY <1>1, <1>2, <1>3
  <2> QED BY <1>1, <2>1, RegisterIs
<1>9. Field(w, 25, 7) = f7
  <2>1. \A b \in 0..6 : b + 25 \in w <=> b \in f7
    BY <1>1, <1>2, <1>3
  <2> QED BY <1>1, <2>1, Funct7Is
<1> QED BY <1>4, <1>5, <1>6, <1>7, <1>8, <1>9 DEF op, rd, f3, rs1, rs2, f7

\* Those of wfi.
LEMMA BackP ==
  ASSUME NEW o, Sized(o), o.riscv = "P", o.funct12 \in SUBSET (0..11), NEW w, w = encode(o)
  PROVE  /\ Field(w, 0, 7) = o.opcode /\ Field(w, 7, 5) = o.rd /\ Field(w, 12, 3) = o.funct3
         /\ Field(w, 15, 5) = o.rs1 /\ Field(w, 20, 12) = o.funct12
<1> DEFINE op == o.opcode
           rd == o.rd
           f3 == o.funct3
           rs1 == o.rs1
           f12 == o.funct12
<1>1. /\ op \in SUBSET (0..6) /\ rd \in SUBSET (0..4) /\ f3 \in SUBSET (0..2)
      /\ rs1 \in SUBSET (0..4) /\ f12 \in SUBSET (0..11)
  BY DEF Sized
<1>2. w = op \cup (Shl(rd, 7) \cup Shl(f3, 12) \cup Shl(rs1, 15) \cup Shl(f12, 20))
  BY EncodeForms
<1>3. /\ \A b : b \in Shl(rd, 7) <=> b \in 7..11 /\ b - 7 \in rd
      /\ \A b : b \in Shl(f3, 12) <=> b \in 12..14 /\ b - 12 \in f3
      /\ \A b : b \in Shl(rs1, 15) <=> b \in 15..19 /\ b - 15 \in rs1
      /\ \A b : b \in Shl(f12, 20) <=> b \in 20..31 /\ b - 20 \in f12
  BY Parts7 DEF Shl
<1> HIDE DEF op, rd, f3, rs1, f12
<1>4. Field(w, 0, 7) = op
  <2>1. \A b \in 0..6 : b \in w <=> b \in op
    BY <1>1, <1>2, <1>3
  <2> QED BY <1>1, <2>1, OpcodeIs
<1>5. Field(w, 7, 5) = rd
  <2>1. \A b \in 0..4 : b + 7 \in w <=> b \in rd
    BY <1>1, <1>2, <1>3
  <2> QED BY <1>1, <2>1, RegisterIs
<1>6. Field(w, 12, 3) = f3
  <2>1. \A b \in 0..2 : b + 12 \in w <=> b \in f3
    BY <1>1, <1>2, <1>3
  <2> QED BY <1>1, <2>1, Funct3Is
<1>7. Field(w, 15, 5) = rs1
  <2>1. \A b \in 0..4 : b + 15 \in w <=> b \in rs1
    BY <1>1, <1>2, <1>3
  <2> QED BY <1>1, <2>1, RegisterIs
<1>8. Field(w, 20, 12) = f12
  <2>1. \A b \in 0..11 : b + 20 \in w <=> b \in f12
    BY <1>1, <1>2, <1>3
  <2> QED BY <1>1, <2>1, Funct12Is
<1> QED BY <1>4, <1>5, <1>6, <1>7, <1>8 DEF op, rd, f3, rs1, f12

\* Those of operations with an immediate.
LEMMA BackI ==
  ASSUME NEW o, Sized(o), o.riscv = "I", o.op \notin DOMAIN SelectShift, o.imm_value \in Word, NEW w, w = encode(o)
  PROVE  /\ Field(w, 0, 7) = o.opcode /\ Field(w, 7, 5) = o.rd /\ Field(w, 12, 3) = o.funct3
         /\ Field(w, 15, 5) = o.rs1
         /\ \A b \in 20..31 : b \in w <=> b - 20 \in o.imm_value
<1> DEFINE op == o.opcode
           rd == o.rd
           f3 == o.funct3
           rs1 == o.rs1
           rest == Shl(o.imm_value, 20)
<1>1. /\ op \in SUBSET (0..6) /\ rd \in SUBSET (0..4) /\ f3 \in SUBSET (0..2)
      /\ rs1 \in SUBSET (0..4)
  BY DEF Sized
<1>2. w = op \cup (Shl(rd, 7) \cup Shl(f3, 12) \cup Shl(rs1, 15) \cup rest)
  BY EncodeForms
<1>3. /\ \A b : b \in Shl(rd, 7) <=> b \in 7..11 /\ b - 7 \in rd
      /\ \A b : b \in Shl(f3, 12) <=> b \in 12..14 /\ b - 12 \in f3
      /\ \A b : b \in Shl(rs1, 15) <=> b \in 15..19 /\ b - 15 \in rs1
      /\ \A b : b \in rest <=> b \in 20..31 /\ b - 20 \in o.imm_value
  <2>1. \A b : b \in rest <=> b \in 20..31 /\ b - 20 \in o.imm_value
    BY DEF Shl, Word
  <2> QED BY <2>1, Parts7
<1> HIDE DEF op, rd, f3, rs1, rest
<1>4. Field(w, 0, 7) = op
  <2>1. \A b \in 0..6 : b \in w <=> b \in op
    BY <1>1, <1>2, <1>3
  <2> QED BY <1>1, <2>1, OpcodeIs
<1>5. Field(w, 7, 5) = rd
  <2>1. \A b \in 0..4 : b + 7 \in w <=> b \in rd
    BY <1>1, <1>2, <1>3
  <2> QED BY <1>1, <2>1, RegisterIs
<1>6. Field(w, 12, 3) = f3
  <2>1. \A b \in 0..2 : b + 12 \in w <=> b \in f3
    BY <1>1, <1>2, <1>3
  <2> QED BY <1>1, <2>1, Funct3Is
<1>7. Field(w, 15, 5) = rs1
  <2>1. \A b \in 0..4 : b + 15 \in w <=> b \in rs1
    BY <1>1, <1>2, <1>3
  <2> QED BY <1>1, <2>1, RegisterIs
<1>8. \A b \in 20..31 : b \in w <=> b - 20 \in o.imm_value
  BY <1>1, <1>2, <1>3
<1> QED BY <1>4, <1>5, <1>6, <1>7, <1>8 DEF op, rd, f3, rs1

\* Those of shifts.
LEMMA BackShift ==
  ASSUME NEW o, Sized(o), o.riscv = "I", o.op \in DOMAIN SelectShift, o.funct7 \in SUBSET (0..6), NEW w, w = encode(o)
  PROVE  /\ Field(w, 0, 7) = o.opcode /\ Field(w, 7, 5) = o.rd /\ Field(w, 12, 3) = o.funct3
         /\ Field(w, 15, 5) = o.rs1 /\ Field(w, 25, 7) = o.funct7
         /\ \A b \in 20..24 : b \in w <=> b - 20 \in o.imm_value
<1> DEFINE op == o.opcode
           rd == o.rd
           f3 == o.funct3
           rs1 == o.rs1
           f7 == o.funct7
           rest == Shl(Field(o.imm_value, 0, 5), 20)
<1>1. /\ op \in SUBSET (0..6) /\ rd \in SUBSET (0..4) /\ f3 \in SUBSET (0..2)
      /\ rs1 \in SUBSET (0..4) /\ f7 \in SUBSET (0..6)
  BY DEF Sized
<1>2. w = op \cup (Shl(rd, 7) \cup Shl(f3, 12) \cup Shl(rs1, 15)
                     \cup (rest \cup Shl(f7, 25)))
  BY EncodeForms
<1>3. /\ \A b : b \in Shl(rd, 7) <=> b \in 7..11 /\ b - 7 \in rd
      /\ \A b : b \in Shl(f3, 12) <=> b \in 12..14 /\ b - 12 \in f3
      /\ \A b : b \in Shl(rs1, 15) <=> b \in 15..19 /\ b - 15 \in rs1
      /\ \A b : b \in Shl(f7, 25) <=> b \in 25..31 /\ b - 25 \in f7
      /\ \A b : b \in rest <=> b \in 20..24 /\ b - 20 \in o.imm_value
  <2>1. \A b : b \in rest <=> b \in 20..24 /\ b - 20 \in o.imm_value
    BY DEF Shl, Field
  <2> QED BY <2>1, Parts7
<1> HIDE DEF op, rd, f3, rs1, f7, rest
<1>4. Field(w, 0, 7) = op
  <2>1. \A b \in 0..6 : b \in w <=> b \in op
    BY <1>1, <1>2, <1>3
  <2> QED BY <1>1, <2>1, OpcodeIs
<1>5. Field(w, 7, 5) = rd
  <2>1. \A b \in 0..4 : b + 7 \in w <=> b \in rd
    BY <1>1, <1>2, <1>3
  <2> QED BY <1>1, <2>1, RegisterIs
<1>6. Field(w, 12, 3) = f3
  <2>1. \A b \in 0..2 : b + 12 \in w <=> b \in f3
    BY <1>1, <1>2, <1>3
  <2> QED BY <1>1, <2>1, Funct3Is
<1>7. Field(w, 15, 5) = rs1
  <2>1. \A b \in 0..4 : b + 15 \in w <=> b \in rs1
    BY <1>1, <1>2, <1>3
  <2> QED BY <1>1, <2>1, RegisterIs
<1>8. Field(w, 25, 7) = f7
  <2>1. \A b \in 0..6 : b + 25 \in w <=> b \in f7
    BY <1>1, <1>2, <1>3
  <2> QED BY <1>1, <2>1, Funct7Is
<1>9. \A b \in 20..24 : b \in w <=> b - 20 \in o.imm_value
  BY <1>1, <1>2, <1>3
<1> QED BY <1>4, <1>5, <1>6, <1>7, <1>8, <1>9 DEF op, rd, f3, rs1, f7

\* Those of branches and stores.
LEMMA BackS ==
  ASSUME NEW o, Sized(o), o.riscv = "S", NEW w, w = encode(o)
  PROVE  /\ Field(w, 0, 7) = o.opcode /\ Field(w, 12, 3) = o.funct3 /\ Field(w, 15, 5) = o.rs1
         /\ Field(w, 20, 5) = o.rs2
         /\ \A b \in (7..11 \cup 25..31) : b \in w <=> b \in Pieces(o)
<1> DEFINE op == o.opcode
           f3 == o.funct3
           rs1 == o.rs1
           rs2 == o.rs2
           rest == Pieces(o)
<1>1. /\ op \in SUBSET (0..6) /\ f3 \in SUBSET (0..2) /\ rs1 \in SUBSET (0..4)
      /\ rs2 \in SUBSET (0..4)
  BY DEF Sized
<1>2. w = op \cup (Shl(f3, 12) \cup Shl(rs1, 15) \cup Shl(rs2, 20) \cup rest)
  BY EncodeForms
<1>3. /\ \A b : b \in Shl(f3, 12) <=> b \in 12..14 /\ b - 12 \in f3
      /\ \A b : b \in Shl(rs1, 15) <=> b \in 15..19 /\ b - 15 \in rs1
      /\ \A b : b \in Shl(rs2, 20) <=> b \in 20..24 /\ b - 20 \in rs2
      /\ \A b : b \in rest => b \in 7..11 \/ b \in 25..31
  BY Parts7 DEF Shl, Field, Pieces, Upper
<1> HIDE DEF op, f3, rs1, rs2, rest
<1>4. Field(w, 0, 7) = op
  <2>1. \A b \in 0..6 : b \in w <=> b \in op
    BY <1>1, <1>2, <1>3
  <2> QED BY <1>1, <2>1, OpcodeIs
<1>5. Field(w, 12, 3) = f3
  <2>1. \A b \in 0..2 : b + 12 \in w <=> b \in f3
    BY <1>1, <1>2, <1>3
  <2> QED BY <1>1, <2>1, Funct3Is
<1>6. Field(w, 15, 5) = rs1
  <2>1. \A b \in 0..4 : b + 15 \in w <=> b \in rs1
    BY <1>1, <1>2, <1>3
  <2> QED BY <1>1, <2>1, RegisterIs
<1>7. Field(w, 20, 5) = rs2
  <2>1. \A b \in 0..4 : b + 20 \in w <=> b \in rs2
    BY <1>1, <1>2, <1>3
  <2> QED BY <1>1, <2>1, RegisterIs
<1>8. \A b \in (7..11 \cup 25..31) : b \in w <=> b \in rest
  BY <1>1, <1>2, <1>3
<1> QED BY <1>4, <1>5, <1>6, <1>7, <1>8 DEF op, f3, rs1, rs2, rest

\* Those of jumps and upper immediates.
LEMMA BackU ==
  ASSUME NEW o, Sized(o), o.riscv = "U", NEW w, w = encode(o)
  PROVE  /\ Field(w, 0, 7) = o.opcode /\ Field(w, 7, 5) = o.rd
         /\ \A b \in 12..31 : b \in w <=> b \in Upper(o)
<1> DEFINE op == o.opcode
           rd == o.rd
           rest == Upper(o)
<1>1. /\ op \in SUBSET (0..6) /\ rd \in SUBSET (0..4)
  BY DEF Sized
<1>2. w = op \cup (Shl(rd, 7) \cup rest)
  BY EncodeForms
<1>3. /\ \A b : b \in Shl(rd, 7) <=> b \in 7..11 /\ b - 7 \in rd
      /\ \A b : b \in rest => b \in 12..31
  BY Parts7 DEF Shl, Field, Pieces, Upper
<1> HIDE DEF op, rd, rest
<1>4. Field(w, 0, 7) = op
  <2>1. \A b \in 0..6 : b \in w <=> b \in op
    BY <1>1, <1>2, <1>3
  <2> QED BY <1>1, <2>1, OpcodeIs
<1>5. Field(w, 7, 5) = rd
  <2>1. \A b \in 0..4 : b + 7 \in w <=> b \in rd
    BY <1>1, <1>2, <1>3
  <2> QED BY <1>1, <2>1, RegisterIs
<1>6. \A b \in 12..31 : b \in w <=> b \in rest
  BY <1>1, <1>2, <1>3
<1> QED BY <1>4, <1>5, <1>6 DEF op, rd, rest

\* An object whose fields were assigned: those that select returned, over
\* whatever was in the others, and operands that fit the instruction.
Built(o) ==
  /\ o.op \in Ops /\ Fits(o.op, o.imm_value)
  /\ o.rd \in SUBSET (0..4) /\ o.rs1 \in SUBSET (0..4) /\ o.rs2 \in SUBSET (0..4) /\ o.imm_value \in Word
  /\ \E junk \in Junk : \A x \in DOMAIN select(o.op, junk) : o[x] = select(o.op, junk)[x]

\* The fields of a built object are its instruction's.
LEMMA BuiltFields ==
  ASSUME NEW o, Built(o)
  PROVE  /\ Sized(o)
         /\ \/ Means(o.op, o.opcode, o.funct3, o.funct7)
            \/ o.op = "jalr" /\ o.opcode = Bits(103) /\ o.funct3 = Bits(0)
            \/ o.op = "wfi" /\ o.opcode = Bits(115) /\ o.funct3 = Bits(0) /\ o.funct12 = Bits(261)
         /\ o.op \in DOMAIN SelectArithmetic \cup DOMAIN SelectMultiply => o.riscv = "R" /\ o.imm = "R"
         /\ o.op \in DOMAIN SelectImmediate \cup DOMAIN SelectShift \cup DOMAIN SelectLoad \cup {"jalr"}
              => o.riscv = "I" /\ o.imm = "I"
         /\ o.op \in DOMAIN SelectBranch => o.riscv = "S" /\ o.imm = "B"
         /\ o.op \in DOMAIN SelectStore => o.riscv = "S" /\ o.imm = "S"
         /\ o.op \in {"lui", "auipc", "jal"} => o.riscv = "U" /\ o.imm = "U"
         /\ o.op = "wfi" => o.riscv = "P" /\ o.imm = "R"
         /\ o.op \in DOMAIN SelectShift \cup DOMAIN SelectArithmetic \cup DOMAIN SelectMultiply
              => o.funct7 \in SUBSET (0..6)
<1> DEFINE op == o.op
<1>1. op \in Ops
  BY DEF Built
<1>2. PICK junk : \A x \in DOMAIN select(op, junk) : o[x] = select(op, junk)[x]
  BY DEF Built
<1> DEFINE s == select(op, junk)
<1>3. /\ DOMAIN s = {"opcode", "riscv", "imm", "funct3", "funct7", "funct12"}
      /\ \/ Means(op, s.opcode, s.funct3, s.funct7)
         \/ op = "jalr" /\ s.opcode = Bits(103) /\ s.funct3 = Bits(0)
         \/ op = "wfi" /\ s.opcode = Bits(115) /\ s.funct3 = Bits(0) /\ s.funct12 = Bits(261)
      /\ op \in DOMAIN SelectArithmetic \cup DOMAIN SelectMultiply => s.riscv = "R" /\ s.imm = "R"
      /\ op \in DOMAIN SelectImmediate \cup DOMAIN SelectShift \cup DOMAIN SelectLoad \cup {"jalr"}
           => s.riscv = "I" /\ s.imm = "I"
      /\ op \in DOMAIN SelectBranch => s.riscv = "S" /\ s.imm = "B"
      /\ op \in DOMAIN SelectStore => s.riscv = "S" /\ s.imm = "S"
      /\ op \in {"lui", "auipc", "jal"} => s.riscv = "U" /\ s.imm = "U"
      /\ op = "wfi" => s.riscv = "P" /\ s.imm = "R"
  BY <1>1, Selected
<1>4. /\ o.opcode = s.opcode /\ o.riscv = s.riscv /\ o.imm = s.imm /\ o.funct3 = s.funct3 /\ o.funct7 = s.funct7
      /\ o.funct12 = s.funct12
  <2> HIDE DEF s
  <2>1. \A x \in {"opcode", "riscv", "imm", "funct3", "funct7", "funct12"} : o[x] = s[x]
    BY <1>2, <1>3 DEF s
  <2> QED BY <2>1
<1> HIDE DEF s
<1>5. \/ Means(op, o.opcode, o.funct3, o.funct7)
      \/ op = "jalr" /\ o.opcode = Bits(103) /\ o.funct3 = Bits(0)
      \/ op = "wfi" /\ o.opcode = Bits(115) /\ o.funct3 = Bits(0) /\ o.funct12 = Bits(261)
  BY <1>3, <1>4, Zenon
<1>6. /\ \A n \in DOMAIN SelectBranch : SelectBranch[n] \in 0..7
      /\ \A n \in DOMAIN SelectLoad : SelectLoad[n] \in 0..7
      /\ \A n \in DOMAIN SelectStore : SelectStore[n] \in 0..7
      /\ \A n \in DOMAIN SelectImmediate : SelectImmediate[n] \in 0..7
      /\ \A n \in DOMAIN SelectShift : SelectShift[n][1] \in 0..7 /\ SelectShift[n][2] \in Funct7s
      /\ \A n \in DOMAIN SelectArithmetic : SelectArithmetic[n][1] \in 0..7 /\ SelectArithmetic[n][2] \in Funct7s
      /\ \A n \in DOMAIN SelectMultiply : SelectMultiply[n][1] \in 0..7 /\ SelectMultiply[n][2] \in Funct7s
  BY DEF SelectBranch, SelectLoad, SelectStore, SelectImmediate, SelectShift, SelectArithmetic, SelectMultiply, Funct7s
<1>7. \A k \in Funct7s : Bits(k) \in SUBSET (0..6)
  BY BitsValues DEF Funct7s
<1>8. o.opcode \in SUBSET (0..6)
  <2>1. \E c \in Codes : o.opcode = Bits(c)
    BY <1>5 DEF Means, Codes
  <2> QED BY <2>1, OpcodeType
<1>9. o.riscv # "U" => o.funct3 \in SUBSET (0..2)
  <2> SUFFICES ASSUME o.riscv # "U" PROVE \E c \in 0..7 : o.funct3 = Bits(c)
    BY Funct3Type
  <2>1. op \notin {"lui", "auipc", "jal"}
    BY <1>3, <1>4
  <2> QED BY <1>5, <1>6, <2>1 DEF Means
<1>10. op \in DOMAIN SelectShift \cup DOMAIN SelectArithmetic \cup DOMAIN SelectMultiply => o.funct7 \in SUBSET (0..6)
  BY <1>5, <1>6, <1>7, SelectNames DEF Means
<1>11. Sized(o)
  BY <1>8, <1>9 DEF Sized, Built
<1> QED BY <1>3, <1>4, <1>5, <1>10, <1>11, ZenonT(60) DEF op

\* An immediate that fits comes back from the word, wherever its bits are.
LEMMA FitsBack ==
  ASSUME NEW imm \in Word, NEW w \in Word
  PROVE  /\ imm \cap 11..31 \in {{}, 11..31} /\ (\A b \in 20..31 : b \in w <=> b - 20 \in imm) => signext(w, "I") = imm
         /\ imm \subseteq 0..4 /\ (\A b \in 20..24 : b \in w <=> b - 20 \in imm) => signext(w, "I") \cap 0..4 = imm
         /\ imm \subseteq 0..19 /\ (\A b \in 12..31 : b \in w <=> b - 12 \in imm) => Field(w, 12, 20) = imm
<1>1. ASSUME imm \cap 11..31 \in {{}, 11..31}, \A b \in 20..31 : b \in w <=> b - 20 \in imm
      PROVE  signext(w, "I") = imm
  <2>1. \A b : b \in signext(w, "I") <=> b \in 0..31 /\ (IF b \in 11..31 THEN 31 \in w ELSE b + 20 \in w)
    <3>1. signext(w, "I") = {b \in 11..31 : 31 \in w} \cup Shl(Field(w, 20, 11), 0)
      BY Signext
    <3>2. \A b : b \in Shl(Field(w, 20, 11), 0) <=> b \in 0..10 /\ b + 20 \in w
      BY DEF Shl, Field
    <3> QED BY <3>1, <3>2
  <2>2. \A b \in 11..31 : b \in imm <=> 11 \in imm
    BY <1>1
  <2>3. 31 \in w <=> 11 \in imm
    BY <1>1
  <2>4. \A b \in 0..10 : b + 20 \in w <=> b \in imm
    BY <1>1
  <2>5. \A b : b \in imm => b \in 0..31
    BY DEF Word
  <2>6. \A b : b \in signext(w, "I") <=> b \in imm
    BY <2>1, <2>2, <2>3, <2>4, <2>5
  <2> QED BY <2>6
<1>2. ASSUME imm \subseteq 0..4, \A b \in 20..24 : b \in w <=> b - 20 \in imm
      PROVE  signext(w, "I") \cap 0..4 = imm
  <2>1. signext(w, "I") = {b \in 11..31 : 31 \in w} \cup Shl(Field(w, 20, 11), 0)
    BY Signext
  <2>2. \A b : b \in Shl(Field(w, 20, 11), 0) <=> b \in 0..10 /\ b + 20 \in w
    BY DEF Shl, Field
  <2>3. \A b \in 0..4 : b + 20 \in w <=> b \in imm
    BY <1>2
  <2>4. \A b \in 0..4 : b \in signext(w, "I") <=> b + 20 \in w
    BY <2>1, <2>2
  <2>5. \A b \in 0..4 : b \in signext(w, "I") <=> b \in imm
    BY <2>3, <2>4
  <2> QED BY <1>2, <2>5
<1>3. ASSUME imm \subseteq 0..19, \A b \in 12..31 : b \in w <=> b - 12 \in imm
      PROVE  Field(w, 12, 20) = imm
  <2>1. \A b \in 0..19 : b + 12 \in w <=> b \in imm
    BY <1>3
  <2>2. \A b : b \in Field(w, 12, 20) <=> b \in 0..19 /\ b + 12 \in w
    BY DEF Field
  <2>3. \A b : b \in Field(w, 12, 20) <=> b \in imm
    BY <1>3, <2>1, <2>2
  <2> QED BY <2>3
<1> QED BY <1>1, <1>2, <1>3

\* The offsets of stores, without a sign, and the targets of branches.
LEMMA TargetBack ==
  ASSUME NEW o, o.imm_value \in Word, NEW w \in Word, \A b \in (7..11 \cup 25..31) : b \in w <=> b \in Pieces(o)
  PROVE  /\ o.imm = "S" /\ o.imm_value \cap 11..31 = {} => signext(w, "S") = o.imm_value
         /\ o.imm = "B" /\ 0 \notin o.imm_value /\ o.imm_value \cap 12..31 \in {{}, 12..31}
              => signext(w, "B") = o.imm_value
<1> DEFINE imm == o.imm_value
<1>0. \A b : b \in imm => b \in 0..31
  BY DEF Word
<1>1. ASSUME o.imm = "S", imm \cap 11..31 = {} PROVE signext(w, "S") = imm
  <2>1. signext(w, "S") = {b \in 11..31 : 31 \in w} \cup Shl(Field(w, 25, 6), 5) \cup Shl(Field(w, 7, 5), 0)
    BY Signext
  <2>2. Pieces(o) = Shl(Field(imm, 0, 5), 7) \cup Shl(Field(imm, 5, 6), 25)
    BY <1>1 DEF Pieces
  <2> HIDE DEF imm
  <2>3. \A b : b \in Pieces(o) <=> (b \in 7..11 /\ b - 7 \in imm) \/ (b \in 25..30 /\ b - 20 \in imm)
    BY <2>2 DEF Shl, Field
  <2>4. \A b : b \in signext(w, "S") <=> \/ b \in 11..31 /\ 31 \in w
                                         \/ b \in 5..10 /\ b + 20 \in w
                                         \/ b \in 0..4 /\ b + 7 \in w
    BY <2>1 DEF Shl, Field
  <2>5. /\ 31 \notin w
        /\ \A b \in 5..10 : b + 20 \in w <=> b \in imm
        /\ \A b \in 0..4 : b + 7 \in w <=> b \in imm
    BY <2>3
  <2>6. \A b : b \in signext(w, "S") <=> b \in imm
    BY <1>0, <1>1, <2>4, <2>5
  <2> QED BY <2>6
<1>2. ASSUME o.imm = "B", 0 \notin imm, imm \cap 12..31 \in {{}, 12..31} PROVE signext(w, "B") = imm
  <2>1. signext(w, "B") = {b \in 12..31 : 31 \in w} \cup Shl(Field(w, 7, 1), 11) \cup Shl(Field(w, 25, 6), 5)
                            \cup Shl(Field(w, 8, 4), 1)
    BY Signext
  <2>2. Pieces(o) = Shl(Field(imm, 11, 1), 7) \cup Shl(Field(imm, 1, 4), 8)
                      \cup Shl(Field(imm, 5, 6), 25) \cup Shl(Field(imm, 12, 1), 31)
    BY <1>2 DEF Pieces
  <2> HIDE DEF imm
  <2>3. \A b : b \in Pieces(o) <=> \/ b = 7 /\ 11 \in imm
                                   \/ b \in 8..11 /\ b - 7 \in imm
                                   \/ b \in 25..30 /\ b - 20 \in imm
                                   \/ b = 31 /\ 12 \in imm
    BY <2>2 DEF Shl, Field
  <2>4. \A b : b \in signext(w, "B") <=> \/ b \in 12..31 /\ 31 \in w
                                         \/ b = 11 /\ 7 \in w
                                         \/ b \in 5..10 /\ b + 20 \in w
                                         \/ b \in 1..4 /\ b + 7 \in w
    BY <2>1 DEF Shl, Field
  <2>5. /\ 31 \in w <=> 12 \in imm
        /\ 7 \in w <=> 11 \in imm
        /\ \A b \in 5..10 : b + 20 \in w <=> b \in imm
        /\ \A b \in 1..4 : b + 7 \in w <=> b \in imm
    BY <2>3
  <2>6. \A b \in 12..31 : b \in imm <=> 12 \in imm
    BY <1>2
  <2>7. \A b : b \in signext(w, "B") <=> b \in imm
    BY <1>0, <1>2, <2>4, <2>5, <2>6
  <2> QED BY <2>7
<1> QED BY <1>1, <1>2

\* No name of select's is one that the class does not support.
LEMMA SelectSupported == \A op \in Ops : op \notin Unsupported /\ op # "INVALID"
BY SelectNames, Zenon DEF Ops, Unsupported

\* Which instructions have which immediates.
LEMMA FitsForms ==
  ASSUME NEW op \in Ops, NEW imm, Fits(op, imm)
  PROVE  /\ op \in DOMAIN SelectShift => imm \subseteq 0..4
         /\ op \in DOMAIN SelectImmediate \cup DOMAIN SelectLoad \cup DOMAIN SelectStore \cup {"jalr"}
              => imm \cap 11..31 \in {{}, 11..31}
         /\ op \in DOMAIN SelectBranch => 0 \notin imm /\ imm \cap 12..31 \in {{}, 12..31}
         /\ op \in {"lui", "auipc"} => imm \subseteq 0..19
<1> DEFINE s == select(op, {})
<1>1. /\ op \in DOMAIN SelectImmediate \cup DOMAIN SelectShift \cup DOMAIN SelectLoad \cup {"jalr"} => s.imm = "I"
      /\ op \in DOMAIN SelectBranch => s.imm = "B"
      /\ op \in DOMAIN SelectStore => s.imm = "S"
      /\ op \in {"lui", "auipc", "jal"} => s.imm = "U"
  BY Selected
<1> HIDE DEF s
<1>2. Kind(op) = IF op = "jal" THEN "J" ELSE s.imm
  BY DEF Kind, s
<1>3. op \in DOMAIN SelectShift => imm \subseteq 0..4
  <2>1. SUFFICES ASSUME op \in DOMAIN SelectShift
                 PROVE  imm \subseteq 0..4
    OBVIOUS
  <2>2. op # "jal"
    BY <2>1, SelectNames
  <2>3. Kind(op) = "I"
    BY <1>1, <1>2, <2>1, <2>2
  <2> QED BY <2>1, <2>3 DEF Fits, IsShift
<1>4. op \in DOMAIN SelectImmediate \cup DOMAIN SelectLoad \cup DOMAIN SelectStore \cup {"jalr"}
        => imm \cap 11..31 \in {{}, 11..31}
  <2>1. SUFFICES ASSUME op \in DOMAIN SelectImmediate \cup DOMAIN SelectLoad \cup DOMAIN SelectStore \cup {"jalr"}
                 PROVE  imm \cap 11..31 \in {{}, 11..31}
    OBVIOUS
  <2>2. op \notin DOMAIN SelectShift /\ op # "jal"
    BY <2>1, SelectNames
  <2>3. Kind(op) \in {"I", "S"}
    BY <1>1, <1>2, <2>1, <2>2
  <2> QED BY <2>2, <2>3, Zenon DEF Fits, IsShift
<1>5. op \in DOMAIN SelectBranch => 0 \notin imm /\ imm \cap 12..31 \in {{}, 12..31}
  <2>1. SUFFICES ASSUME op \in DOMAIN SelectBranch
                 PROVE  0 \notin imm /\ imm \cap 12..31 \in {{}, 12..31}
    OBVIOUS
  <2>2. op \notin DOMAIN SelectShift /\ op # "jal"
    BY <2>1, SelectNames
  <2>3. Kind(op) = "B"
    BY <1>1, <1>2, <2>1, <2>2
  <2> QED BY <2>2, <2>3 DEF Fits, IsShift
<1>6. op \in {"lui", "auipc"} => imm \subseteq 0..19
  <2>1. SUFFICES ASSUME op \in {"lui", "auipc"}
                 PROVE  imm \subseteq 0..19
    OBVIOUS
  <2>2. op \notin DOMAIN SelectShift /\ op # "jal"
    BY <2>1, SelectNames
  <2>3. Kind(op) = "U"
    BY <1>1, <1>2, <2>1, <2>2
  <2> QED BY <2>2, <2>3 DEF Fits, IsShift
<1> QED BY <1>3, <1>4, <1>5, <1>6

\* A built instruction comes back from its word, but for a store's sign and a
\* jump's target.
LEMMA Rebuilt ==
  ASSUME NEW o, Built(o), NEW w \in Word, w = encode(o), ~(IsStore(o.op) /\ 31 \in o.imm_value), o.op # "jal"
  PROVE  Same(o, Decoded(o, w))
<1> DEFINE p == Decoded(o, w)
           op == o.op
           imm == o.imm_value
<1>0. o.op \in Ops /\ imm \in Word
  BY DEF Built
<1>1. /\ Sized(o)
      /\ \/ Means(op, o.opcode, o.funct3, o.funct7)
         \/ op = "jalr" /\ o.opcode = Bits(103) /\ o.funct3 = Bits(0)
         \/ op = "wfi" /\ o.opcode = Bits(115) /\ o.funct3 = Bits(0) /\ o.funct12 = Bits(261)
      /\ op \in DOMAIN SelectArithmetic \cup DOMAIN SelectMultiply => o.riscv = "R" /\ o.imm = "R"
      /\ op \in DOMAIN SelectImmediate \cup DOMAIN SelectShift \cup DOMAIN SelectLoad \cup {"jalr"}
           => o.riscv = "I" /\ o.imm = "I"
      /\ op \in DOMAIN SelectBranch => o.riscv = "S" /\ o.imm = "B"
      /\ op \in DOMAIN SelectStore => o.riscv = "S" /\ o.imm = "S"
      /\ op \in {"lui", "auipc", "jal"} => o.riscv = "U" /\ o.imm = "U"
      /\ op = "wfi" => o.riscv = "P" /\ o.imm = "R"
      /\ op \in DOMAIN SelectShift \cup DOMAIN SelectArithmetic \cup DOMAIN SelectMultiply
           => o.funct7 \in SUBSET (0..6)
  BY BuiltFields
<1>2. /\ op \in DOMAIN SelectShift => imm \subseteq 0..4
      /\ op \in DOMAIN SelectImmediate \cup DOMAIN SelectLoad \cup DOMAIN SelectStore \cup {"jalr"}
           => imm \cap 11..31 \in {{}, 11..31}
      /\ op \in DOMAIN SelectBranch => 0 \notin imm /\ imm \cap 12..31 \in {{}, 12..31}
      /\ op \in {"lui", "auipc"} => imm \subseteq 0..19
  BY <1>0, FitsForms DEF Built
<1>3. /\ p.str = Name(Field(w, 0, 7), Field(w, 12, 3), Field(w, 25, 7), Field(w, 20, 12))
      /\ p.op = IF p.str \in Unsupported THEN "INVALID" ELSE p.str
      /\ p.riscv = Format(o, Field(w, 0, 7)).riscv /\ p.imm = Format(o, Field(w, 0, 7)).imm
      /\ p.opcode = Field(w, 0, 7) /\ p.funct3 = Field(w, 12, 3) /\ p.funct7 = Field(w, 25, 7)
      /\ p.rs1 = Field(w, 15, 5) /\ p.rs2 = Field(w, 20, 5)
      /\ p.rd = Field(w, 7, 5)
  BY DecodedFields
<1>4. /\ p.imm = "I" /\ ~Shifts(w) => p.imm_value = signext(w, "I")
      /\ p.imm = "I" /\ Shifts(w) => p.imm_value = signext(w, "I") \cap 0..4
      /\ p.imm = "S" => p.imm_value = signext(w, "S")
      /\ p.imm = "B" => p.imm_value = signext(w, "B")
      /\ p.imm = "U" => p.imm_value = Field(w, 12, 20)
  BY DecodedImmediate
<1> HIDE DEF p
<1>5. op \notin Unsupported
  BY <1>0, SelectSupported
<1>6. ASSUME p.str = op PROVE p.op = op
  BY <1>3, <1>5, <1>6
<1>7. Field(w, 12, 3) \in SUBSET (0..2)
  BY Funct3Field
<1>8. \A a, b \in Codes : Bits(a) = Bits(b) => a = b
  BY Distinct, Zenon
<1>9. CASE op \in DOMAIN SelectArithmetic \cup DOMAIN SelectMultiply
  <2>1. o.riscv = "R" /\ o.funct7 \in SUBSET (0..6)
    BY <1>1, <1>9
  <2>2. /\ Field(w, 0, 7) = o.opcode /\ Field(w, 7, 5) = o.rd /\ Field(w, 12, 3) = o.funct3
        /\ Field(w, 15, 5) = o.rs1 /\ Field(w, 20, 5) = o.rs2 /\ Field(w, 25, 7) = o.funct7
    BY <1>1, <2>1, BackR
  <2>3. Means(op, o.opcode, o.funct3, o.funct7)
    BY <1>1, <1>9, SelectNames
  <2>4. o.opcode = Bits(51)
    BY <1>9, <2>3, SelectNames DEF Means
  <2>5. p.op = op
    BY <1>3, <1>6, <1>7, <2>2, <2>3, Names
  <2>6. p.riscv = "R"
    BY <1>3, <2>2, <2>4, FormatOf
  <2> QED BY <1>3, <2>1, <2>2, <2>5, <2>6 DEF Same, p
<1>10. ASSUME op \in DOMAIN SelectImmediate \cup DOMAIN SelectShift \cup DOMAIN SelectLoad, o.funct3 = Field(w, 12, 3),
              o.opcode = Field(w, 0, 7)
       PROVE  op \in DOMAIN SelectShift <=> Shifts(w)
  <2>1. Means(op, o.opcode, o.funct3, o.funct7)
    BY <1>1, <1>10, SelectNames
  <2>2. \A k \in 0..7 : Num(Field(w, 12, 3)) = k <=> Field(w, 12, 3) = Bits(k)
    BY <1>7, NumBits
  <2>3. CASE op \in DOMAIN SelectShift
    <3>1. o.opcode = Bits(19) /\ o.funct3 = Bits(SelectShift[op][1])
      BY <2>1, <2>3, SelectNames DEF Means
    <3>2. SelectShift[op][1] \in {1, 5}
      BY <2>3 DEF SelectShift
    <3> QED BY <1>10, <2>2, <2>3, <3>1, <3>2 DEF Shifts
  <2>4. CASE op \in DOMAIN SelectImmediate
    <3>1. o.funct3 = Bits(SelectImmediate[op])
      BY <2>1, <2>4, SelectNames DEF Means
    <3>2. SelectImmediate[op] \in {0, 2, 3, 4, 6, 7}
      BY <2>4 DEF SelectImmediate
    <3>3. Num(Field(w, 12, 3)) \in {0, 2, 3, 4, 6, 7}
      BY <1>10, <2>2, <3>1, <3>2
    <3> QED BY <2>4, <3>3, SelectNames DEF Shifts
  <2>5. CASE op \in DOMAIN SelectLoad
    <3>1. o.opcode = Bits(3)
      BY <2>1, <2>5, SelectNames DEF Means
    <3> QED BY <1>8, <1>10, <2>5, <3>1, SelectNames DEF Shifts, Codes
  <2> QED BY <1>10, <2>3, <2>4, <2>5
<1>11. CASE op \in DOMAIN SelectImmediate \cup DOMAIN SelectLoad \cup {"jalr"}
  <2>1. o.riscv = "I" /\ op \notin DOMAIN SelectShift
    BY <1>1, <1>11, SelectNames
  <2>2. /\ Field(w, 0, 7) = o.opcode /\ Field(w, 7, 5) = o.rd /\ Field(w, 12, 3) = o.funct3
        /\ Field(w, 15, 5) = o.rs1
        /\ \A b \in 20..31 : b \in w <=> b - 20 \in imm
    BY <1>0, <1>1, <2>1, BackI
  <2>3. p.op = op /\ o.opcode \in {Bits(103), Bits(3), Bits(19)} /\ ~Shifts(w)
    <3>1. ASSUME op = "jalr" PROVE p.op = op /\ o.opcode \in {Bits(103), Bits(3), Bits(19)} /\ ~Shifts(w)
      <4>1. o.opcode = Bits(103)
        BY <1>1, <3>1, SelectNames DEF Means
      <4>2. p.str = "jalr"
        BY <1>3, <2>2, <4>1, NameOf
      <4>3. ~Shifts(w)
        BY <1>8, <2>2, <4>1 DEF Shifts, Codes
      <4> QED BY <1>6, <3>1, <4>1, <4>2, <4>3
    <3>2. ASSUME op # "jalr" PROVE p.op = op /\ o.opcode \in {Bits(103), Bits(3), Bits(19)} /\ ~Shifts(w)
      <4>1. Means(op, o.opcode, o.funct3, o.funct7)
        BY <1>1, <1>11, <3>2, SelectNames
      <4>2. Means(op, o.opcode, o.funct3, Field(w, 25, 7))
        BY <1>11, <3>2, <4>1, SelectNames DEF Means
      <4>3. p.op = op
        BY <1>3, <1>6, <1>7, <2>2, <4>2, Names
      <4>4. o.opcode \in {Bits(3), Bits(19)}
        BY <1>11, <3>2, <4>1, SelectNames DEF Means
      <4>5. ~Shifts(w)
        BY <1>10, <1>11, <2>1, <2>2, <3>2
      <4> QED BY <4>3, <4>4, <4>5
    <3> QED BY <3>1, <3>2
  <2>4. p.riscv = "I" /\ p.imm = "I"
    BY <1>3, <2>2, <2>3, FormatOf
  <2>5. p.imm_value = imm
    BY <1>0, <1>2, <1>4, <1>11, <2>2, <2>3, <2>4, FitsBack
  <2> QED BY <1>3, <2>1, <2>2, <2>3, <2>4, <2>5 DEF Same, p
<1>12. CASE op \in DOMAIN SelectShift
  <2>1. o.riscv = "I" /\ o.funct7 \in SUBSET (0..6)
    BY <1>1, <1>12
  <2>2. /\ Field(w, 0, 7) = o.opcode /\ Field(w, 7, 5) = o.rd /\ Field(w, 12, 3) = o.funct3
        /\ Field(w, 15, 5) = o.rs1 /\ Field(w, 25, 7) = o.funct7
        /\ \A b \in 20..24 : b \in w <=> b - 20 \in imm
    BY <1>1, <1>12, <2>1, BackShift
  <2>3. Means(op, o.opcode, o.funct3, o.funct7)
    BY <1>1, <1>12, SelectNames
  <2>4. o.opcode = Bits(19)
    BY <1>12, <2>3, SelectNames DEF Means
  <2>5. p.op = op
    BY <1>3, <1>6, <1>7, <2>2, <2>3, Names
  <2>6. p.riscv = "I" /\ p.imm = "I"
    BY <1>3, <2>2, <2>4, FormatOf
  <2>7. Shifts(w)
    BY <1>10, <1>12, <2>2
  <2>8. p.imm_value = imm
    <3>1. imm \subseteq 0..4
      BY <1>2, <1>12
    <3>2. signext(w, "I") \cap 0..4 = imm
      BY <1>0, <2>2, <3>1, FitsBack
    <3> QED BY <1>4, <2>6, <2>7, <3>2, Zenon
  <2> QED BY <1>3, <2>1, <2>2, <2>5, <2>6, <2>8 DEF Same, p
<1>13. CASE op \in DOMAIN SelectBranch \cup DOMAIN SelectStore
  <2>1. o.riscv = "S" /\ o.imm = IF op \in DOMAIN SelectStore THEN "S" ELSE "B"
    BY <1>1, <1>13, SelectNames
  <2>2. /\ Field(w, 0, 7) = o.opcode /\ Field(w, 12, 3) = o.funct3
        /\ Field(w, 15, 5) = o.rs1 /\ Field(w, 20, 5) = o.rs2
        /\ \A b \in (7..11 \cup 25..31) : b \in w <=> b \in Pieces(o)
    BY <1>1, <2>1, BackS
  <2>3. Means(op, o.opcode, o.funct3, o.funct7)
    BY <1>1, <1>13, SelectNames
  <2>4. o.opcode = IF op \in DOMAIN SelectStore THEN Bits(35) ELSE Bits(99)
    BY <1>13, <2>3, SelectNames DEF Means
  <2>5. Means(op, o.opcode, o.funct3, Field(w, 25, 7))
    BY <1>13, <2>3, SelectNames DEF Means
  <2>6. p.op = op
    BY <1>3, <1>6, <1>7, <2>2, <2>5, Names
  <2>7. p.riscv = "S" /\ p.imm = o.imm
    BY <1>3, <2>1, <2>2, <2>4, FormatOf
  <2>8. p.imm_value = imm
    <3>1. CASE op \in DOMAIN SelectStore
      <4>1. imm \cap 11..31 = {}
        BY <1>2, <3>1 DEF IsStore
      <4> QED BY <1>0, <1>4, <2>1, <2>2, <2>7, <3>1, <4>1, TargetBack
    <3>2. CASE op \notin DOMAIN SelectStore
      BY <1>0, <1>2, <1>4, <1>13, <2>1, <2>2, <2>7, <3>2, TargetBack
    <3> QED BY <3>1, <3>2
  <2> QED BY <1>3, <2>1, <2>2, <2>6, <2>7, <2>8 DEF Same, p
<1>14. CASE op \in {"lui", "auipc"}
  <2>1. o.riscv = "U" /\ o.imm = "U"
    BY <1>1, <1>14
  <2>2. /\ Field(w, 0, 7) = o.opcode /\ Field(w, 7, 5) = o.rd
        /\ \A b \in 12..31 : b \in w <=> b \in Upper(o)
    BY <1>1, <2>1, BackU
  <2>3. Means(op, o.opcode, o.funct3, o.funct7)
    BY <1>1, <1>14, SelectNames
  <2>4. o.opcode \in {Bits(55), Bits(23)}
    BY <1>14, <2>3, SelectNames DEF Means
  <2>5. Means(op, o.opcode, Field(w, 12, 3), Field(w, 25, 7))
    BY <1>14, <2>3, SelectNames DEF Means
  <2>6. p.op = op
    BY <1>3, <1>6, <1>7, <2>2, <2>5, Names
  <2>7. p.riscv = "U" /\ p.imm = "U"
    BY <1>3, <2>2, <2>4, FormatOf
  <2>8. p.imm_value = imm
    <3>1. \A b \in 12..31 : b \in Upper(o) <=> b - 12 \in imm
      <4>1. Upper(o) = Shl(Field(imm, 0, 20), 12)
        BY <2>1 DEF Upper
      <4> HIDE DEF imm
      <4> QED BY <4>1 DEF Shl, Field
    <3>2. \A b \in 12..31 : b \in w <=> b - 12 \in imm
      BY <2>2, <3>1
    <3>3. imm \subseteq 0..19
      BY <1>2, <1>14
    <3> QED BY <1>0, <1>4, <2>7, <3>2, <3>3, FitsBack
  <2> QED BY <1>3, <2>1, <2>2, <2>6, <2>7, <2>8 DEF Same, p
<1>15. CASE op = "wfi"
  <2>1. o.riscv = "P" /\ o.opcode = Bits(115) /\ o.funct3 = Bits(0) /\ o.funct12 = Bits(261)
    BY <1>1, <1>15, SelectNames DEF Means
  <2>2. o.funct12 \in SUBSET (0..11)
    BY <2>1 DEF Bits
  <2>3. /\ Field(w, 0, 7) = o.opcode /\ Field(w, 7, 5) = o.rd /\ Field(w, 12, 3) = o.funct3
        /\ Field(w, 15, 5) = o.rs1 /\ Field(w, 20, 12) = o.funct12
    BY <1>1, <2>1, <2>2, BackP
  <2>4. p.str = "wfi"
    BY <1>3, <1>7, <2>1, <2>3, NameOf, NamedSystem
  <2>5. p.riscv = "P"
    BY <1>3, <2>1, <2>3, FormatOf
  <2> QED BY <1>3, <1>6, <1>15, <2>1, <2>3, <2>4, <2>5 DEF Same, p
<1> QED BY <1>0, <1>9, <1>11, <1>12, <1>13, <1>14, <1>15 DEF Ops

\* Decoding a word again changes nothing.
LEMMA DecodedAgain ==
  ASSUME NEW o, NEW w
  PROVE  Decoded(Decoded(o, w), w) = Decoded(o, w)
<1> DEFINE op == Field(w, 0, 7)
           p == Decoded(o, w)
           shift == op = Opcodes.immediate /\ Num(Field(w, 12, 3)) \in {1, 5}
<1>1. Format(p, op) = Format(o, op)
  <2>1. /\ p.riscv = Format(o, op).riscv /\ p.imm = Format(o, op).imm
    BY DecodedFields
  <2> HIDE DEF p
  <2>2. Format(o, op) = [riscv |-> Format(o, op).riscv, imm |-> Format(o, op).imm]
    BY DEF Format
  <2>3. Format(p, op) = Format(o, op) \/ Format(p, op) = [riscv |-> p.riscv, imm |-> p.imm]
    BY DEF Format
  <2> QED BY <2>1, <2>2, <2>3
<1> DEFINE f == Format(o, op)
<1>2. p.imm_value = Immediate(o, w, f.imm, shift)
  BY Zenon DEF Decoded
<1>3. Immediate(p, w, f.imm, shift) = Immediate(o, w, f.imm, shift)
  <2> DEFINE k == f.imm
             t == shift
  <2> HIDE DEF k, t, p
  <2>1. p.imm_value = Immediate(o, w, k, t)
    BY <1>2 DEF k, t
  <2>2. Immediate(p, w, k, t) = Immediate(o, w, k, t)
    BY <2>1 DEF Immediate
  <2> QED BY <2>2 DEF k, t
<1> HIDE DEF p
<1>4. Decoded(p, w) = Decoded(o, w)
  BY <1>1, <1>3, Zenon DEF Decoded
<1> QED BY <1>4 DEF p

\* Words stay words of 32 bits.
LEMMA EncodesWord ==
  ASSUME NEW o, o.opcode \in SUBSET (0..6)
  PROVE  encode(o) \in Word
<1>1. \A x, n : Shl(x, n) \subseteq 0..31
  BY DEF Shl
<1>2. \E x \in SUBSET (0..31) : encode(o) = o.opcode \cup x
  <2> DEFINE upper == IF o.op \in DOMAIN SelectShift THEN Shl(Field(o.imm_value, 0, 5), 20) \cup Shl(o.funct7, 25)
                                                     ELSE Shl(o.imm_value, 20)
             x == CASE o.riscv = "R" -> Shl(o.rd, 7) \cup Shl(o.funct3, 12) \cup Shl(o.rs1, 15) \cup Shl(o.rs2, 20) \cup Shl(o.funct7, 25)
                    [] o.riscv = "I" -> Shl(o.rd, 7) \cup Shl(o.funct3, 12) \cup Shl(o.rs1, 15) \cup upper
                    [] o.riscv = "S" -> Shl(o.funct3, 12) \cup Shl(o.rs1, 15) \cup Shl(o.rs2, 20) \cup Pieces(o)
                    [] o.riscv = "U" -> Shl(o.rd, 7) \cup Upper(o)
                    [] OTHER         -> Shl(o.rd, 7) \cup Shl(o.funct3, 12) \cup Shl(o.rs1, 15) \cup Shl(o.funct12, 20)
  <2>1. encode(o) = o.opcode \cup x
    BY Zenon DEF encode
  <2>2. Pieces(o) \subseteq 0..31 /\ Upper(o) \subseteq 0..31 /\ upper \subseteq 0..31
    BY <1>1 DEF Pieces, Upper
  <2> HIDE DEF upper
  <2>3. x \subseteq 0..31
    BY <1>1, <2>2
  <2> HIDE DEF x
  <2> QED BY <2>1, <2>3
<1>3. PICK x \in SUBSET (0..31) : encode(o) = o.opcode \cup x
  BY <1>2
<1>4. \A b \in o.opcode : b \in 0..31
  OBVIOUS
<1>5. \A b \in encode(o) : b \in 0..31
  BY <1>3, <1>4
<1> QED BY <1>5 DEF Word

\* What holds in every state: a decoded object is what its word decodes to, a
\* built one is an instruction, and the word of an encoded one is its own,
\* from one of the two.
CodecInv ==
  /\ step \in {"fresh", "built", "encoded", "decoded"}
  /\ word \in Word
  /\ DOMAIN obj = {"op", "str", "riscv", "imm", "opcode", "funct3", "funct7", "funct12", "rs1", "rs2", "rd", "imm_value"}
  /\ step = "built" => Built(obj)
  /\ step = "decoded" => obj = Decoded(obj, word)
  /\ step = "encoded" /\ obj.op # "INVALID" =>
       /\ word = encode(obj)
       /\ \/ Built(obj)
          \/ obj = Decoded(obj, word)
          \/ IsStore(obj.op) /\ obj = Decoded(obj, word \cup {31})

\* A new object's state.
LEMMA CodecInvInit == CodecInit => CodecInv
<1> SUFFICES ASSUME CodecInit PROVE CodecInv
  OBVIOUS
<1>1. step = "fresh" /\ word \in Word
  BY DEF CodecInit, Word
<1>2. DOMAIN obj = {"op", "str", "riscv", "imm", "opcode", "funct3", "funct7", "funct12", "rs1", "rs2", "rd", "imm_value"}
  BY DEF CodecInit
<1> QED BY <1>1, <1>2 DEF CodecInv

\* assign makes an instruction.
LEMMA AssignBuilds == CodecInv /\ assign => CodecInv'
<1> SUFFICES ASSUME CodecInv, assign PROVE CodecInv'
  OBVIOUS
<1>1. PICK op \in Ops, junk \in Junk, f \in Operands :
        /\ Fits(op, f.imm_value)
        /\ obj' = [x \in DOMAIN obj |->
                     CASE x = "op"                         -> op
                       [] x \in DOMAIN select(op, junk)    -> select(op, junk)[x]
                       [] x \in DOMAIN f                   -> f[x]
                       [] OTHER                            -> obj[x]]
  BY DEF assign
<1> DEFINE sel == select(op, junk)
<1>2. DOMAIN sel = {"opcode", "riscv", "imm", "funct3", "funct7", "funct12"}
  BY Selected
<1> HIDE DEF sel
<1>3. /\ DOMAIN f = {"rd", "rs1", "rs2", "imm_value"}
      /\ f.rd \in SUBSET (0..4) /\ f.rs1 \in SUBSET (0..4) /\ f.rs2 \in SUBSET (0..4) /\ f.imm_value \in Word
  <2>1. f \in [rd : SUBSET (0..4), rs1 : SUBSET (0..4), rs2 : SUBSET (0..4), imm_value : Word]
    BY CodecAssumption DEF CodecAssumption
  <2> QED BY <2>1
<1>4. DOMAIN obj = {"op", "str", "riscv", "imm", "opcode", "funct3", "funct7", "funct12", "rs1", "rs2", "rd", "imm_value"}
  BY DEF CodecInv
<1>5. obj' = [x \in DOMAIN obj |->
                CASE x = "op"         -> op
                  [] x \in DOMAIN sel -> sel[x]
                  [] x \in DOMAIN f   -> f[x]
                  [] OTHER            -> obj[x]]
  BY <1>1 DEF sel
<1>6. /\ DOMAIN obj' = DOMAIN obj
      /\ obj'.op = op
      /\ \A x \in DOMAIN sel : obj'[x] = sel[x]
      /\ obj'.rd = f.rd /\ obj'.rs1 = f.rs1 /\ obj'.rs2 = f.rs2 /\ obj'.imm_value = f.imm_value
  <2>1. DOMAIN obj' = DOMAIN obj /\ obj'.op = op
    BY <1>2, <1>3, <1>4, <1>5
  <2>2. \A x \in DOMAIN sel : obj'[x] = sel[x]
    BY <1>2, <1>3, <1>4, <1>5
  <2>3. \A x \in DOMAIN f : obj'[x] = f[x]
    BY <1>2, <1>3, <1>4, <1>5
  <2> QED BY <1>3, <2>1, <2>2, <2>3
<1>7. Built(obj')
  BY <1>1, <1>3, <1>6, Zenon DEF Built, sel
<1>8. step' = "built" /\ word' = word
  BY DEF assign
<1> QED BY <1>4, <1>6, <1>7, <1>8 DEF CodecInv

\* decode makes the object what its word says.
LEMMA DecodeKeeps == CodecInv /\ decode => CodecInv'
<1> SUFFICES ASSUME CodecInv, decode PROVE CodecInv'
  OBVIOUS
<1>1. word' \in Word
  BY CodecAssumption DEF CodecAssumption, decode, CodecInv
<1>2. obj' = Decoded(obj, word') /\ step' = "decoded"
  BY DEF decode
<1>3. obj' = Decoded(obj', word')
  BY <1>2, DecodedAgain
<1>4. DOMAIN obj' = {"op", "str", "riscv", "imm", "opcode", "funct3", "funct7", "funct12", "rs1", "rs2", "rd", "imm_value"}
  BY <1>2, Zenon DEF Decoded
<1> QED BY <1>1, <1>2, <1>3, <1>4 DEF CodecInv

\* Encode leaves the word of the object it had.
LEMMA EncodeKeeps == CodecInv /\ Encode => CodecInv'
<1> SUFFICES ASSUME CodecInv, Encode PROVE CodecInv'
  OBVIOUS
<1>1. step \in {"built", "decoded"} /\ word' = encode(obj) /\ step' = "encoded" /\ obj' = obj
  BY DEF Encode
<1>2. obj.opcode \in SUBSET (0..6)
  <2>1. CASE step = "built"
    BY <2>1, BuiltFields DEF CodecInv, Sized
  <2>2. CASE step = "decoded"
    <3>1. obj = Decoded(obj, word)
      BY <2>2 DEF CodecInv
    <3>2. obj.opcode = Field(word, 0, 7)
      BY <3>1, DecodedFields
    <3> QED BY <3>2 DEF Field
  <2> QED BY <1>1, <2>1, <2>2
<1>3. word' \in Word
  BY <1>1, <1>2, EncodesWord
<1>4. ASSUME obj.op # "INVALID"
      PROVE  \/ Built(obj)
             \/ obj = Decoded(obj, word')
             \/ IsStore(obj.op) /\ obj = Decoded(obj, word' \cup {31})
  <2>1. CASE step = "built"
    BY <2>1 DEF CodecInv
  <2>2. CASE step = "decoded"
    <3>1. obj = Decoded(obj, word) /\ word \in Word
      BY <2>2 DEF CodecInv
    <3>2. word' = IF IsStore(obj.op) THEN word \ {31} ELSE word
      BY <1>1, <1>4, <3>1, Reencodes
    <3>3. word' = word \/ (IsStore(obj.op) /\ word' \cup {31} = word)
      BY <3>2
    <3> QED BY <3>1, <3>3
  <2> QED BY <1>1, <2>1, <2>2
<1> QED BY <1>1, <1>3, <1>4 DEF CodecInv

\* Every step keeps the invariant.
LEMMA CodecInvNext == CodecInv /\ [CodecNext]_codec_vars => CodecInv'
<1> SUFFICES ASSUME CodecInv, [CodecNext]_codec_vars PROVE CodecInv'
  OBVIOUS
<1>1. CASE decode
  BY <1>1, DecodeKeeps
<1>2. CASE assign
  BY <1>2, AssignBuilds
<1>3. CASE Encode
  BY <1>3, EncodeKeeps
<1>4. CASE UNCHANGED codec_vars
  BY <1>4 DEF CodecInv, codec_vars
<1> QED BY <1>1, <1>2, <1>3, <1>4 DEF CodecNext

\* The object and its word belong together in every state.
THEOREM CodecConsistent == CodecSpec => []CodecInv
BY CodecInvInit, CodecInvNext, PTL DEF CodecSpec

\* An instruction that the core executes has one meaning, in every word.
THEOREM AllDecodersAgree == CodecSpec => []DecodersAgree
<1>1. CodecInv => DecodersAgree
  <2> SUFFICES ASSUME CodecInv, step = "decoded" PROVE DecodersAgree
    BY DEF DecodersAgree
  <2>1. word \in Word /\ obj = Decoded(obj, word)
    BY DEF CodecInv
  <2> DEFINE core == decoder(word)
  <2>2. ASSUME NEW n \in core
        PROVE  /\ obj.str = n
               /\ \A name \in {pipe_decode(word, TRUE), visual_decode(word, TRUE)} :
                    name \in IF is_nop(obj) THEN {n, "nop"} ELSE {n}
               /\ obj.riscv # "P" /\ obj.riscv # "R" =>
                    LET core_imm == signext(word, obj.imm)
                    IN  CASE IsShift(n)    -> obj.imm_value = core_imm \cap 0..4
                          [] obj.imm = "U" -> Shl(obj.imm_value, 12) = core_imm
                          [] OTHER         -> obj.imm_value = core_imm
               /\ obj.riscv = "R" => decode_alu(alu_func(n)) = n
    <3>1. /\ obj.str = n
          /\ pipe_decode(word, TRUE) \in IF is_nop(obj) THEN {n, "nop"} ELSE {n}
          /\ obj.riscv # "P" /\ obj.riscv # "R" =>
               LET core_imm == signext(word, obj.imm)
               IN  CASE IsShift(n)    -> obj.imm_value = core_imm \cap 0..4
                     [] obj.imm = "U" -> Shl(obj.imm_value, 12) = core_imm
                     [] OTHER         -> obj.imm_value = core_imm
          /\ obj.riscv = "R" => decode_alu(alu_func(n)) = n
      BY <2>1, CoreAgrees
    <3>2. visual_decode(word, TRUE) = pipe_decode(word, TRUE)
      BY DEF visual_decode
    <3> QED BY <3>1, <3>2, Zenon
  <2>3. core = {} /\ obj.op # "INVALID" => obj.op \in {"jalr", "wfi"}
    BY <2>1, NamedByCore
  <2>4. \A m, n \in core : m = n
    BY <2>2
  <2> QED BY <2>2, <2>3, <2>4, Zenon DEF DecodersAgree
<1> QED BY <1>1, CodecConsistent, PTL

\* The second half of the round trip: what an encoded instruction's word
\* decodes to.
LEMMA Survives ==
  ASSUME CodecInv, step = "encoded", obj.op # "INVALID", ~(IsStore(obj.op) /\ 31 \in obj.imm_value),
         ~(obj.op = "jal" /\ obj.imm = "U")
  PROVE  Same(obj, Decoded(obj, word))
<1>1. /\ word \in Word /\ word = encode(obj)
      /\ \/ Built(obj)
         \/ obj = Decoded(obj, word)
         \/ IsStore(obj.op) /\ obj = Decoded(obj, word \cup {31})
  BY DEF CodecInv
<1>2. CASE Built(obj)
  <2>1. obj.op # "jal"
    BY <1>2, BuiltFields
  <2> QED BY <1>1, <1>2, <2>1, Rebuilt
<1>3. CASE obj = Decoded(obj, word)
  BY <1>3, Zenon DEF Same
<1>4. CASE IsStore(obj.op) /\ obj = Decoded(obj, word \cup {31})
  <2> DEFINE w == word \cup {31}
  <2>1. w \in Word /\ 31 \in w
    BY <1>1 DEF Word
  <2> HIDE DEF w
  <2>2. obj = Decoded(obj, w)
    BY <1>4 DEF w
  <2>3. obj.imm = "S"
    BY <1>4, <2>1, <2>2, NamedFormat
  <2>4. obj.imm_value = signext(w, "S")
    BY <2>1, <2>2, <2>3, DecodedImmediate
  <2>5. 31 \in signext(w, "S")
    BY <2>1, Signext
  <2> QED BY <1>4, <2>4, <2>5
<1> QED BY <1>1, <1>2, <1>3, <1>4

\* Words and instructions survive encode and decode.
THEOREM RoundTrips == CodecSpec => RoundTrip
<1> DEFINE A == /\ step = "decoded" /\ obj.op # "INVALID" /\ step' = "encoded" =>
                     word' = IF IsStore(obj.op) THEN word \ {31} ELSE word
                /\ step = "encoded" /\ obj.op # "INVALID" /\ ~(IsStore(obj.op) /\ 31 \in obj.imm_value)
                     /\ ~(obj.op = "jal" /\ obj.imm = "U") => Same(obj, obj')
<1>1. CodecInv /\ CodecNext => A
  <2> SUFFICES ASSUME CodecInv, CodecNext PROVE A
    OBVIOUS
  <2>1. ASSUME step = "decoded", obj.op # "INVALID", step' = "encoded"
        PROVE  word' = IF IsStore(obj.op) THEN word \ {31} ELSE word
    <3>1. word' = encode(obj)
      BY <2>1 DEF CodecNext, decode, assign, Encode
    <3>2. word \in Word /\ obj = Decoded(obj, word)
      BY <2>1 DEF CodecInv
    <3> QED BY <2>1, <3>1, <3>2, Reencodes
  <2>2. ASSUME step = "encoded", obj.op # "INVALID", ~(IsStore(obj.op) /\ 31 \in obj.imm_value),
               ~(obj.op = "jal" /\ obj.imm = "U")
        PROVE  Same(obj, obj')
    <3>1. obj' = Decoded(obj, word)
      BY <2>2 DEF CodecNext, decode, assign, Encode
    <3> QED BY <2>2, <3>1, Survives
  <2> QED BY <2>1, <2>2
<1>2. CodecInv /\ [CodecNext]_codec_vars => [A]_codec_vars
  BY <1>1
<1> QED BY <1>2, CodecConsistent, PTL DEF CodecSpec, RoundTrip
-----------------------------------------------------------------------------
(* The allocator: the invariant. *)

\* Every value of f is a key, and from key to key f goes up, and from the last
\* one to the first.
Circle(f) ==
  /\ DOMAIN f \subseteq 1..(WRAP - 1)
  /\ \A p \in DOMAIN f : f[p] \in DOMAIN f
  /\ \A p, q \in DOMAIN f : p < q => f[p] \in (p + 1)..q /\ f[q] \notin (p + 1)..q

\* The free list of the allocator's variables h.
ListOK(h) ==
  /\ h = [nxt |-> h.nxt, size |-> h.size, freep |-> h.freep, next_index |-> h.next_index]
  /\ h.nxt = [p \in DOMAIN h.nxt |-> h.nxt[p]]
  /\ Circle(h.nxt)
  /\ anchor \in DOMAIN h.nxt /\ h.freep \in DOMAIN h.nxt

BlocksOf(h, L) == L \cup (DOMAIN h.nxt \ {anchor})

\* The blocks in L and those on the list are laid side by side.
TilesOK(h, L) ==
  /\ L \cap DOMAIN h.nxt = {} /\ anchor \notin L
  /\ anchor \in DOMAIN h.size /\ BlocksOf(h, L) \subseteq DOMAIN h.size
  /\ h.size[anchor] = 0
  /\ h.next_index \in ARENA..(ARENA + HEAP_SIZE)
  /\ \A p \in BlocksOf(h, L) : /\ p \in Nat /\ p >= ARENA
                               /\ h.size[p] \in Nat \ {0}
                               /\ p + (HEADER + h.size[p]) <= h.next_index
  /\ \A p, q \in BlocksOf(h, L) : p < q => p + (HEADER + h.size[p]) <= q
  /\ \A x \in ARENA..(h.next_index - 1) :
       \E p \in BlocksOf(h, L) : p <= x /\ x < p + (HEADER + h.size[p])

\* All blocks are of size s, one behind the other.
RowOK(h, L, s) ==
  /\ (h.next_index - ARENA) % (s + HEADER) = 0
  /\ \A p \in BlocksOf(h, L) : h.size[p] = s /\ (p - ARENA) % (s + HEADER) = 0

\* Blocks of one size, or none on the list when the program frees nothing.
ShapeOK(h, L) ==
  IF program.frees THEN \E sz \in program.sizes : RowOK(h, L, Round(sz))
                   ELSE DOMAIN h.nxt = {anchor}

\* HEADER * s, which is where the merges look, is neither the distance of two
\* blocks of size s nor that of base, linked at x, behind one.
OutOfReach(s, x) ==
  /\ (HEADER * s) % (s + HEADER) # 0
  /\ x >= ARENA + HEADER * s => (x - (ARENA + HEADER * s)) % (s + HEADER) # 0

\* A program that frees has one size, after rounding, and no merge reaches
\* another of its blocks or base.
Careful(p, x) ==
  p.frees => \A y, z \in p.sizes : Round(y) = Round(z) /\ OutOfReach(Round(y), x)

HeapInv ==
  /\ program \in Programs /\ anchor \in Anchors
  /\ freep = NULL => DOMAIN nxt = {} /\ DOMAIN size = {} /\ next_index = ARENA /\ live = {}
  /\ freep # NULL => ListOK(heap) /\ TilesOK(heap, live) /\ ShapeOK(heap, live)

-----------------------------------------------------------------------------
(* The allocator: the list. *)

\* A new key between two neighbours keeps the circle.
LEMMA CircleInsert ==
  ASSUME WRAP \in Nat, NEW f, Circle(f), NEW p \in DOMAIN f, NEW b \in (1..(WRAP - 1)) \ DOMAIN f,
         \/ b > p /\ b < f[p]
         \/ p >= f[p] /\ (b > p \/ b < f[p])
  PROVE  Circle(Set(Set(f, b, f[p]), p, b))
<1> DEFINE g == Set(Set(f, b, f[p]), p, b)
           D == DOMAIN f
<1>1. DOMAIN g = D \cup {b} /\ g[b] = f[p] /\ g[p] = b /\ \A q \in D \ {p} : g[q] = f[q]
  BY DEF Set
<1>2. D \subseteq 1..(WRAP - 1) /\ b \in 1..(WRAP - 1) /\ b \notin D /\ p \in D
  BY DEF Circle
<1>3. \A q \in D : q \in Int /\ f[q] \in Int /\ f[q] \in D
  BY <1>2 DEF Circle
<1>4. \A x, y \in D : x < y => f[x] \in (x + 1)..y /\ f[y] \notin (x + 1)..y
  BY DEF Circle
<1> HIDE DEF g, D
<1>5. \A q \in DOMAIN g : g[q] \in DOMAIN g
  BY <1>1, <1>2, <1>3
<1>6. ASSUME NEW x \in DOMAIN g, NEW y \in DOMAIN g, x < y
      PROVE  g[x] \in (x + 1)..y /\ g[y] \notin (x + 1)..y
  <2>1. CASE x \in D /\ y \in D
    BY <2>1, <1>1, <1>2, <1>3, <1>4, <1>6
  <2>2. CASE x = b /\ y \in D
    BY <2>2, <1>1, <1>2, <1>3, <1>4, <1>6
  <2>3. CASE x \in D /\ y = b
    BY <2>3, <1>1, <1>2, <1>3, <1>4, <1>6
  <2> QED
    BY <2>1, <2>2, <2>3, <1>1, <1>2, <1>6
<1>7. DOMAIN g \subseteq 1..(WRAP - 1)
  BY <1>1, <1>2
<1> QED
  BY <1>5, <1>6, <1>7 DEF Circle, g

\* So does leaving out a key that is not alone.
LEMMA CircleRemove ==
  ASSUME WRAP \in Nat, NEW f, Circle(f), NEW p \in DOMAIN f, f[p] # p
  PROVE  Circle(Drop(Set(f, p, f[f[p]]), f[p]))
<1> DEFINE q == f[p]
           g == Drop(Set(f, p, f[q]), q)
           D == DOMAIN f
<1>1. DOMAIN g = D \ {q} /\ g[p] = f[q] /\ \A r \in D \ {p, q} : g[r] = f[r]
  <2>1. q \in D
    BY DEF Circle
  <2> QED
    BY <2>1 DEF Set, Drop
<1>2. D \subseteq 1..(WRAP - 1) /\ p \in D /\ q \in D /\ q # p
  BY DEF Circle
<1>3. \A r \in D : r \in Int /\ f[r] \in Int /\ f[r] \in D
  BY <1>2 DEF Circle
<1>4. \A x, y \in D : x < y => f[x] \in (x + 1)..y /\ f[y] \notin (x + 1)..y
  BY DEF Circle
<1>q. f[p] = q
  OBVIOUS
<1> HIDE DEF q, g, D
<1>5. \A r \in D \ {p} : f[r] # q
  BY <1>2, <1>3, <1>4, <1>q
<1>6. f[q] # q
  BY <1>2, <1>3, <1>4, <1>q
<1>7. \A r \in DOMAIN g : g[r] \in DOMAIN g
  BY <1>1, <1>2, <1>3, <1>5, <1>6
<1>8. ASSUME NEW x \in DOMAIN g, NEW y \in DOMAIN g, x < y
      PROVE  g[x] \in (x + 1)..y /\ g[y] \notin (x + 1)..y
  <2>1. g[x] \in (x + 1)..y
    BY <1>1, <1>2, <1>3, <1>4, <1>8, <1>q
  <2>2. g[y] \notin (x + 1)..y
    BY <1>1, <1>2, <1>3, <1>4, <1>8, <1>q
  <2> QED
    BY <2>1, <2>2
<1>9. DOMAIN g \subseteq 1..(WRAP - 1)
  BY <1>1, <1>2
<1> QED
  BY <1>7, <1>8, <1>9 DEF Circle, g, q

\* tj_free finds the one place on the list that is right for the block.
LEMMA ScanFinds ==
  ASSUME WRAP \in Nat, NEW h, ListOK(h), NEW b \in (1..(WRAP - 1)) \ DOMAIN h.nxt
  PROVE  Scan(h, b) \in DOMAIN h.nxt /\ Between(h, Scan(h, b), b)
<1> DEFINE f == h.nxt
           D == DOMAIN f
           S == {q \in D : ~Between(h, q, b)}
<1>1. D \subseteq 1..(WRAP - 1) /\ b \in 1..(WRAP - 1) /\ b \notin D /\ anchor \in D /\ h.freep \in D
  BY DEF ListOK, Circle
<1>2. \A q \in D : q \in Int /\ f[q] \in Int /\ f[q] \in D
  BY <1>1 DEF Circle, ListOK
<1>3. \A x, y \in D : x < y => f[x] \in (x + 1)..y /\ f[y] \notin (x + 1)..y
  BY DEF Circle, ListOK
<1>4. \A q \in D : Between(h, q, b) <=> \/ (b > q /\ b < f[q])
                                         \/ (q >= f[q] /\ (b > q \/ b < f[q]))
  BY DEF Between
<1> HIDE DEF f, D
<1>5. PICK m \in D : \A q \in D : q <= m
  <2>1. D \in SUBSET Nat /\ D # {} /\ WRAP \in Nat /\ \A q \in D : q <= WRAP
    BY <1>1
  <2> QED
    BY <2>1, GreatestNat
<1>6. f[m] <= m
  BY <1>2, <1>5
<1>7. \E p \in D : Between(h, p, b)
  <2>1. CASE \E q \in D : q < b
    <3> DEFINE U == {q \in D : q < b}
    <3>1. U \in SUBSET Nat /\ b \in Nat /\ \A q \in U : q <= b
      <4>1. b \in Nat /\ D \in SUBSET Nat
        BY <1>1
      <4>2. U \in SUBSET Nat
        BY <4>1
      <4>3. \A q \in U : q <= b
        BY <4>1
      <4> QED
        BY <4>1, <4>2, <4>3
    <3>0. U # {}
      BY <2>1
    <3>2. PICK p \in U : \A q \in U : q <= p
      BY <3>1, <3>0, GreatestNat
    <3>3. p \in D /\ p < b /\ \A q \in D : (q <= p) \/ (q > b)
      BY <3>2, <1>1, <1>2
    <3>4. CASE p = m
      BY <3>3, <3>4, <1>1, <1>2, <1>4, <1>6
    <3>5. CASE p # m
      BY <3>3, <3>5, <1>1, <1>2, <1>3, <1>4, <1>5
    <3> QED
      BY <3>4, <3>5
  <2>2. CASE ~\E q \in D : q < b
    BY <2>2, <1>1, <1>2, <1>4, <1>6
  <2> QED
    BY <2>1, <2>2
<1>8. PICK p \in D : Between(h, p, b)
  BY <1>7
<1>9. \A q \in D : Between(h, q, b) => q = p
  <2>1. ASSUME NEW x \in D, NEW y \in D, x < y, Between(h, x, b), Between(h, y, b) PROVE FALSE
    <3>1. f[x] > x /\ f[x] <= y /\ ~(f[y] > x /\ f[y] <= y)
      BY <2>1, <1>2, <1>3
    <3>2. b > x /\ b < f[x]
      BY <2>1, <3>1, <1>1, <1>2, <1>4
    <3>3. b < y
      BY <3>1, <3>2, <1>1, <1>2
    <3>4. y >= f[y] /\ b < f[y]
      BY <2>1, <3>3, <1>1, <1>2, <1>4
    <3> QED
      BY <3>1, <3>2, <3>4, <1>1, <1>2
  <2>2. ASSUME NEW q \in D, Between(h, q, b), q # p PROVE FALSE
    <3>1. q < p \/ p < q
      BY <2>2, <1>2
    <3> QED
      BY <3>1, <2>1, <2>2, <1>8
  <2> QED
    BY <2>2
<1>10. Leads(h, h.freep, S, p)
  <2>1. \A q \in D : q \in S \cup {p}
    BY <1>9
  <2>2. S \subseteq D /\ \A q \in D : h.nxt[q] \in D
    BY <1>2 DEF f
  <2> HIDE DEF S
  <2> QED
    BY <2>1, <2>2, <1>1 DEF Leads
<1>11. \E q \in DOMAIN h.nxt :
         /\ Between(h, q, b)
         /\ \E T \in SUBSET {r \in DOMAIN h.nxt : ~Between(h, r, b)} : Leads(h, h.freep, T, q)
  BY <1>8, <1>10 DEF D, f
<1> QED
  BY <1>11 DEF Scan

-----------------------------------------------------------------------------
(* The allocator: where its pointers lead. *)

\* base is off the array, and 1 block further on in units of headers is still
\* below WRAP.
LEMMA Layout ==
  ASSUME HeapAssumption, anchor \in Anchors
  PROVE  /\ HEADER \in Nat \ {0} /\ HEAP_SIZE \in Nat /\ WRAP \in Nat
         /\ HEADER * HEAP_SIZE \in Nat
         /\ HEADER * HEAP_SIZE + HEAP_SIZE + 4 * HEADER < WRAP
         /\ ARENA = 2 * HEADER
         /\ anchor \in 1..(WRAP - 1)
         /\ anchor < ARENA \/ anchor >= ARENA + HEAP_SIZE
<1>1. HEADER \in Nat \ {0} /\ HEAP_SIZE \in Nat /\ WRAP \in Nat
      /\ (HEADER + 1) * HEAP_SIZE + 4 * HEADER < WRAP
  BY DEF HeapAssumption
<1>2. (HEADER + 1) * HEAP_SIZE = HEADER * HEAP_SIZE + HEAP_SIZE /\ HEADER * HEAP_SIZE \in Nat
  BY <1>1
<1>3. ARENA = 2 * HEADER
  BY DEF ARENA
<1>4. anchor \in 1..(WRAP - HEADER) /\ (anchor + HEADER <= ARENA \/ ARENA + HEAP_SIZE <= anchor)
  BY DEF HeapAssumption
<1> QED
  BY <1>1, <1>2, <1>3, <1>4

\* Behind a block of the array, in units of headers, lies nothing that was
\* reached by going around.
LEMMA PlusInArray ==
  ASSUME HeapAssumption, anchor \in Anchors, NEW p \in Nat, NEW n \in Nat,
         p >= ARENA, p + (HEADER + n) <= ARENA + HEAP_SIZE
  PROVE  /\ p \in 1..(WRAP - 1) /\ p # anchor /\ n < WRAP
         /\ Plus(p, n) = p + HEADER * n
         /\ Plus(anchor, 0) = anchor
<1> DEFINE K == HEADER * HEAP_SIZE
           M == HEADER * n
<1>1. /\ HEADER \in Nat \ {0} /\ HEAP_SIZE \in Nat /\ WRAP \in Nat /\ K \in Nat
      /\ K + HEAP_SIZE + 4 * HEADER < WRAP
      /\ ARENA = 2 * HEADER
      /\ anchor \in 1..(WRAP - 1)
      /\ anchor < ARENA \/ anchor >= ARENA + HEAP_SIZE
  BY Layout
<1>2. n <= HEAP_SIZE
  BY <1>1
<1>3. M \in Nat /\ M <= K
  <2>1. PICK d \in Nat : HEAP_SIZE = n + d
    <3>1. HEAP_SIZE - n \in Nat /\ HEAP_SIZE = n + (HEAP_SIZE - n)
      BY <1>1, <1>2
    <3> QED
      BY <3>1
  <2>2. HEADER * (n + d) = HEADER * n + HEADER * d /\ HEADER * n \in Nat /\ HEADER * d \in Nat
    BY <1>1
  <2> QED
    BY <2>1, <2>2
<1>4. Plus(p, n) = (p + M) % WRAP /\ Plus(anchor, 0) = (anchor + HEADER * 0) % WRAP
  BY DEF Plus
<1> HIDE DEF K, M
<1>5. p \in 1..(WRAP - 1) /\ p # anchor /\ p + M \in 1..(WRAP - 1) /\ n < WRAP
  BY <1>1, <1>2, <1>3
<1>6. (p + M) % WRAP = p + M
  BY <1>1, <1>5
<1>7. (anchor + HEADER * 0) % WRAP = anchor
  BY <1>1
<1> QED
  BY <1>4, <1>5, <1>6, <1>7 DEF M

\* A block that is next to none, as the merges count, is put on the list.
LEMMA FreedIs ==
  ASSUME WRAP \in Nat, NEW h, ListOK(h), NEW b \in (1..(WRAP - 1)) \ DOMAIN h.nxt, b \in DOMAIN h.size,
         \A q \in DOMAIN h.nxt : Plus(b, h.size[b]) # q /\ Plus(q, h.size[q]) # b
  PROVE  /\ ListOK(Freed(h, b))
         /\ DOMAIN Freed(h, b).nxt = DOMAIN h.nxt \cup {b}
         /\ Freed(h, b).size = h.size /\ Freed(h, b).next_index = h.next_index
         /\ Freed(h, b).nxt = Set(Set(h.nxt, b, h.nxt[Freed(h, b).freep]), Freed(h, b).freep, b)
         /\ Freed(h, b).freep \in DOMAIN h.nxt
<1> DEFINE p == Scan(h, b)
           u == [h EXCEPT !.nxt = Set(@, b, h.nxt[p])]
           l == [u EXCEPT !.nxt = Set(@, p, b)]
           r == [l EXCEPT !.freep = p]
<1>1. p \in DOMAIN h.nxt /\ Between(h, p, b)
  BY ScanFinds
<1>2. h.nxt[p] \in DOMAIN h.nxt
  BY <1>1 DEF ListOK, Circle
<1>3. JoinUpper(h, b, h.nxt[p]) = u
  BY <1>2 DEF JoinUpper
<1>4. u.size = h.size /\ u.nxt = Set(h.nxt, b, h.nxt[p]) /\ u.freep = h.freep
      /\ u.next_index = h.next_index
  BY DEF ListOK
<1>5. JoinLower(u, p, b) = l
  BY <1>1, <1>4 DEF JoinLower
<1>6. Freed(h, b) = r
  BY <1>3, <1>5 DEF Freed
<1>7. l.nxt = Set(Set(h.nxt, b, h.nxt[p]), p, b) /\ l.size = h.size /\ l.next_index = h.next_index
  BY <1>4 DEF ListOK
<1>8. r.nxt = l.nxt /\ r.size = h.size /\ r.next_index = h.next_index /\ r.freep = p
      /\ r = [nxt |-> r.nxt, size |-> r.size, freep |-> r.freep, next_index |-> r.next_index]
  <2>1. h = [nxt |-> h.nxt, size |-> h.size, freep |-> h.freep, next_index |-> h.next_index]
    BY DEF ListOK
  <2>2. u = [nxt |-> u.nxt, size |-> h.size, freep |-> h.freep, next_index |-> h.next_index]
    BY <2>1
  <2> HIDE DEF u
  <2>3. l = [nxt |-> l.nxt, size |-> h.size, freep |-> h.freep, next_index |-> h.next_index]
    BY <2>2
  <2> HIDE DEF l
  <2>4. r = [nxt |-> l.nxt, size |-> h.size, freep |-> p, next_index |-> h.next_index]
    BY <2>3
  <2> HIDE DEF r
  <2> QED
    BY <2>4
<1> HIDE DEF p, u, l, r
<1>9. Circle(r.nxt)
  <2>1. Circle(h.nxt)
    BY DEF ListOK
  <2>2. (b > p /\ b < h.nxt[p]) \/ (p >= h.nxt[p] /\ (b > p \/ b < h.nxt[p]))
    BY <1>1 DEF Between
  <2> QED
    BY <2>1, <2>2, <1>1, <1>7, <1>8, CircleInsert
<1>10. DOMAIN r.nxt = DOMAIN h.nxt \cup {b} /\ r.nxt = [x \in DOMAIN r.nxt |-> r.nxt[x]]
  BY <1>1, <1>7, <1>8 DEF Set
<1>11. ListOK(r)
  BY <1>1, <1>8, <1>9, <1>10 DEF ListOK
<1> QED
  BY <1>1, <1>6, <1>7, <1>8, <1>10, <1>11

IsSize(f) == f = [x \in DOMAIN f |-> f[x]]

\* When base is alone on the list, joining it is pointing to it: it has no
\* size, and the block that follows base points back to base either way.
LEMMA FreedAlone ==
  ASSUME WRAP \in Nat, NEW h, ListOK(h), DOMAIN h.nxt = {anchor},
         NEW b \in (1..(WRAP - 1)) \ DOMAIN h.nxt, b \in DOMAIN h.size,
         IsSize(h.size), h.size[anchor] = 0,
         h.size[b] \in 0..(WRAP - 1), Plus(anchor, 0) = anchor
  PROVE  /\ ListOK(Freed(h, b))
         /\ DOMAIN Freed(h, b).nxt = DOMAIN h.nxt \cup {b}
         /\ Freed(h, b).size = h.size /\ Freed(h, b).next_index = h.next_index
         /\ Freed(h, b).nxt = Set(Set(h.nxt, b, h.nxt[Freed(h, b).freep]), Freed(h, b).freep, b)
         /\ Freed(h, b).freep \in DOMAIN h.nxt
<1>1. CASE Plus(b, h.size[b]) # anchor
  <2>1. \A q \in DOMAIN h.nxt : Plus(b, h.size[b]) # q /\ Plus(q, h.size[q]) # b
    BY <1>1
  <2> QED
    BY <2>1, FreedIs
<1>2. CASE Plus(b, h.size[b]) = anchor
  <2> DEFINE f == Set(h.nxt, b, h.nxt[anchor])
             d == Drop(f, anchor)
             z == Set(h.size, b, (h.size[b] + h.size[anchor]) % WRAP)
             k == [h EXCEPT !.size = z]
             u == [k EXCEPT !.nxt = d]
             g == Set(d, anchor, b)
             l == [u EXCEPT !.nxt = g]
             r == [l EXCEPT !.freep = anchor]
  <2>1. Scan(h, b) = anchor /\ h.nxt[anchor] = anchor /\ b # anchor
    <3>1. Scan(h, b) \in DOMAIN h.nxt
      BY ScanFinds
    <3> QED
      BY <3>1 DEF ListOK, Circle
  <2>2. z = h.size
    <3>1. (h.size[b] + h.size[anchor]) % WRAP = h.size[b]
      BY SMTT(30)
    <3>2. z = [x \in DOMAIN h.size \cup {b} |-> IF x = b THEN h.size[b] ELSE h.size[x]]
      BY <3>1 DEF Set
    <3>3. DOMAIN h.size \cup {b} = DOMAIN h.size
      OBVIOUS
    <3> QED
      BY <3>2, <3>3, ZenonT(60) DEF IsSize
  <2>3. h = [nxt |-> h.nxt, size |-> h.size, freep |-> h.freep, next_index |-> h.next_index]
    BY DEF ListOK
  <2>4. JoinUpper(h, b, anchor) = u
    <3>1. JoinUpper(h, b, anchor) = [h EXCEPT !.size = z, !.nxt = d]
      BY <1>2, <2>1 DEF JoinUpper
    <3> HIDE DEF z, d
    <3> QED
      BY <2>3, <3>1
  <2> HIDE DEF z, d
  <2>5. k = h
    BY <2>2, <2>3
  <2> HIDE DEF k
  <2>6. u = [nxt |-> d, size |-> h.size, freep |-> h.freep, next_index |-> h.next_index]
    BY <2>3, <2>5
  <2> HIDE DEF u, g
  <2>7. JoinLower(u, anchor, b) = l
    <3>1. u.size[anchor] = 0 /\ Plus(anchor, u.size[anchor]) # b /\ u.nxt = d
      BY <2>1, <2>6
    <3>2. JoinLower(u, anchor, b) = [u EXCEPT !.nxt = Set(@, anchor, b)]
      BY <3>1 DEF JoinLower
    <3> QED
      BY <3>1, <3>2 DEF g
  <2>8. l = [nxt |-> g, size |-> h.size, freep |-> h.freep, next_index |-> h.next_index]
    BY <2>6
  <2> HIDE DEF l
  <2>9. r = [nxt |-> g, size |-> h.size, freep |-> anchor, next_index |-> h.next_index]
    BY <2>8
  <2>10. Freed(h, b) = r
    BY <2>1, <2>4, <2>7 DEF Freed
  <2> HIDE DEF r
  <2>11. g = [x \in {anchor, b} |-> IF x = anchor THEN b ELSE anchor]
    <3>1. DOMAIN f = {anchor, b} /\ f[b] = anchor
      BY <2>1 DEF Set
    <3> HIDE DEF f
    <3>2. DOMAIN d = {b} /\ d[b] = anchor
      BY <3>1, <2>1 DEF d, Drop
    <3> QED
      BY <3>2, <2>1 DEF g, Set
  <2>12. Set(Set(h.nxt, b, anchor), anchor, b) = g
    <3> DEFINE v == Set(h.nxt, b, anchor)
    <3>1. DOMAIN v = {anchor, b} /\ v[b] = anchor
      BY <2>1 DEF Set
    <3> HIDE DEF v
    <3>2. Set(v, anchor, b) = [x \in {anchor, b} |-> IF x = anchor THEN b ELSE anchor]
      BY <3>1, <2>1 DEF Set
    <3> QED
      BY <3>2, <2>11 DEF v
  <2>13. Circle(g)
    <3>1. Circle(h.nxt) /\ (anchor >= h.nxt[anchor] /\ (b > anchor \/ b < h.nxt[anchor]))
      BY <2>1 DEF ListOK, Circle
    <3> QED
      BY <3>1, <2>1, <2>12, CircleInsert
  <2>14. DOMAIN g = {anchor, b} /\ g = [x \in DOMAIN g |-> g[x]]
    BY <2>11
  <2>15. ListOK(r)
    BY <2>9, <2>13, <2>14 DEF ListOK
  <2> QED
    BY <2>1, <2>9, <2>10, <2>12, <2>14, <2>15
<1> QED
  BY <1>1, <1>2

\* A block of the list that is exactly right is taken off it.
LEMMA CarveIs ==
  ASSUME WRAP \in Nat, NEW h, ListOK(h), NEW q \in DOMAIN h.nxt, NEW sz,
         h.nxt[q] # q, h.nxt[q] # anchor, h.size[h.nxt[q]] = sz
  PROVE  LET r == Carve(h, q, h.nxt[q], sz)
         IN  /\ r.block = h.nxt[q]
             /\ ListOK(r.heap)
             /\ DOMAIN r.heap.nxt = DOMAIN h.nxt \ {h.nxt[q]}
             /\ r.heap.size = h.size /\ r.heap.next_index = h.next_index
             /\ r.heap.freep = q
<1> DEFINE p == h.nxt[q]
           f == Drop(Set(h.nxt, q, h.nxt[p]), p)
           k == [h EXCEPT !.nxt = f]
           g == [k EXCEPT !.freep = q]
           r == Carve(h, q, p, sz)
<1>1. r = [block |-> p, heap |-> g]
  <2>1. r = [block |-> p, heap |-> [h EXCEPT !.nxt = f, !.freep = q]]
    BY DEF Carve
  <2>2. [h EXCEPT !.nxt = f, !.freep = q] = g
    <3> HIDE DEF f
    <3> QED
      BY DEF ListOK
  <2> QED
    BY <2>1, <2>2
<1>2. /\ g.nxt = f /\ g.size = h.size /\ g.freep = q /\ g.next_index = h.next_index
      /\ g = [nxt |-> g.nxt, size |-> g.size, freep |-> g.freep, next_index |-> g.next_index]
  <2>1. h = [nxt |-> h.nxt, size |-> h.size, freep |-> h.freep, next_index |-> h.next_index]
    BY DEF ListOK
  <2> HIDE DEF f
  <2>2. g = [nxt |-> f, size |-> h.size, freep |-> q, next_index |-> h.next_index]
    <3>1. k = [nxt |-> f, size |-> h.size, freep |-> h.freep, next_index |-> h.next_index]
      BY <2>1
    <3> HIDE DEF k
    <3> QED
      BY <3>1
  <2> HIDE DEF g
  <2> QED
    BY <2>2
<1>3. r.block = p /\ r.heap = g
  BY <1>1
<1>4. p \in DOMAIN h.nxt /\ Circle(h.nxt) /\ anchor \in DOMAIN h.nxt
  BY DEF ListOK, Circle
<1> HIDE DEF g, r
<1>5. Circle(g.nxt)
  BY <1>2, <1>4, CircleRemove
<1>6. DOMAIN g.nxt = DOMAIN h.nxt \ {p} /\ g.nxt = [x \in DOMAIN g.nxt |-> g.nxt[x]]
  BY <1>2, <1>4 DEF Set, Drop
<1>7. ListOK(g)
  BY <1>2, <1>4, <1>5, <1>6 DEF ListOK
<1> QED
  BY <1>2, <1>3, <1>6, <1>7 DEF r

-----------------------------------------------------------------------------
(* The allocator: its blocks. *)

\* Which blocks are in use and which on the list does not matter to the tiles.
LEMMA TilesMove ==
  ASSUME NEW h, NEW r, NEW L, NEW M, TilesOK(h, L),
         r.size = h.size, r.next_index = h.next_index, BlocksOf(r, M) = BlocksOf(h, L),
         M \cap DOMAIN r.nxt = {}, anchor \notin M
  PROVE  TilesOK(r, M)
BY DEF TilesOK

\* No merge leads from block b to another or to base, or there is only base on
\* the list.
KeepsApart(h, b) ==
  \/ /\ b + HEADER * h.size[b] # anchor
     /\ \A q \in DOMAIN h.nxt \ {anchor} :
          b + HEADER * h.size[b] # q /\ q + HEADER * h.size[q] # b
  \/ DOMAIN h.nxt = {anchor} /\ IsSize(h.size)

\* tj_free of such a block.
LEMMA FreeKeeps ==
  ASSUME HeapAssumption, anchor \in Anchors,
         NEW h, ListOK(h), NEW L, TilesOK(h, L), NEW b \in L,
         KeepsApart(h, b)
  PROVE  /\ ListOK(Freed(h, b)) /\ TilesOK(Freed(h, b), L \ {b})
         /\ DOMAIN Freed(h, b).nxt = DOMAIN h.nxt \cup {b}
         /\ BlocksOf(Freed(h, b), L \ {b}) = BlocksOf(h, L)
         /\ Freed(h, b).size = h.size /\ Freed(h, b).next_index = h.next_index
         /\ Freed(h, b).nxt = Set(Set(h.nxt, b, h.nxt[Freed(h, b).freep]), Freed(h, b).freep, b)
         /\ Freed(h, b).freep \in DOMAIN h.nxt
<1> DEFINE r == Freed(h, b)
<1>1. /\ HEADER \in Nat \ {0} /\ HEAP_SIZE \in Nat /\ WRAP \in Nat
      /\ ARENA \in Nat /\ anchor \in Nat
  BY Layout
<1>2. \A p \in BlocksOf(h, L) :
        /\ p \in Nat /\ h.size[p] \in Nat /\ p >= ARENA
        /\ p + (HEADER + h.size[p]) <= ARENA + HEAP_SIZE
  <2>1. h.next_index \in Int /\ h.next_index <= ARENA + HEAP_SIZE
    BY <1>1 DEF TilesOK
  <2> SUFFICES ASSUME NEW p \in BlocksOf(h, L)
               PROVE  /\ p \in Nat /\ h.size[p] \in Nat /\ p >= ARENA
                      /\ p + (HEADER + h.size[p]) <= ARENA + HEAP_SIZE
    OBVIOUS
  <2>2. p \in Nat /\ h.size[p] \in Nat /\ p >= ARENA /\ p + (HEADER + h.size[p]) <= h.next_index
    BY DEF TilesOK
  <2> QED
    BY <1>1, <2>1, <2>2
<1>3. b \in BlocksOf(h, L) /\ \A q \in DOMAIN h.nxt : q = anchor \/ q \in BlocksOf(h, L)
  BY DEF BlocksOf
<1>4. \A p \in BlocksOf(h, L) :
        /\ p \in 1..(WRAP - 1) /\ p # anchor /\ h.size[p] < WRAP
        /\ Plus(p, h.size[p]) = p + HEADER * h.size[p]
        /\ Plus(anchor, 0) = anchor
  BY <1>2, PlusInArray
<1>5. b \in (1..(WRAP - 1)) \ DOMAIN h.nxt /\ b \in DOMAIN h.size /\ h.size[anchor] = 0
  BY <1>3, <1>4 DEF TilesOK
<1>6. \/ \A q \in DOMAIN h.nxt : Plus(b, h.size[b]) # q /\ Plus(q, h.size[q]) # b
      \/ DOMAIN h.nxt = {anchor} /\ IsSize(h.size)
  <2> SUFFICES ASSUME b + HEADER * h.size[b] # anchor,
                      \A q \in DOMAIN h.nxt \ {anchor} :
                        b + HEADER * h.size[b] # q /\ q + HEADER * h.size[q] # b,
                      NEW q \in DOMAIN h.nxt
               PROVE  Plus(b, h.size[b]) # q /\ Plus(q, h.size[q]) # b
    BY DEF KeepsApart
  <2>1. CASE q = anchor
    BY <2>1, <1>3, <1>4, <1>5
  <2>2. CASE q # anchor
    BY <2>2, <1>3, <1>4
  <2> QED
    BY <2>1, <2>2
<1>7. /\ ListOK(r) /\ DOMAIN r.nxt = DOMAIN h.nxt \cup {b}
      /\ r.size = h.size /\ r.next_index = h.next_index
      /\ r.nxt = Set(Set(h.nxt, b, h.nxt[r.freep]), r.freep, b)
      /\ r.freep \in DOMAIN h.nxt
  <2>1. CASE \A q \in DOMAIN h.nxt : Plus(b, h.size[b]) # q /\ Plus(q, h.size[q]) # b
    BY <1>1, <1>5, <2>1, FreedIs
  <2>2. CASE DOMAIN h.nxt = {anchor} /\ IsSize(h.size)
    <3>1. h.size[b] \in 0..(WRAP - 1) /\ Plus(anchor, 0) = anchor
      BY <1>1, <1>2, <1>3, <1>4
    <3> QED
      BY <1>1, <1>5, <2>2, <3>1, FreedAlone
  <2> QED
    BY <1>6, <2>1, <2>2
<1> HIDE DEF r
<1>8. BlocksOf(r, L \ {b}) = BlocksOf(h, L)
  BY <1>3, <1>4, <1>7 DEF BlocksOf
<1>9. (L \ {b}) \cap DOMAIN r.nxt = {} /\ anchor \notin L \ {b}
  BY <1>7 DEF TilesOK
<1>10. TilesOK(r, L \ {b})
  BY <1>7, <1>8, <1>9, TilesMove
<1> QED
  BY <1>7, <1>8, <1>10 DEF r

\* Blocks of one size: the distance of two is a number of strides, and
\* HEADER * s is none.
LEMMA RowApart ==
  ASSUME HEADER \in Nat \ {0}, NEW s \in Nat \ {0}, (HEADER * s) % (s + HEADER) # 0,
         NEW p \in Nat, NEW q \in Nat,
         (p - ARENA) % (s + HEADER) = 0, (q - ARENA) % (s + HEADER) = 0
  PROVE  p + HEADER * s # q
<1> DEFINE t == s + HEADER
           a == ARENA
           m == HEADER * s
           i == (p - a) \div t
           j == (q - a) \div t
<1>1. t \in Nat \ {0} /\ a \in Nat /\ m \in Nat
  BY DEF ARENA
<1>2. (p - a) % t = 0 /\ (q - a) % t = 0 /\ m % t # 0
  OBVIOUS
<1> HIDE DEF t, a, m
<1>3. i \in Int /\ j \in Int /\ p - a = t * i + 0 /\ q - a = t * j + 0
  <2> DEFINE x == p - a
             y == q - a
  <2>1. x \in Int /\ y \in Int
    BY <1>1
  <2>2. x % t = 0 /\ y % t = 0
    BY <1>2
  <2> HIDE DEF x, y
  <2>3. x \div t \in Int /\ x = t * (x \div t) + (x % t)
    BY <1>1, <2>1, Quotient
  <2>4. y \div t \in Int /\ y = t * (y \div t) + (y % t)
    BY <1>1, <2>1, Quotient
  <2> QED
    BY <2>2, <2>3, <2>4 DEF x, y
<1> HIDE DEF i, j
<1> SUFFICES ASSUME p + m = q PROVE FALSE
  BY DEF m
<1>4. m = t * (j - i) + 0
  <2>1. t * (j - i) = t * j - t * i /\ t * j \in Int /\ t * i \in Int
    BY <1>1, <1>3
  <2> QED
    BY <2>1, <1>1, <1>3
<1>5. j - i \in Int /\ 0 \in 0..(t - 1)
  BY <1>1, <1>3
<1>6. m % t = 0
  BY <1>1, <1>4, <1>5, RemainderIs, SMTT(30)
<1> QED
  BY <1>2, <1>6

\* What a program asks for is rounded up to words.
LEMMA RoundIs ==
  ASSUME NEW sz \in Nat \ {0}
  PROVE  Round(sz) \in Nat \ {0}
<1>1. sz % 4 \in 0..3
  OBVIOUS
<1> QED
  BY <1>1 DEF Round

\* getmoremem's new block before it is put on the list.
Grown(h, total) ==
  [h EXCEPT !.next_index = @ + total, !.size = Set(@, h.next_index, total - HEADER)]

LEMMA GrownIs ==
  ASSUME HEADER \in Nat \ {0}, NEW h, ListOK(h), NEW s \in Nat \ {0}, h.next_index \in Nat
  PROVE  LET k == Grown(h, s + HEADER)
             n == h.next_index
         IN  /\ ListOK(k) /\ k.nxt = h.nxt /\ k.freep = h.freep
             /\ k.next_index = n + (s + HEADER)
             /\ DOMAIN k.size = DOMAIN h.size \cup {n}
             /\ k.size[n] = s /\ \A p \in DOMAIN h.size \ {n} : k.size[p] = h.size[p]
             /\ getmoremem(h, s + HEADER) = Freed(k, n)
<1> DEFINE n == h.next_index
           t == s + HEADER
           f == Set(h.size, n, t - HEADER)
           j == [h EXCEPT !.next_index = n + t]
           k == [j EXCEPT !.size = f]
<1>1. Grown(h, t) = k
  <2>1. Grown(h, t) = [h EXCEPT !.next_index = n + t, !.size = f]
    BY DEF Grown
  <2> HIDE DEF f, n
  <2>2. [h EXCEPT !.next_index = n + t, !.size = f] = k
    BY DEF ListOK
  <2> QED
    BY <2>1, <2>2
<1>2. k = [nxt |-> h.nxt, size |-> f, freep |-> h.freep, next_index |-> n + t]
  <2> HIDE DEF f
  <2>1. h = [nxt |-> h.nxt, size |-> h.size, freep |-> h.freep, next_index |-> h.next_index]
    BY DEF ListOK
  <2>2. j = [nxt |-> h.nxt, size |-> h.size, freep |-> h.freep, next_index |-> n + t]
    BY <2>1
  <2> HIDE DEF j
  <2> QED
    BY <2>2
<1>3. getmoremem(h, t) = Freed(k, n)
  BY <1>1 DEF Grown, getmoremem
<1>4. DOMAIN f = DOMAIN h.size \cup {n} /\ f[n] = t - HEADER /\ \A p \in DOMAIN h.size \ {n} : f[p] = h.size[p]
  BY DEF Set
<1>5. t - HEADER = s
  OBVIOUS
<1> HIDE DEF k, f
<1>6. k.nxt = h.nxt /\ k.size = f /\ k.freep = h.freep /\ k.next_index = n + t
  BY <1>2
<1>7. ListOK(k)
  BY <1>2, <1>6 DEF ListOK
<1> QED
  BY <1>1, <1>3, <1>4, <1>5, <1>6, <1>7

\* Its sizes are a function again.
LEMMA GrownSizes ==
  ASSUME NEW h, ListOK(h), NEW t
  PROVE  IsSize(Grown(h, t).size)
<1> DEFINE f == Set(h.size, h.next_index, t - HEADER)
<1>1. Grown(h, t).size = f
  <2>1. Grown(h, t) = [h EXCEPT !.next_index = @ + t, !.size = f]
    BY DEF Grown
  <2> HIDE DEF f
  <2> QED
    BY <2>1 DEF ListOK
<1>2. IsSize(f)
  BY DEF Set, IsSize
<1> QED
  BY <1>1, <1>2

\* It is one more tile, behind the others.
LEMMA GrownTiles ==
  ASSUME HeapAssumption, anchor \in Anchors,
         NEW h, ListOK(h), NEW L, TilesOK(h, L), NEW s \in Nat \ {0}, s + HEADER <= avail_mem(h)
  PROVE  /\ TilesOK(Grown(h, s + HEADER), L \cup {h.next_index})
         /\ h.next_index \in Nat /\ h.next_index # anchor
         /\ h.next_index \notin L /\ h.next_index \notin DOMAIN h.nxt
<1> DEFINE n == h.next_index
           k == Grown(h, s + HEADER)
           B == BlocksOf(h, L)
           C == BlocksOf(k, L \cup {n})
           a == ARENA
<1>1. /\ HEADER \in Nat \ {0} /\ HEAP_SIZE \in Nat /\ WRAP \in Nat /\ a \in Nat
      /\ anchor \in Nat
  BY Layout
<1>2. n \in Nat /\ n >= a /\ n + (HEADER + s) <= a + HEAP_SIZE
  <2>1. n \in a..(a + HEAP_SIZE)
    BY DEF TilesOK
  <2>2. s + HEADER <= HEAP_SIZE - (n - a)
    BY DEF avail_mem
  <2> QED
    BY <1>1, <2>1, <2>2
<1>3. n # anchor
  BY <1>2, PlusInArray
<1>4. \A p \in B : /\ p \in Nat /\ p >= a /\ h.size[p] \in Nat \ {0}
                   /\ p + (HEADER + h.size[p]) <= n /\ p \in DOMAIN h.size
  BY DEF TilesOK
<1>5. n \notin B
  BY <1>1, <1>2, <1>4
<1>6. n \notin L /\ n \notin DOMAIN h.nxt
  BY <1>3, <1>5 DEF BlocksOf
<1>7. /\ k.nxt = h.nxt /\ k.next_index = n + (s + HEADER)
      /\ DOMAIN k.size = DOMAIN h.size \cup {n}
      /\ k.size[n] = s /\ \A p \in DOMAIN h.size \ {n} : k.size[p] = h.size[p]
  BY <1>1, <1>2, GrownIs
<1> HIDE DEF k
<1>8. C = B \cup {n}
  BY <1>3, <1>7 DEF BlocksOf
<1>9. anchor \in DOMAIN k.size /\ k.size[anchor] = 0 /\ C \subseteq DOMAIN k.size
  <2>1. anchor \in DOMAIN h.size /\ h.size[anchor] = 0 /\ B \subseteq DOMAIN h.size
    BY DEF TilesOK
  <2> HIDE DEF B, C
  <2> QED
    BY <2>1, <1>3, <1>7, <1>8
<1>10. (L \cup {n}) \cap DOMAIN k.nxt = {} /\ anchor \notin L \cup {n}
  BY <1>3, <1>6, <1>7 DEF TilesOK
<1>11. k.next_index \in a..(a + HEAP_SIZE)
  BY <1>1, <1>2, <1>7
<1>12. \A p \in B : k.size[p] = h.size[p]
  BY <1>4, <1>5, <1>7
<1>13. \A p, q \in B : p < q => p + (HEADER + h.size[p]) <= q
  BY DEF TilesOK
<1>14. \A x \in a..(n - 1) : \E p \in B : p <= x /\ x < p + (HEADER + h.size[p])
  BY DEF TilesOK
<1> HIDE DEF B, C, a, n
<1>15. \A p \in C : /\ p \in Nat /\ p >= a /\ k.size[p] \in Nat \ {0}
                    /\ p + (HEADER + k.size[p]) <= k.next_index
  <2> SUFFICES ASSUME NEW p \in C
               PROVE  /\ p \in Nat /\ p >= a /\ k.size[p] \in Nat \ {0}
                      /\ p + (HEADER + k.size[p]) <= k.next_index
    OBVIOUS
  <2>1. CASE p = n
    BY <2>1, <1>1, <1>2, <1>7
  <2>2. CASE p \in B
    BY <2>2, <1>1, <1>2, <1>4, <1>7, <1>12
  <2> QED
    BY <2>1, <2>2, <1>8
<1>16. \A p, q \in C : p < q => p + (HEADER + k.size[p]) <= q
  <2> SUFFICES ASSUME NEW p \in C, NEW q \in C, p < q PROVE p + (HEADER + k.size[p]) <= q
    OBVIOUS
  <2>1. CASE p \in B /\ q \in B
    BY <2>1, <1>12, <1>13
  <2>2. CASE p \in B /\ q = n
    BY <2>2, <1>4, <1>12
  <2>3. CASE p = n /\ q \in B
    BY <2>3, <1>1, <1>2, <1>4
  <2>4. CASE p = n /\ q = n
    BY <2>4, <1>2
  <2> QED
    BY <2>1, <2>2, <2>3, <2>4, <1>8
<1>17. \A x \in a..(k.next_index - 1) : \E p \in C : p <= x /\ x < p + (HEADER + k.size[p])
  <2> SUFFICES ASSUME NEW x \in a..(k.next_index - 1)
               PROVE  \E p \in C : p <= x /\ x < p + (HEADER + k.size[p])
    OBVIOUS
  <2>0. x \in Int /\ x >= a /\ x < n + (s + HEADER)
    BY <1>1, <1>2, <1>7
  <2>1. CASE x < n
    <3>1. x \in a..(n - 1)
      BY <2>0, <2>1, <1>1, <1>2
    <3>2. PICK p \in B : p <= x /\ x < p + (HEADER + h.size[p])
      BY <3>1, <1>14
    <3> QED
      BY <3>2, <1>8, <1>12
  <2>2. CASE x >= n
    <3>1. n \in C /\ n <= x /\ x < n + (HEADER + k.size[n])
      BY <2>0, <2>2, <1>1, <1>2, <1>7, <1>8
    <3> QED
      BY <3>1
  <2> QED
    BY <2>0, <2>1, <2>2, <1>2
<1>18. TilesOK(k, L \cup {n})
  BY <1>9, <1>10, <1>11, <1>15, <1>16, <1>17 DEF TilesOK, C, a
<1> QED
  BY <1>2, <1>3, <1>6, <1>18 DEF k, n

\* tj_free when all blocks are of one size.
LEMMA RowFree ==
  ASSUME HeapAssumption, anchor \in Anchors,
         NEW h, ListOK(h), NEW L, TilesOK(h, L), NEW b \in L,
         NEW s \in Nat \ {0}, OutOfReach(s, anchor), RowOK(h, L, s)
  PROVE  /\ ListOK(Freed(h, b)) /\ TilesOK(Freed(h, b), L \ {b})
         /\ RowOK(Freed(h, b), L \ {b}, s)
<1> DEFINE r == Freed(h, b)
           B == BlocksOf(h, L)
<1>1. HEADER \in Nat \ {0} /\ anchor \in Nat /\ ARENA \in Nat /\ (HEADER * s) % (s + HEADER) # 0
  BY Layout DEF OutOfReach
<1>2. \A p \in B : p \in Nat /\ p >= ARENA /\ h.size[p] = s /\ (p - ARENA) % (s + HEADER) = 0
  BY DEF TilesOK, RowOK
<1>3. b \in B /\ \A q \in DOMAIN h.nxt \ {anchor} : q \in B
  BY DEF BlocksOf
<1> HIDE DEF B
<1>4. \A q \in DOMAIN h.nxt \ {anchor} : b + HEADER * h.size[b] # q /\ q + HEADER * h.size[q] # b
  <2> SUFFICES ASSUME NEW q \in DOMAIN h.nxt \ {anchor}
               PROVE  b + HEADER * h.size[b] # q /\ q + HEADER * h.size[q] # b
    OBVIOUS
  <2>1. /\ b \in Nat /\ h.size[b] = s /\ (b - ARENA) % (s + HEADER) = 0
        /\ q \in Nat /\ h.size[q] = s /\ (q - ARENA) % (s + HEADER) = 0
    BY <1>2, <1>3
  <2>2. b + HEADER * s # q
    BY <2>1, <1>1, RowApart
  <2>3. q + HEADER * s # b
    BY <2>1, <1>1, RowApart
  <2> QED
    BY <2>1, <2>2, <2>3
<1>7. b + HEADER * h.size[b] # anchor
  <2> DEFINE m == HEADER * s
             a == ARENA
  <2>1. b \in Nat /\ b >= a /\ h.size[b] = s /\ (b - a) % (s + HEADER) = 0 /\ m \in Nat
    BY <1>1, <1>2, <1>3
  <2>2. anchor >= a + m => (anchor - (a + m)) % (s + HEADER) # 0
    BY DEF OutOfReach
  <2>3. a \in Nat /\ anchor \in Nat
    BY <1>1
  <2> HIDE DEF m, a
  <2>4. b + m # anchor
    <3> SUFFICES ASSUME b + m = anchor PROVE FALSE
      OBVIOUS
    <3>1. anchor >= a + m /\ anchor - (a + m) = b - a
      BY <2>1, <2>3
    <3> QED
      BY <2>1, <2>2, <3>1
  <2> QED
    BY <2>1, <2>4 DEF m
<1>5. /\ ListOK(r) /\ TilesOK(r, L \ {b}) /\ BlocksOf(r, L \ {b}) = BlocksOf(h, L)
      /\ r.size = h.size /\ r.next_index = h.next_index
  <2>1. KeepsApart(h, b)
    BY <1>4, <1>7 DEF KeepsApart
  <2> QED
    BY <2>1, FreeKeeps
<1> HIDE DEF r
<1>6. RowOK(r, L \ {b}, s)
  BY <1>5 DEF RowOK
<1> QED
  BY <1>5, <1>6 DEF r

\* So is the block that getmoremem adds.
LEMMA RowGrows ==
  ASSUME HeapAssumption, anchor \in Anchors,
         NEW h, ListOK(h), NEW L, TilesOK(h, L), NEW s \in Nat \ {0}, s + HEADER <= avail_mem(h),
         RowOK(h, L, s)
  PROVE  RowOK(Grown(h, s + HEADER), L \cup {h.next_index}, s)
<1> DEFINE n == h.next_index
           t == s + HEADER
           k == Grown(h, t)
           B == BlocksOf(h, L)
           a == ARENA
<1>1. HEADER \in Nat \ {0} /\ a \in Nat
  BY Layout
<1>2. n \in Nat /\ n \notin L /\ n \notin DOMAIN h.nxt /\ n # anchor
  BY GrownTiles
<1>3. /\ k.nxt = h.nxt /\ k.next_index = n + t
      /\ k.size[n] = s /\ \A p \in DOMAIN h.size \ {n} : k.size[p] = h.size[p]
  BY <1>1, <1>2, GrownIs
<1>4. \A p \in B : p \in DOMAIN h.size /\ h.size[p] = s /\ (p - a) % t = 0
  BY DEF TilesOK, RowOK
<1>5. (n - a) % t = 0
  BY DEF RowOK
<1>6. BlocksOf(k, L \cup {n}) = B \cup {n} /\ n \notin B
  BY <1>2, <1>3 DEF BlocksOf
<1>0. t \in Nat \ {0}
  BY <1>1
<1> HIDE DEF k, B, a, n, t
<1>7. ((n + t) - a) % t = 0
  <2> DEFINE x == n - a
             i == x \div t
  <2>1. x \in Int /\ x % t = 0
    BY <1>1, <1>2, <1>5 DEF n
  <2> HIDE DEF x
  <2>2. i \in Int /\ x = t * i + (x % t)
    BY <2>1, <1>0, Quotient
  <2> HIDE DEF i
  <2>3. (n + t) - a = x + t
    BY <1>1, <1>2, <1>0 DEF x, n
  <2>4. x + t = t * (i + 1) + 0
    <3>1. t * (i + 1) = t * i + t
      BY <2>2, <1>0
    <3> QED
      BY <3>1, <2>1, <2>2, <1>0
  <2>5. i + 1 \in Int /\ 0 \in 0..(t - 1) /\ x + t \in Int
    BY <2>1, <2>2, <1>0
  <2>6. (x + t) % t = 0
    BY <2>4, <2>5, <1>0, RemainderIs
  <2> QED
    BY <2>3, <2>6
<1>8. \A p \in B \cup {n} : k.size[p] = s /\ (p - a) % t = 0
  BY <1>3, <1>4, <1>5, <1>6 DEF n
<1>9. (k.next_index - a) % t = 0
  BY <1>3, <1>7 DEF n
<1>10. RowOK(k, L \cup {n}, s)
  BY <1>6, <1>8, <1>9 DEF RowOK, t, a
<1> QED
  BY <1>10 DEF k, n, t

\* getmoremem: the new block is on the list, which otherwise is as it was.
LEMMA MoreKeeps ==
  ASSUME HeapAssumption, anchor \in Anchors,
         NEW h, ListOK(h), NEW L, TilesOK(h, L), NEW s \in Nat \ {0}, s + HEADER <= avail_mem(h)
  PROVE  LET r == getmoremem(h, s + HEADER)
             n == h.next_index
         IN  /\ RowOK(h, L, s) /\ OutOfReach(s, anchor) =>
                  ListOK(r) /\ TilesOK(r, L) /\ RowOK(r, L, s)
             /\ DOMAIN h.nxt = {anchor} =>
                  /\ ListOK(r) /\ TilesOK(r, L)
                  /\ DOMAIN r.nxt = {anchor, n} /\ r.freep = anchor /\ n # anchor
                  /\ r.nxt[anchor] = n /\ r.nxt[n] = anchor /\ r.size[n] = s /\ r.size[anchor] = 0
<1> DEFINE n == h.next_index
           k == Grown(h, s + HEADER)
           M == L \cup {n}
           r == Freed(k, n)
<1>1. HEADER \in Nat \ {0}
  BY Layout
<1>2. TilesOK(k, M) /\ n \in Nat /\ n # anchor /\ n \notin L /\ n \notin DOMAIN h.nxt
  BY GrownTiles
<1>3. ListOK(k) /\ k.nxt = h.nxt /\ k.size[n] = s /\ getmoremem(h, s + HEADER) = r
  BY <1>1, <1>2, GrownIs
<1>4. M \ {n} = L /\ n \in M
  BY <1>2
<1>5. RowOK(h, L, s) => RowOK(k, M, s)
  BY RowGrows
<1>8. IsSize(k.size)
  BY GrownSizes
<1> HIDE DEF k, n, M
<1>6. ASSUME RowOK(h, L, s), OutOfReach(s, anchor)
      PROVE  ListOK(r) /\ TilesOK(r, L) /\ RowOK(r, L, s)
  <2>1. ListOK(r) /\ TilesOK(r, M \ {n}) /\ RowOK(r, M \ {n}, s)
    BY <1>2, <1>3, <1>4, <1>5, <1>6, RowFree
  <2> QED
    BY <2>1, <1>4
<1>7. ASSUME DOMAIN h.nxt = {anchor}
      PROVE  /\ ListOK(r) /\ TilesOK(r, L)
             /\ DOMAIN r.nxt = {anchor, n} /\ r.freep = anchor /\ n # anchor
             /\ r.nxt[anchor] = n /\ r.nxt[n] = anchor /\ r.size[n] = s /\ r.size[anchor] = 0
  <2>1. KeepsApart(k, n)
    BY <1>3, <1>7, <1>8 DEF KeepsApart
  <2>2. /\ ListOK(r) /\ TilesOK(r, M \ {n}) /\ DOMAIN r.nxt = DOMAIN k.nxt \cup {n}
        /\ r.size = k.size
        /\ r.nxt = Set(Set(k.nxt, n, k.nxt[r.freep]), r.freep, n)
        /\ r.freep \in DOMAIN k.nxt
    BY <2>1, <1>2, <1>3, <1>4, FreeKeeps, ZenonT(60)
  <2> HIDE DEF r
  <2>3. r.freep = anchor /\ h.nxt[anchor] = anchor
    BY <2>2, <1>3, <1>7 DEF ListOK, Circle
  <2>4. r.nxt[anchor] = n /\ r.nxt[n] = anchor
    BY <2>2, <2>3, <1>2, <1>3, <1>7 DEF Set
  <2>5. k.size[anchor] = 0
    BY <1>2 DEF TilesOK
  <2> QED
    BY <2>2, <2>3, <2>4, <2>5, <1>2, <1>3, <1>4, <1>7
<1> QED
  BY <1>3, <1>6, <1>7 DEF n

\* What a search finds is on the list, and large enough.
LEMMA FitIs ==
  ASSUME NEW h, NEW sz, NEW e \in Fit(h, sz)
  PROVE  e[1] \in DOMAIN h.nxt /\ e[2] = h.nxt[e[1]] /\ h.size[e[2]] >= sz
BY DEF Fit

\* A search that starts at a large enough block's predecessor finds it.
LEMMA FitFinds ==
  ASSUME NEW h, NEW sz, h.freep \in DOMAIN h.nxt, h.size[h.nxt[h.freep]] >= sz
  PROVE  Fit(h, sz) # {}
<1> DEFINE q == h.freep
           small == {x \in DOMAIN h.nxt : h.size[h.nxt[x]] < sz /\ h.nxt[x] # h.freep}
<1>1. {} \in SUBSET small /\ Leads(h, h.freep, {}, q)
  BY DEF Leads
<1>2. \E S \in SUBSET small : Leads(h, h.freep, S, q)
  BY <1>1
<1>3. <<q, h.nxt[q]>> \in Fit(h, sz)
  BY <1>2 DEF Fit
<1> QED
  BY <1>3

\* What is left when the block behind q, of exactly size s, is taken off the list.
Carved(h, L, q, s) ==
  LET r == Carve(h, q, h.nxt[q], s)
  IN  /\ ListOK(r.heap) /\ TilesOK(r.heap, L \cup {r.block})
      /\ r.block = h.nxt[q] /\ DOMAIN r.heap.nxt = DOMAIN h.nxt \ {h.nxt[q]}
      /\ BlocksOf(r.heap, L \cup {r.block}) = BlocksOf(h, L)
      /\ r.heap.size = h.size /\ r.heap.next_index = h.next_index

LEMMA CarveKeeps ==
  ASSUME HeapAssumption, anchor \in Anchors,
         NEW h, ListOK(h), NEW L, TilesOK(h, L), NEW s \in Nat \ {0},
         NEW q \in DOMAIN h.nxt, h.size[h.nxt[q]] = s
  PROVE  Carved(h, L, q, s)
<1> DEFINE p == h.nxt[q]
           r == Carve(h, q, p, s)
<1>1. WRAP \in Nat
  BY Layout
<1>2. p \in DOMAIN h.nxt /\ anchor \in DOMAIN h.nxt /\ \A x \in DOMAIN h.nxt : x \in Nat
  BY <1>1 DEF ListOK, Circle
<1>3. p # anchor
  BY DEF TilesOK
<1>4. p # q
  <2> SUFFICES ASSUME p = q PROVE FALSE
    OBVIOUS
  <2>1. \A x, y \in DOMAIN h.nxt : x < y => h.nxt[x] \in (x + 1)..y /\ h.nxt[y] \notin (x + 1)..y
    BY DEF ListOK, Circle
  <2>2. h.nxt[q] = q /\ q \in Nat /\ anchor \in Nat /\ q # anchor
    BY <1>2, <1>3
  <2>3. CASE q < anchor
    BY <2>1, <2>2, <2>3, <1>2
  <2>4. CASE anchor < q
    BY <2>1, <2>2, <2>4, <1>2
  <2> QED
    BY <2>2, <2>3, <2>4
<1>5. /\ r.block = p /\ ListOK(r.heap)
      /\ DOMAIN r.heap.nxt = DOMAIN h.nxt \ {p}
      /\ r.heap.size = h.size /\ r.heap.next_index = h.next_index
  BY <1>1, <1>3, <1>4, CarveIs
<1> HIDE DEF r, p
<1>6. BlocksOf(r.heap, L \cup {p}) = BlocksOf(h, L)
  BY <1>2, <1>3, <1>5 DEF BlocksOf
<1>7. (L \cup {p}) \cap DOMAIN r.heap.nxt = {} /\ anchor \notin L \cup {p}
  BY <1>3, <1>5 DEF TilesOK
<1>8. TilesOK(r.heap, L \cup {p})
  BY <1>5, <1>6, <1>7, TilesMove
<1> QED
  BY <1>5, <1>6, <1>8 DEF r, p, Carved

\* tj_malloc, once the list has its anchor.
LEMMA TakenKeeps ==
  ASSUME HeapAssumption, anchor \in Anchors, Careful(program, anchor),
         NEW h, ListOK(h), NEW L, TilesOK(h, L), ShapeOK(h, L),
         NEW sz \in program.sizes, Round(sz) \in Nat \ {0}
  PROVE  LET r == Taken(h, Round(sz))
             M == L \cup ({r.block} \ {NULL})
         IN  ListOK(r.heap) /\ TilesOK(r.heap, M) /\ ShapeOK(r.heap, M)
<1> DEFINE s == Round(sz)
           enough == Fit(h, s) # {} \/ avail_mem(h) < s + HEADER
           more == IF enough THEN h ELSE getmoremem(h, s + HEADER)
           found == Fit(more, s)
           e == CHOOSE f \in found : TRUE
           c == Carve(more, e[1], e[2], s)
           r == Taken(h, s)
           M == L \cup ({r.block} \ {NULL})
<1>1. r = IF found = {} THEN [block |-> NULL, heap |-> more] ELSE c
  BY DEF Taken
<1>2. WRAP \in Nat /\ HEADER \in Nat \ {0} /\ HEAP_SIZE \in Nat /\ ARENA \in Nat
  BY Layout
<1>3. h.next_index \in Int
  BY <1>2 DEF TilesOK
<1>4. avail_mem(h) \in Int
  BY <1>2, <1>3 DEF avail_mem
<1>5. s \in Nat \ {0}
  OBVIOUS
<1>6. ~enough => s + HEADER <= avail_mem(h)
  BY <1>2, <1>4, <1>5
<1>7. found # {} => e \in found
  OBVIOUS
<1>8. e \in found => e[1] \in DOMAIN more.nxt /\ e[2] = more.nxt[e[1]] /\ more.size[e[2]] >= s
  BY FitIs
<1> HIDE DEF s, e, found, c, r
<1>9. ASSUME program.frees
      PROVE  ListOK(r.heap) /\ TilesOK(r.heap, M) /\ ShapeOK(r.heap, M)
  <2>1. RowOK(h, L, s) /\ OutOfReach(s, anchor)
    <3>1. PICK y \in program.sizes : RowOK(h, L, Round(y))
      BY <1>9 DEF ShapeOK
    <3>2. Round(y) = s /\ OutOfReach(s, anchor)
      BY <1>9 DEF Careful, s
    <3> QED
      BY <3>1, <3>2
  <2>2. ListOK(more) /\ TilesOK(more, L) /\ RowOK(more, L, s)
    <3>1. CASE enough
      BY <3>1, <2>1
    <3>2. CASE ~enough
      BY <3>2, <2>1, <1>5, <1>6, MoreKeeps
    <3> QED
      BY <3>1, <3>2
  <2> HIDE DEF more
  <2>3. CASE found = {}
    <3>1. r.heap = more /\ M = L
      BY <2>3, <1>1
    <3> HIDE DEF M
    <3> QED
      BY <3>1, <2>2, <1>9 DEF ShapeOK, s
  <2>4. CASE found # {}
    <3>1. e[1] \in DOMAIN more.nxt /\ e[2] = more.nxt[e[1]] /\ more.size[e[2]] >= s
      BY <2>4, <1>7, <1>8
    <3>2. e[2] \in DOMAIN more.nxt /\ e[2] # NULL
      BY <3>1, <2>2, <1>2 DEF ListOK, Circle, NULL
    <3>3. more.size[e[2]] = s
      <4>1. e[2] # anchor
        BY <3>1, <2>2, <1>5 DEF TilesOK
      <4> QED
        BY <4>1, <3>2, <2>2 DEF RowOK, BlocksOf
    <3>4. c = Carve(more, e[1], more.nxt[e[1]], s)
      BY <3>1 DEF c
    <3>5. /\ ListOK(c.heap) /\ TilesOK(c.heap, L \cup {c.block}) /\ c.block = e[2]
          /\ BlocksOf(c.heap, L \cup {c.block}) = BlocksOf(more, L)
          /\ c.heap.size = more.size /\ c.heap.next_index = more.next_index
      <4> DEFINE q == e[1]
                 d == Carve(more, q, more.nxt[q], s)
      <4>1. q \in DOMAIN more.nxt /\ more.size[more.nxt[q]] = s /\ e[2] = more.nxt[q] /\ c = d
        BY <3>1, <3>3, <3>4
      <4> HIDE DEF q
      <4>2. Carved(more, L, q, s)
        BY <4>1, <2>2, <1>5, CarveKeeps
      <4>3. /\ ListOK(d.heap) /\ TilesOK(d.heap, L \cup {d.block})
            /\ d.block = more.nxt[q]
            /\ BlocksOf(d.heap, L \cup {d.block}) = BlocksOf(more, L)
            /\ d.heap.size = more.size /\ d.heap.next_index = more.next_index
        BY <4>2 DEF Carved
      <4> HIDE DEF d
      <4> QED
        BY <4>1, <4>3
    <3>6. r = c /\ M = L \cup {c.block}
      BY <3>2, <3>5, <2>4, <1>1
    <3> HIDE DEF M
    <3>7. RowOK(c.heap, L \cup {c.block}, s)
      BY <3>5, <2>2 DEF RowOK
    <3> QED
      BY <3>5, <3>6, <3>7, <1>9 DEF ShapeOK, s
  <2> QED
    BY <2>3, <2>4
<1>10. ASSUME ~program.frees
       PROVE  ListOK(r.heap) /\ TilesOK(r.heap, M) /\ ShapeOK(r.heap, M)
  <2>1. DOMAIN h.nxt = {anchor} /\ h.nxt[anchor] = anchor /\ h.size[anchor] = 0
    BY <1>10 DEF ShapeOK, ListOK, Circle, TilesOK
  <2>2. Fit(h, s) = {}
    BY <2>1, <1>5, FitIs
  <2>3. CASE enough
    <3>1. more = h
      BY <2>3
    <3>2. found = {}
      BY <3>1, <2>2 DEF found
    <3>3. r.heap = h /\ M = L
      BY <3>1, <3>2, <1>1
    <3> HIDE DEF M
    <3> QED
      BY <3>3
  <2>4. CASE ~enough
    <3> DEFINE n == h.next_index
    <3>1. /\ ListOK(more) /\ TilesOK(more, L)
          /\ DOMAIN more.nxt = {anchor, n} /\ more.freep = anchor /\ n # anchor
          /\ more.nxt[anchor] = n /\ more.nxt[n] = anchor /\ more.size[n] = s /\ more.size[anchor] = 0
      BY <2>1, <2>4, <1>5, <1>6, MoreKeeps
    <3> HIDE DEF more, n
    <3>2. found # {}
      BY <3>1, <1>5, FitFinds DEF found
    <3>3. e[1] \in DOMAIN more.nxt /\ e[2] = more.nxt[e[1]] /\ more.size[e[2]] >= s
      BY <3>2, <1>7, <1>8
    <3>4. e[1] = anchor /\ e[2] = n
      BY <3>1, <3>3, <1>5
    <3>5. c = Carve(more, anchor, more.nxt[anchor], s)
      BY <3>1, <3>4 DEF c
    <3>6. /\ ListOK(c.heap) /\ TilesOK(c.heap, L \cup {c.block}) /\ c.block = n
          /\ DOMAIN c.heap.nxt = DOMAIN more.nxt \ {n}
      <4> DEFINE d == Carve(more, anchor, more.nxt[anchor], s)
      <4>1. anchor \in DOMAIN more.nxt /\ more.size[more.nxt[anchor]] = s /\ more.nxt[anchor] = n
        BY <3>1
      <4>2. Carved(more, L, anchor, s)
        BY <4>1, <3>1, <1>5, CarveKeeps
      <4>4. /\ ListOK(d.heap) /\ TilesOK(d.heap, L \cup {d.block})
            /\ d.block = more.nxt[anchor]
            /\ DOMAIN d.heap.nxt = DOMAIN more.nxt \ {more.nxt[anchor]}
        BY <4>2 DEF Carved
      <4>3. c = d
        BY <3>5
      <4> HIDE DEF d
      <4> QED
        BY <4>1, <4>3, <4>4
    <3>7. n # NULL
      BY <3>1, <1>2 DEF ListOK, Circle, NULL
    <3>8. r = c /\ M = L \cup {c.block}
      BY <3>2, <3>6, <3>7, <1>1
    <3>9. DOMAIN c.heap.nxt = {anchor}
      BY <3>1, <3>6
    <3> HIDE DEF M
    <3> QED
      BY <3>6, <3>8, <3>9, <1>10 DEF ShapeOK
  <2> QED
    BY <2>3, <2>4
<1> QED
  BY <1>9, <1>10 DEF r, s

\* The list before the first call.
LEMMA StartedKeeps ==
  ASSUME HeapAssumption, HeapInv, program.sizes # {}
  PROVE  LET h == Started(heap)
         IN  ListOK(h) /\ TilesOK(h, live) /\ ShapeOK(h, live)
<1> DEFINE h == Started(heap)
<1>1. CASE freep # NULL
  <2>1. h = heap
    BY <1>1 DEF Started, heap
  <2> QED
    BY <2>1, <1>1 DEF HeapInv
<1>2. CASE freep = NULL
  <2>1. DOMAIN nxt = {} /\ DOMAIN size = {} /\ next_index = ARENA /\ live = {}
        /\ anchor \in Anchors
    BY <1>2 DEF HeapInv
  <2>2. HEADER \in Nat \ {0} /\ HEAP_SIZE \in Nat /\ WRAP \in Nat /\ ARENA \in Nat
        /\ anchor \in 1..(WRAP - 1)
    BY <2>1, Layout
  <2> DEFINE f == Set(nxt, anchor, anchor)
             g == Set(size, anchor, 0)
  <2>3. DOMAIN f = {anchor} /\ f[anchor] = anchor /\ DOMAIN g = {anchor} /\ g[anchor] = 0
        /\ f = [p \in DOMAIN f |-> f[p]]
    BY <2>1 DEF Set
  <2>4. h = [nxt |-> f, size |-> g, freep |-> anchor, next_index |-> next_index]
    <3> DEFINE u == [heap EXCEPT !.freep = anchor]
               v == [u EXCEPT !.nxt = f]
    <3>1. h = [heap EXCEPT !.freep = anchor, !.nxt = f, !.size = g]
      BY <1>2 DEF Started, heap
    <3> HIDE DEF f, g
    <3>2. h = [v EXCEPT !.size = g]
      BY <3>1 DEF heap
    <3>3. u = [nxt |-> nxt, size |-> size, freep |-> anchor, next_index |-> next_index]
      BY DEF heap
    <3> HIDE DEF u
    <3>4. v = [nxt |-> f, size |-> size, freep |-> anchor, next_index |-> next_index]
      BY <3>3
    <3> HIDE DEF v
    <3> QED
      BY <3>2, <3>4
  <2> HIDE DEF f, g, h
  <2>5. h.nxt = f /\ h.size = g /\ h.freep = anchor /\ h.next_index = next_index
    BY <2>4
  <2>6. Circle(f)
    BY <2>2, <2>3 DEF Circle
  <2>7. ListOK(h)
    BY <2>3, <2>4, <2>5, <2>6 DEF ListOK
  <2>8. BlocksOf(h, live) = {}
    BY <2>1, <2>3, <2>5 DEF BlocksOf
  <2>9. TilesOK(h, live)
    BY <2>1, <2>2, <2>3, <2>5, <2>8 DEF TilesOK
  <2>10. ShapeOK(h, live)
    <3>1. CASE ~program.frees
      BY <3>1, <2>3, <2>5 DEF ShapeOK
    <3>2. CASE program.frees
      <4>1. PICK sz \in program.sizes : TRUE
        OBVIOUS
      <4>2. sz \in Nat \ {0}
        BY <4>1 DEF HeapInv, HeapAssumption
      <4>3. Round(sz) \in Nat \ {0}
        BY <4>2, RoundIs
      <4> DEFINE t == Round(sz) + HEADER
      <4>4. t \in Nat \ {0}
        BY <4>3, <2>2
      <4> HIDE DEF t
      <4>5. (h.next_index - ARENA) % t = 0
        BY <4>4, <2>1, <2>2, <2>5
      <4>6. RowOK(h, live, Round(sz))
        BY <4>5, <2>8 DEF RowOK, t
      <4> QED
        BY <4>6, <3>2 DEF ShapeOK
    <3> QED
      BY <3>1, <3>2
  <2> QED
    BY <2>7, <2>9, <2>10 DEF h
<1> QED
  BY <1>1, <1>2

-----------------------------------------------------------------------------
(* The allocator: every step. *)

\* A heap with an anchored list is a heap the invariant speaks of.
LEMMA InvInstalls ==
  ASSUME HeapAssumption, program' = program, anchor' = anchor,
         program \in Programs, anchor \in Anchors,
         NEW h, ListOK(h), TilesOK(h, live'), ShapeOK(h, live'), Install(h)
  PROVE  HeapInv'
<1>1. h = [nxt |-> nxt', size |-> size', freep |-> freep', next_index |-> next_index']
  BY DEF Install, ListOK
<1>2. heap' = h
  BY <1>1 DEF heap
<1>3. freep' # NULL
  <2>1. WRAP \in Nat
    BY Layout
  <2>2. freep' = h.freep
    BY DEF Install
  <2> QED
    BY <2>1, <2>2 DEF ListOK, Circle, NULL
<1>4. ListOK(h)' /\ TilesOK(heap, live)' /\ ShapeOK(heap, live)' /\ ListOK(heap)'
  BY <1>2 DEF ListOK, TilesOK, ShapeOK, RowOK, BlocksOf
<1> QED
  BY <1>3, <1>4 DEF HeapInv

LEMMA HeapSteps ==
  ASSUME HeapAssumption, \A p \in Programs, x \in Anchors : Careful(p, x), HeapInv, [HeapNext]_heap_vars
  PROVE  HeapInv'
<1>1. program \in Programs /\ anchor \in Anchors /\ Careful(program, anchor)
  BY DEF HeapInv
<1>2. CASE tj_malloc
  <2>1. PICK sz \in program.sizes :
          LET r == Taken(Started(heap), Round(sz))
          IN  Install(r.heap) /\ live' = live \cup ({r.block} \ {NULL})
    BY <1>2 DEF tj_malloc
  <2>2. Round(sz) \in Nat \ {0}
    <3>1. sz \in Nat \ {0}
      BY <1>1 DEF HeapAssumption
    <3> QED
      BY <3>1, RoundIs
  <2> DEFINE h == Started(heap)
             r == Taken(h, Round(sz))
  <2>3. ListOK(h) /\ TilesOK(h, live) /\ ShapeOK(h, live)
    BY StartedKeeps
  <2>4. Install(r.heap) /\ live' = live \cup ({r.block} \ {NULL})
    BY <2>1
  <2> HIDE DEF h
  <2>5. /\ ListOK(r.heap) /\ TilesOK(r.heap, live \cup ({r.block} \ {NULL}))
        /\ ShapeOK(r.heap, live \cup ({r.block} \ {NULL}))
    BY <2>2, <2>3, <1>1, TakenKeeps
  <2> HIDE DEF r
  <2>6. program' = program /\ anchor' = anchor
    BY <1>2 DEF tj_malloc
  <2> QED
    BY <2>4, <2>5, <2>6, <1>1, InvInstalls
<1>3. CASE tj_free
  <2>1. PICK b \in live : Install(Freed(heap, b)) /\ live' = live \ {b}
    BY <1>3 DEF tj_free
  <2>2. program.frees /\ program' = program /\ anchor' = anchor
    BY <1>3 DEF tj_free
  <2>3. ListOK(heap) /\ TilesOK(heap, live) /\ ShapeOK(heap, live)
    BY <2>1 DEF HeapInv
  <2>4. PICK sz \in program.sizes : RowOK(heap, live, Round(sz))
    BY <2>2, <2>3 DEF ShapeOK
  <2> DEFINE s == Round(sz)
             r == Freed(heap, b)
  <2>5. s \in Nat \ {0} /\ OutOfReach(s, anchor)
    <3>1. sz \in Nat \ {0}
      BY <1>1, <2>4 DEF HeapAssumption
    <3>2. s \in Nat \ {0}
      BY <3>1, RoundIs
    <3> QED
      BY <3>2, <2>2, <2>4, <1>1 DEF Careful
  <2>6. ListOK(r) /\ TilesOK(r, live \ {b}) /\ RowOK(r, live \ {b}, s)
    <3>1. RowOK(heap, live, s)
      BY <2>4
    <3> HIDE DEF s
    <3> QED
      BY <3>1, <2>1, <2>3, <2>5, <1>1, RowFree
  <2> HIDE DEF r
  <2>7. ShapeOK(r, live \ {b})
    BY <2>2, <2>4, <2>6 DEF ShapeOK
  <2> QED
    BY <2>1, <2>2, <2>6, <2>7, <1>1, InvInstalls DEF r
<1>4. CASE UNCHANGED heap_vars
  BY <1>4 DEF heap_vars, HeapInv, heap, ListOK, TilesOK, ShapeOK, RowOK, BlocksOf
<1> QED
  BY <1>2, <1>3, <1>4 DEF HeapNext

LEMMA HeapHolds ==
  ASSUME HeapAssumption, \A p \in Programs, x \in Anchors : Careful(p, x)
  PROVE  HeapSpec => []HeapInv
<1>1. HeapInit => HeapInv
  <2> SUFFICES ASSUME HeapInit PROVE HeapInv
    OBVIOUS
  <2> QED
    BY DEF HeapInit, HeapInv
<1>2. HeapInv /\ [HeapNext]_heap_vars => HeapInv'
  BY HeapSteps
<1> QED
  BY <1>1, <1>2, PTL DEF HeapSpec

\* The tiles and the circle are what the two invariants of the runs say.
LEMMA HeapShows ==
  ASSUME HeapAssumption, HeapInv
  PROVE  HeapTypeOK /\ HeapPartition
<1>1. HEADER \in Nat \ {0} /\ HEAP_SIZE \in Nat /\ WRAP \in Nat /\ ARENA \in Nat
  BY Layout, SMTT(30) DEF HeapInv
<1>2. CASE freep = NULL
  <2>1. DOMAIN nxt = {} /\ DOMAIN size = {} /\ next_index = ARENA /\ live = {}
    BY <1>2 DEF HeapInv
  <2>2. Blocks = {} /\ Free = {}
    BY <2>1 DEF Blocks, Free
  <2>3. HeapTypeOK
    BY <2>1, <2>2, <1>1, <1>2 DEF HeapTypeOK
  <2>4. UNION {Bytes(p) : p \in Blocks} = {} /\ ARENA..(next_index - 1) = {}
    BY <2>1, <2>2, <1>1
  <2>5. HeapPartition
    BY <2>1, <2>2, <2>4 DEF HeapPartition
  <2> QED
    BY <2>3, <2>5
<1>3. CASE freep # NULL
  <2> DEFINE B == Blocks
             a == ARENA
  <2>1. ListOK(heap) /\ TilesOK(heap, live)
    BY <1>3 DEF HeapInv
  <2>2. B = BlocksOf(heap, live) /\ Free = DOMAIN nxt \ {anchor}
    BY DEF BlocksOf, heap, Blocks, Free
  <2>3. /\ freep \in DOMAIN nxt /\ \A p \in DOMAIN nxt : nxt[p] \in DOMAIN nxt
        /\ \A p, q \in DOMAIN nxt : p < q => nxt[p] \in (p + 1)..q /\ nxt[q] \notin (p + 1)..q
    BY <2>1 DEF ListOK, Circle, heap
  <2>4. /\ live \cap DOMAIN nxt = {} /\ B \subseteq DOMAIN size
        /\ next_index \in a..(a + HEAP_SIZE)
        /\ \A p \in B : p \in Nat /\ p >= a /\ size[p] \in Nat \ {0} /\ p + (HEADER + size[p]) <= next_index
        /\ \A p, q \in B : p < q => p + (HEADER + size[p]) <= q
        /\ \A x \in a..(next_index - 1) : \E p \in B : p <= x /\ x < p + (HEADER + size[p])
    BY <2>1, <2>2 DEF TilesOK, heap
  <2>5. HeapTypeOK
    BY <2>3, <2>4 DEF HeapTypeOK
  <2> HIDE DEF B, a
  <2>6. \A p \in B : Bytes(p) = p..(p + (HEADER + size[p]) - 1)
    <3> SUFFICES ASSUME NEW p \in B PROVE Bytes(p) = p..(p + (HEADER + size[p]) - 1)
      OBVIOUS
    <3>1. p \in Nat /\ size[p] \in Nat
      BY <2>4
    <3> QED
      BY <3>1, <1>1 DEF Bytes
  <2>7. ASSUME NEW p \in B, NEW q \in B, p # q PROVE Bytes(p) \cap Bytes(q) = {}
    <3>1. /\ p \in Nat /\ q \in Nat /\ size[p] \in Nat /\ size[q] \in Nat
          /\ p < q => p + (HEADER + size[p]) <= q
          /\ q < p => q + (HEADER + size[q]) <= p
      BY <2>4
    <3>2. Bytes(p) = p..(p + (HEADER + size[p]) - 1) /\ Bytes(q) = q..(q + (HEADER + size[q]) - 1)
      BY <2>6
    <3> QED
      BY <3>1, <3>2, <2>7, <1>1, SMTT(30)
  <2>8. UNION {Bytes(p) : p \in B} = a..(next_index - 1)
    <3>1. ASSUME NEW p \in B, NEW x \in Bytes(p) PROVE x \in a..(next_index - 1)
      <4>1. p \in Nat /\ p >= a /\ size[p] \in Nat /\ p + (HEADER + size[p]) <= next_index
            /\ x \in p..(p + (HEADER + size[p]) - 1) /\ next_index \in Int
        BY <2>4, <2>6, <3>1, <1>1, SMTT(30) DEF a
      <4> QED
        BY <4>1, <1>1 DEF a
    <3>2. ASSUME NEW x \in a..(next_index - 1) PROVE \E p \in B : x \in Bytes(p)
      <4>1. PICK p \in B : p <= x /\ x < p + (HEADER + size[p])
        BY <2>4
      <4>2. p \in Nat /\ size[p] \in Nat /\ x \in Int
        BY <2>4, <1>1 DEF a
      <4>3. x \in Bytes(p)
        BY <4>1, <4>2, <2>6, <1>1
      <4> QED
        BY <4>3
    <3> QED
      BY <3>1, <3>2
  <2>9. live \cap Free = {}
    BY <2>2, <2>4
  <2>10. HeapPartition
    BY <2>3, <2>7, <2>8, <2>9 DEF HeapPartition, B, a
  <2> QED
    BY <2>5, <2>10
<1> QED
  BY <1>2, <1>3

\* The allocator's headers and pointers are in order, and the array is
\* divided among the blocks, for every program that frees nothing or asks for
\* one size from which no merge leads to another block.
THEOREM HeapTypeCorrect ==
  ASSUME HeapAssumption, \A p \in Programs, x \in Anchors : Careful(p, x)
  PROVE  HeapSpec => []HeapTypeOK
<1>1. HeapSpec => []HeapInv
  BY HeapHolds
<1>2. HeapInv => HeapTypeOK
  BY HeapShows
<1> QED
  BY <1>1, <1>2, PTL

THEOREM BlocksApart ==
  ASSUME HeapAssumption, \A p \in Programs, x \in Anchors : Careful(p, x)
  PROVE  HeapSpec => []HeapPartition
<1>1. HeapSpec => []HeapInv
  BY HeapHolds
<1>2. HeapInv => HeapPartition
  BY HeapShows
<1> QED
  BY <1>1, <1>2, PTL

-----------------------------------------------------------------------------
(* The traversals: balls around vertex 0. *)

\* The pairs of neighbours.
Edges == {e \in V \X V : Adjacent(e[1], e[2])}

\* What is one edge further.
Beyond(S) == {v \in V : \E u \in S : Adjacent(u, v)}

\* The recursive definition of the balls defines them.
LEMMA BallIs ==
  ASSUME TraversalAssumption
  PROVE  /\ DOMAIN Ball = 0..MAX /\ Ball[0] = {0}
         /\ \A n \in 1..MAX : Ball[n] = Ball[n - 1] \cup Beyond(Ball[n - 1])
<1> DEFINE Step(f, n) == IF n = 0 THEN {0} ELSE f[n - 1] \cup {v \in V : \E u \in f[n - 1] : Adjacent(u, v)}
           Upto(f, k) == f = [n \in 0..k |-> Step(f, n)]
           Bad == {k \in Nat : ~\E f : Upto(f, k)}
<1>1. MAX \in Nat \ {0}
  BY DEF TraversalAssumption
<1>2. Bad = {}
  <2> SUFFICES ASSUME Bad # {} PROVE FALSE
    OBVIOUS
  <2>1. PICK k \in Bad : \A j \in Bad : k <= j
    <3>1. Bad \in SUBSET Nat
      OBVIOUS
    <3> HIDE DEF Bad
    <3> QED
      BY <3>1, LeastNat
  <2>2. k \in Nat /\ ~\E f : Upto(f, k)
    BY <2>1
  <2>3. CASE k = 0
    <3> DEFINE g == [n \in 0..0 |-> {0}]
    <3>1. Upto(g, 0)
      OBVIOUS
    <3> QED
      BY <2>2, <2>3, <3>1
  <2>4. CASE k # 0
    <3>1. k - 1 \in Nat /\ ~(k <= k - 1)
      BY <2>2, <2>4
    <3>2. PICK f : Upto(f, k - 1)
      <4> DEFINE j == k - 1
      <4>1. j \in Nat /\ j \notin Bad
        <5> HIDE DEF Bad, j
        <5> QED
          BY <3>1, <2>1 DEF j
      <4> HIDE DEF j, Upto
      <4>2. \E f : Upto(f, j)
        BY <4>1
      <4> QED
        BY <4>2 DEF j
    <3> DEFINE g == [n \in 0..k |-> IF n = k THEN Step(f, k) ELSE f[n]]
    <3>3. \A n \in 0..(k - 1) : f[n] = Step(f, n)
      BY <3>2
    <3>4. \A n \in 0..k : Step(g, n) = Step(f, n)
      <4> SUFFICES ASSUME NEW n \in 0..k PROVE Step(g, n) = Step(f, n)
        OBVIOUS
      <4>1. CASE n = 0
        BY <4>1
      <4>2. CASE n # 0
        <5>1. n - 1 \in 0..k /\ n - 1 # k
          BY <4>2, <2>2
        <5>2. g[n - 1] = f[n - 1]
          BY <5>1
        <5> QED
          BY <5>2
      <4> QED
        BY <4>1, <4>2
    <3>5. \A n \in 0..k : g[n] = Step(f, n)
      <4> HIDE DEF Step
      <4> SUFFICES ASSUME NEW n \in 0..k PROVE g[n] = Step(f, n)
        OBVIOUS
      <4>1. CASE n = k
        BY <4>1
      <4>2. CASE n # k
        BY <4>2, <3>3, <2>2
      <4> QED
        BY <4>1, <4>2
    <3>6. Upto(g, k)
      <4> HIDE DEF Step
      <4>1. \A n \in 0..k : g[n] = Step(g, n)
        BY <3>4, <3>5
      <4>2. g = [n \in 0..k |-> g[n]]
        OBVIOUS
      <4> HIDE DEF g
      <4> QED
        BY <4>1, <4>2
    <3> QED
      BY <2>2, <3>6
  <2> QED
    BY <2>3, <2>4
<1>3. PICK f : Upto(f, MAX)
  BY <1>1, <1>2
<1>4. Upto(Ball, MAX)
  BY <1>3 DEF Ball
<1> HIDE DEF Bad
<1>5. DOMAIN Ball = 0..MAX /\ \A n \in 0..MAX : Ball[n] = Step(Ball, n)
  <2> HIDE DEF Step
  <2>1. Ball = [n \in 0..MAX |-> Step(Ball, n)]
    BY <1>4
  <2> QED
    BY <2>1
<1>6. 0 \in 0..MAX /\ \A n \in 1..MAX : n \in 0..MAX /\ n # 0
  BY <1>1
<1>7. Ball[0] = {0}
  BY <1>5, <1>6
<1>8. ASSUME NEW n \in 1..MAX PROVE Ball[n] = Ball[n - 1] \cup Beyond(Ball[n - 1])
  BY <1>5, <1>6 DEF Beyond
<1> QED
  BY <1>5, <1>7, <1>8

\* A ball holds the smaller ones, and vertices only.
LEMMA BallsNested ==
  ASSUME TraversalAssumption
  PROVE  /\ \A n \in 0..MAX : Ball[n] \subseteq V
         /\ \A m, n \in 0..MAX : m <= n => Ball[m] \subseteq Ball[n]
<1>1. MAX \in Nat \ {0} /\ 0 \in V
  BY DEF TraversalAssumption, V
<1>2. Ball[0] = {0} /\ \A n \in 1..MAX : Ball[n] = Ball[n - 1] \cup Beyond(Ball[n - 1])
  BY BallIs
<1>3. \A S : Beyond(S) \subseteq V
  BY DEF Beyond
<1> DEFINE Good(n) == Ball[n] \subseteq V /\ \A m \in 0..n : Ball[m] \subseteq Ball[n]
           Bad == {n \in 0..MAX : ~Good(n)}
<1>4. Bad = {}
  <2> SUFFICES ASSUME Bad # {} PROVE FALSE
    OBVIOUS
  <2>1. Bad \in SUBSET Nat
    BY <1>1
  <2>2. PICK n \in Bad : \A j \in Bad : n <= j
    <3> HIDE DEF Bad
    <3> QED
      BY <2>1, LeastNat
  <2>3. n \in 0..MAX /\ ~Good(n)
    BY <2>2
  <2>4. n # 0
    BY <1>1, <1>2, <2>3
  <2> DEFINE p == n - 1
  <2>5. p \in 0..MAX /\ p < n /\ n \in 1..MAX /\ n = p + 1
    BY <1>1, <2>3, <2>4
  <2>6. Good(p)
    <3> HIDE DEF Good
    <3>1. ~(n <= p)
      BY <2>5, <2>3
    <3>2. p \notin Bad
      <4> HIDE DEF Bad, p
      <4> QED
        BY <3>1, <2>2
    <3> QED
      BY <3>2, <2>5
  <2>7. Ball[n] = Ball[p] \cup Beyond(Ball[p])
    BY <1>2, <2>5
  <2> HIDE DEF p
  <2>8. Ball[n] \subseteq V
    BY <2>6, <2>7, <1>3
  <2>9. ASSUME NEW m \in 0..n PROVE Ball[m] \subseteq Ball[n]
    <3>1. CASE m = n
      BY <3>1
    <3>2. CASE m # n
      <4>1. m \in 0..p
        BY <3>2, <2>5, <2>3
      <4> QED
        BY <4>1, <2>6, <2>7
    <3> QED
      BY <3>1, <3>2
  <2> QED
    BY <2>3, <2>8, <2>9
<1>5. \A n \in 0..MAX : Good(n)
  <2> HIDE DEF Good
  <2> QED
    BY <1>4
<1>6. ASSUME NEW m \in 0..MAX, NEW n \in 0..MAX, m <= n PROVE Ball[m] \subseteq Ball[n]
  <2>1. m \in 0..n
    BY <1>6, <1>1
  <2> QED
    BY <2>1, <1>5
<1> QED
  BY <1>5, <1>6

\* Balls that grow have more vertices each time, so one of the first MAX does not.
LEMMA BallStops ==
  ASSUME TraversalAssumption
  PROVE  \E m \in 0..(MAX - 1) : Ball[m + 1] = Ball[m]
<1> SUFFICES ASSUME \A m \in 0..(MAX - 1) : Ball[m + 1] # Ball[m] PROVE FALSE
  OBVIOUS
<1>1. MAX \in Nat \ {0}
  BY DEF TraversalAssumption
<1>2. /\ Ball[0] = {0}
      /\ \A n \in 0..MAX : Ball[n] \subseteq V
      /\ \A m, n \in 0..MAX : m <= n => Ball[m] \subseteq Ball[n]
  BY BallIs, BallsNested
<1>3. IsFiniteSet(V) /\ Cardinality(V) = MAX
  <2>1. 0 \in Int /\ MAX - 1 \in Int /\ (MAX - 1) - 0 + 1 = MAX
    BY <1>1
  <2> QED
    BY <2>1, <1>1, FS_Interval DEF V
<1>4. \A n \in 0..MAX : IsFiniteSet(Ball[n]) /\ Cardinality(Ball[n]) \in Nat /\ Cardinality(Ball[n]) <= MAX
  BY <1>2, <1>3, FS_Subset, FS_CardinalityType
<1> DEFINE Bad == {n \in 0..MAX : ~(Cardinality(Ball[n]) >= n + 1)}
<1>5. Bad = {}
  <2> SUFFICES ASSUME Bad # {} PROVE FALSE
    OBVIOUS
  <2>1. Bad \in SUBSET Nat
    BY <1>1
  <2>2. PICK n \in Bad : \A j \in Bad : n <= j
    <3> HIDE DEF Bad
    <3> QED
      BY <2>1, LeastNat
  <2>3. n \in 0..MAX /\ ~(Cardinality(Ball[n]) >= n + 1)
    BY <2>2
  <2>4. n # 0
    <3> SUFFICES ASSUME n = 0 PROVE FALSE
      OBVIOUS
    <3>1. Ball[n] = {0} /\ Cardinality({0}) = 1
      BY <1>2, FS_Singleton
    <3> HIDE DEF Bad
    <3>2. Cardinality(Ball[n]) >= n + 1
      BY <3>1
    <3> QED
      BY <3>2, <2>3
  <2> DEFINE p == n - 1
  <2>5. p \in 0..MAX /\ p \in 0..(MAX - 1) /\ p < n /\ p <= n /\ n = p + 1 /\ p \in Int
    BY <1>1, <2>3, <2>4
  <2>6. Cardinality(Ball[p]) >= p + 1
    <3>1. ~(n <= p)
      BY <2>5, <2>3
    <3>2. p \notin Bad
      <4> HIDE DEF Bad, p
      <4> QED
        BY <3>1, <2>2
    <3> QED
      BY <3>2, <2>5
  <2> HIDE DEF p
  <2>7. Ball[p] \subseteq Ball[n] /\ Ball[n] # Ball[p]
    BY <1>2, <2>3, <2>5
  <2> DEFINE S == Ball[p]
             T == Ball[n]
  <2>8. IsFiniteSet(T) /\ Cardinality(S) \in Nat /\ Cardinality(T) \in Nat
    BY <1>4, <2>3, <2>5
  <2>9. Cardinality(S) < Cardinality(T)
    <3> HIDE DEF S, T
    <3>1. S \in SUBSET T /\ S # T
      BY <2>7 DEF S, T
    <3>2. Cardinality(S) <= Cardinality(T) /\ (Cardinality(S) = Cardinality(T) => S = T)
      BY <3>1, <2>8, FS_Subset
    <3> QED
      BY <3>1, <3>2, <2>8
  <2> QED
    BY <2>3, <2>5, <2>6, <2>8, <2>9
<1>6. Cardinality(Ball[MAX]) >= MAX + 1
  <2>1. MAX \in 0..MAX
    BY <1>1
  <2> QED
    BY <2>1, <1>5
<1> QED
  BY <1>1, <1>4, <1>6

\* The largest ball is all that vertex 0 leads to.
LEMMA BallClosed ==
  ASSUME TraversalAssumption
  PROVE  \A u \in Ball[MAX], v \in V : Adjacent(u, v) => v \in Ball[MAX]
<1>1. MAX \in Nat \ {0}
  BY DEF TraversalAssumption
<1>2. PICK m \in 0..(MAX - 1) : Ball[m + 1] = Ball[m]
  BY BallStops
<1>3. \A n \in 1..MAX : Ball[n] = Ball[n - 1] \cup Beyond(Ball[n - 1])
  BY BallIs
<1> DEFINE j == m + 1
<1>4. j \in 1..MAX /\ j - 1 = m /\ m \in Nat /\ m < MAX
  BY <1>1, <1>2
<1>5. Beyond(Ball[m]) \subseteq Ball[m]
  <2>1. Ball[j] = Ball[m]
    BY <1>2
  <2> HIDE DEF j
  <2>2. Ball[j] = Ball[m] \cup Beyond(Ball[m])
    BY <1>3, <1>4
  <2> QED
    BY <2>1, <2>2
<1> HIDE DEF j
<1> DEFINE Bad == {n \in 0..MAX : n > m /\ Ball[n] # Ball[m]}
<1>6. Bad = {}
  <2> SUFFICES ASSUME Bad # {} PROVE FALSE
    OBVIOUS
  <2>1. Bad \in SUBSET Nat
    BY <1>1
  <2>2. PICK n \in Bad : \A i \in Bad : n <= i
    <3> HIDE DEF Bad
    <3> QED
      BY <2>1, LeastNat
  <2>3. n \in 0..MAX /\ n > m /\ Ball[n] # Ball[m]
    BY <2>2
  <2> DEFINE p == n - 1
  <2>4. p \in 0..MAX /\ p >= m /\ n \in 1..MAX /\ ~(n <= p)
    BY <1>1, <1>4, <2>3
  <2>5. Ball[n] = Ball[p] \cup Beyond(Ball[p])
    BY <1>3, <2>4
  <2>6. p \notin Bad
    <3> HIDE DEF Bad, p
    <3> QED
      BY <2>2, <2>4
  <2> HIDE DEF p
  <2>7. Ball[p] = Ball[m]
    BY <2>4, <2>6, <1>4
  <2> QED
    BY <2>3, <2>5, <2>7, <1>5
<1>7. Ball[MAX] = Ball[m]
  <2>1. MAX \in 0..MAX /\ MAX > m
    BY <1>1, <1>4
  <2> QED
    BY <2>1, <1>6
<1> QED
  BY <1>5, <1>7 DEF Beyond

\* Distances of the vertices that vertex 0 leads to.
LEMMA DistanceIs ==
  ASSUME TraversalAssumption, NEW v \in Ball[MAX]
  PROVE  /\ Distance(v) \in 0..MAX /\ v \in Ball[Distance(v)]
         /\ \A m \in 0..MAX : v \in Ball[m] => Distance(v) <= m
<1>1. MAX \in Nat \ {0}
  BY DEF TraversalAssumption
<1> DEFINE S == {n \in 0..MAX : v \in Ball[n]}
<1>2. S \in SUBSET Nat /\ S # {}
  BY <1>1
<1>3. PICK n \in S : \A m \in S : n <= m
  <2> HIDE DEF S
  <2> QED
    BY <1>2, LeastNat
<1> DEFINE P(k) == v \in Ball[k] /\ \A m \in 0..(k - 1) : v \notin Ball[m]
<1>4. n \in 0..MAX /\ P(n)
  <2>1. n \in 0..MAX /\ v \in Ball[n]
    BY <1>3
  <2>2. ASSUME NEW m \in 0..(n - 1) PROVE v \notin Ball[m]
    <3>1. m \in 0..MAX /\ ~(n <= m)
      BY <2>1, <1>1
    <3> QED
      BY <3>1, <1>3
  <2> QED
    BY <2>1, <2>2
<1> DEFINE d == CHOOSE k \in 0..MAX : P(k)
<1>5. Distance(v) = d
  BY DEF Distance
<1>6. d \in 0..MAX /\ P(d)
  <2> HIDE DEF P
  <2> QED
    BY <1>4
<1> HIDE DEF d
<1>7. ASSUME NEW m \in 0..MAX, v \in Ball[m] PROVE d <= m
  <2>1. ~(m < d)
    <3> SUFFICES ASSUME m < d PROVE FALSE
      OBVIOUS
    <3>1. m \in 0..(d - 1)
      BY <1>1, <1>6
    <3> QED
      BY <3>1, <1>6, <1>7
  <2> QED
    BY <2>1, <1>1, <1>6
<1> QED
  BY <1>5, <1>6, <1>7

\* What the searches use of the graph: all of Reachable can be reached, and Dist grows
\* by at most one along an edge, and by one along some edge to each vertex.
Reachable == Ball[MAX]
Dist == [v \in V |-> Distance(v)]

LayersOK ==
  /\ 0 \in Reachable /\ Reachable \subseteq V
  /\ \A v \in Reachable : Dist[v] \in 0..MAX /\ (Dist[v] = 0 <=> v = 0)
  /\ \A u \in Reachable, v \in V : <<u, v>> \in Edges => v \in Reachable /\ Dist[v] <= Dist[u] + 1
  /\ \A v \in Reachable : v # 0 => \E u \in Reachable : <<u, v>> \in Edges /\ Dist[u] = Dist[v] - 1

LEMMA Layers ==
  ASSUME TraversalAssumption
  PROVE  LayersOK
<1>1. MAX \in Nat \ {0} /\ 0 \in V /\ 0 \in 0..MAX /\ MAX \in 0..MAX
  BY DEF TraversalAssumption, V
<1>2. /\ Ball[0] = {0}
      /\ \A n \in 0..MAX : Ball[n] \subseteq V
      /\ \A m, n \in 0..MAX : m <= n => Ball[m] \subseteq Ball[n]
      /\ \A n \in 1..MAX : Ball[n] = Ball[n - 1] \cup Beyond(Ball[n - 1])
  BY BallIs, BallsNested
<1>3. 0 \in Reachable /\ Reachable \subseteq V /\ \A n \in 0..MAX : Ball[n] \subseteq Reachable
  BY <1>1, <1>2 DEF Reachable
<1>4. \A v \in Reachable : /\ Dist[v] \in 0..MAX /\ v \in Ball[Dist[v]]
                   /\ \A m \in 0..MAX : v \in Ball[m] => Dist[v] <= m
  <2> SUFFICES ASSUME NEW v \in Reachable
               PROVE  /\ Dist[v] \in 0..MAX /\ v \in Ball[Dist[v]]
                      /\ \A m \in 0..MAX : v \in Ball[m] => Dist[v] <= m
    OBVIOUS
  <2>1. Dist[v] = Distance(v)
    BY <1>3 DEF Dist
  <2> QED
    BY <2>1, DistanceIs DEF Reachable
<1>5. \A u \in Reachable, v \in V : <<u, v>> \in Edges => Adjacent(u, v) /\ v \in Reachable
  BY <1>3, BallClosed DEF Edges, Reachable
<1>6. \A v \in Reachable : Dist[v] = 0 <=> v = 0
  <2>1. Dist[0] <= 0 /\ Dist[0] \in 0..MAX
    BY <1>1, <1>2, <1>3, <1>4
  <2>2. Dist[0] = 0
    BY <2>1, <1>1
  <2>3. \A v \in Reachable : Dist[v] = 0 => v = 0
    BY <1>2, <1>4
  <2> QED
    BY <2>2, <2>3
<1>7. ASSUME NEW u \in Reachable, NEW v \in V, <<u, v>> \in Edges PROVE v \in Reachable /\ Dist[v] <= Dist[u] + 1
  <2>1. v \in Reachable /\ Adjacent(u, v)
    BY <1>5, <1>7
  <2>2. Dist[u] \in 0..MAX /\ Dist[v] \in 0..MAX /\ u \in Ball[Dist[u]]
    BY <1>4, <2>1
  <2> DEFINE n == Dist[u] + 1
  <2>3. CASE Dist[u] = MAX
    BY <2>1, <2>2, <2>3, <1>1
  <2>4. CASE Dist[u] # MAX
    <3>1. n \in 1..MAX /\ n \in 0..MAX /\ n - 1 = Dist[u]
      BY <2>2, <2>4, <1>1
    <3> HIDE DEF n
    <3>2. Ball[n] = Ball[Dist[u]] \cup Beyond(Ball[Dist[u]])
      BY <3>1, <1>2
    <3>3. v \in Ball[n]
      BY <3>2, <2>1, <2>2 DEF Beyond
    <3>4. Dist[v] <= n
      BY <3>1, <3>3, <2>1, <1>4
    <3> QED
      BY <3>4, <2>1 DEF n
  <2> QED
    BY <2>3, <2>4
<1>8. ASSUME NEW v \in Reachable, v # 0 PROVE \E u \in Reachable : <<u, v>> \in Edges /\ Dist[u] = Dist[v] - 1
  <2> DEFINE d == Dist[v]
             p == d - 1
  <2>1. d \in 1..MAX /\ d \in 0..MAX /\ v \in Ball[d] /\ p \in 0..MAX /\ ~(d <= p)
    <3>1. d \in 0..MAX /\ d # 0 /\ v \in Ball[d]
      BY <1>4, <1>6, <1>8
    <3> QED
      BY <3>1, <1>1
  <2>2. v \notin Ball[p]
    BY <2>1, <1>4
  <2>3. Ball[d] = Ball[p] \cup Beyond(Ball[p])
    BY <2>1, <1>2
  <2>4. PICK u \in Ball[p] : Adjacent(u, v)
    BY <2>1, <2>2, <2>3 DEF Beyond
  <2>5. u \in Reachable /\ Dist[u] \in 0..MAX /\ Dist[u] <= p
    BY <2>1, <2>4, <1>3, <1>4
  <2>6. <<u, v>> \in Edges
    BY <2>4, <2>5, <1>3 DEF Edges
  <2>7. d <= Dist[u] + 1
    BY <2>5, <2>6, <1>3, <1>7
  <2>8. Dist[u] = d - 1
    BY <2>1, <2>5, <2>7
  <2> QED
    BY <2>5, <2>6, <2>8
<1> QED
  BY <1>3, <1>4, <1>6, <1>7, <1>8 DEF LayersOK

\* They are the same while the graph is.
LEMMA SameGraph ==
  ASSUME UNCHANGED <<adjMatrix, adjLists>>
  PROVE  Edges' = Edges /\ Reachable' = Reachable /\ Dist' = Dist
<1>1. Edges' = Edges
  BY DEF Edges, Adjacent, V
<1>2. Ball' = Ball
  BY DEF Ball, Adjacent, V
<1>3. Dist' = Dist
  BY <1>2 DEF Dist, Distance, V
<1> QED
  BY <1>1, <1>2, <1>3 DEF Reachable

-----------------------------------------------------------------------------
(* The traversals: the invariant. *)

GraphOK ==
  /\ search \in {"bfs", "graph_bfs", "dfs"} /\ pc \in {"build", "outer", "inner", "done"}
  /\ adjMatrix \subseteq V \X V /\ adjLists \in [V -> Seq(V)]
  /\ search = "graph_bfs" => adjMatrix = {}
  /\ search # "graph_bfs" => \A v \in V : adjLists[v] = <<>>

\* The cells up to rear hold vertices that are marked, none twice.
ArrayOK ==
  /\ items \in [V -> V \cup {NONE}]
  /\ rear \in NONE..(MAX - 1)
  /\ visited \subseteq V
  /\ \A i \in 0..rear : items[i] \in visited
  /\ \A i, j \in 0..rear : i # j => items[i] # items[j]

QueueOK ==
  /\ search = "bfs" => front \in 0..(rear + 1)
  /\ search = "graph_bfs" => IF rear = NONE THEN front = NONE ELSE front \in 0..rear

\* The vertices whose neighbours are still to be looked at.
Held == {items[i] : i \in Pending}

\* What is marked can be reached, and a neighbour that is not marked is one of
\* a vertex that is held or of the current one, further on in its list.
MarkOK ==
  /\ 0 \in visited /\ visited \subseteq Reachable
  /\ pc = "inner" => current \in visited
  /\ pc = "inner" /\ search = "graph_bfs" =>
       temp \in Seq(V) /\ \A i \in DOMAIN temp : <<current, temp[i]>> \in Edges
  /\ \A u \in visited, v \in V : <<u, v>> \in Edges =>
       \/ v \in visited \/ u \in Held
       \/ pc = "inner" /\ u = current /\ (search = "graph_bfs" => \E i \in DOMAIN temp : temp[i] = v)

\* The stack is a path; the queue is in order of distance, and its ends, and
\* the current vertex in front of it, are at most one apart.
OrderOK ==
  /\ search = "dfs" => pc # "inner" /\ \A i \in 0..(rear - 1) : <<items[i], items[i + 1]>> \in Edges
  /\ search # "dfs" =>
       /\ \A i, j \in Pending : i <= j => Dist[items[i]] <= Dist[items[j]] /\ Dist[items[j]] <= Dist[items[i]] + 1
       /\ pc = "inner" =>
            \A i \in Pending : Dist[current] <= Dist[items[i]] /\ Dist[items[i]] <= Dist[current] + 1

SearchInv ==
  /\ GraphOK
  /\ pc = "build" => /\ visited = {} /\ rear = NONE /\ items = [i \in V |-> NONE]
                     /\ front = (IF search = "bfs" THEN 0 ELSE NONE)
  /\ pc \in {"outer", "inner"} => ArrayOK /\ QueueOK /\ MarkOK /\ OrderOK
  /\ pc = "done" => rear \in NONE..(MAX - 1) /\ Pending = {}

\* When nothing nearer than d leads to an unmarked vertex, all vertices up to
\* distance d are marked.
LEMMA LayersFull ==
  ASSUME TraversalAssumption, NEW d \in Nat, NEW M, 0 \in M,
         \A u \in M, v \in V : u \in Reachable /\ <<u, v>> \in Edges /\ Dist[u] < d => v \in M
  PROVE  \A v \in Reachable : Dist[v] <= d => v \in M
<1>1. MAX \in Nat \ {0}
  BY DEF TraversalAssumption
<1>2. LayersOK
  BY Layers
<1>3. Reachable \subseteq V /\ \A v \in Reachable : Dist[v] \in 0..MAX
  BY <1>2 DEF LayersOK
<1> DEFINE Bad == {n \in Nat : \E v \in Reachable : Dist[v] = n /\ n <= d /\ v \notin M}
<1>4. Bad = {}
  <2> SUFFICES ASSUME Bad # {} PROVE FALSE
    OBVIOUS
  <2>1. PICK n \in Bad : \A m \in Bad : n <= m
    <3>1. Bad \in SUBSET Nat
      OBVIOUS
    <3> HIDE DEF Bad
    <3> QED
      BY <3>1, LeastNat
  <2>2. PICK v \in Reachable : n \in Nat /\ Dist[v] = n /\ n <= d /\ v \notin M
    BY <2>1
  <2>3. PICK u \in Reachable : <<u, v>> \in Edges /\ Dist[u] = n - 1
    <3>1. v # 0
      BY <2>2
    <3> QED
      BY <3>1, <2>2, <1>2 DEF LayersOK
  <2> DEFINE p == n - 1
  <2>4. p \in Nat /\ ~(n <= p) /\ p <= d /\ Dist[u] < d
    <3>1. Dist[u] \in 0..MAX
      BY <1>3
    <3> QED
      BY <3>1, <2>2, <2>3, <1>1
  <2>5. p \notin Bad
    <3> HIDE DEF Bad, p
    <3> QED
      BY <2>1, <2>4
  <2>6. u \in M
    BY <2>3, <2>4, <2>5
  <2> QED
    BY <2>2, <2>3, <2>4, <2>6, <1>3
<1> QED
  <2> SUFFICES ASSUME NEW v \in Reachable, Dist[v] <= d, v \notin M PROVE FALSE
    OBVIOUS
  <2>1. Dist[v] \in Nat
    BY <1>1, <1>3
  <2>2. Dist[v] \in Bad
    BY <2>1
  <2> QED
    BY <2>2, <1>4

\* While a vertex is not marked there is a free cell.
LEMMA Room ==
  ASSUME TraversalAssumption, ArrayOK, NEW v \in V, v \notin visited
  PROVE  rear + 1 \in V
<1>1. MAX \in Nat \ {0} /\ rear \in NONE..(MAX - 1) /\ NONE = -1
  BY DEF TraversalAssumption, ArrayOK, NONE
<1>2. rear # MAX - 1
  <2> SUFFICES ASSUME rear = MAX - 1 PROVE FALSE
    OBVIOUS
  <2> DEFINE T == {items[i] : i \in V}
  <2>1. IsFiniteSet(V) /\ Cardinality(V) = MAX
    <3>1. 0 \in Int /\ MAX - 1 \in Int /\ (MAX - 1) - 0 + 1 = MAX
      BY <1>1
    <3> QED
      BY <3>1, <1>1, FS_Interval DEF V
  <2>2. V = 0..rear
    BY DEF V
  <2>3. \A i, j \in V : items[i] = items[j] => i = j
    BY <2>2 DEF ArrayOK
  <2>4. Cardinality(T) = MAX
    <3> DEFINE f == items
    <3>1. IsFiniteSet({f[i] : i \in V}) /\ Cardinality({f[i] : i \in V}) = Cardinality(V)
      <4> HIDE DEF f
      <4> QED
        BY <2>1, <2>3, ImageSize DEF f
    <3> QED
      BY <3>1, <2>1
  <2>5. T \in SUBSET V /\ v \notin T
    <3>1. \A i \in V : items[i] \in visited
      BY <2>2 DEF ArrayOK
    <3>2. visited \subseteq V
      BY DEF ArrayOK
    <3> QED
      BY <3>1, <3>2
  <2> HIDE DEF T
  <2>6. T = V
    BY <2>1, <2>4, <2>5, FS_Subset
  <2> QED
    BY <2>5, <2>6
<1> QED
  BY <1>1, <1>2 DEF V

\* A vertex that is marked and put behind the others.
LEMMA InsertKeeps ==
  ASSUME TraversalAssumption, ArrayOK, NEW v \in V, v \notin visited,
         visited' = visited \cup {v}, insert(v)
  PROVE  /\ ArrayOK' /\ rear' = rear + 1 /\ rear' \in V /\ items'[rear'] = v
         /\ \A i \in 0..rear : items'[i] = items[i]
         /\ 0..rear' = (0..rear) \cup {rear'}
<1>1. MAX \in Nat \ {0} /\ rear \in NONE..(MAX - 1) /\ NONE = -1
  BY DEF TraversalAssumption, ArrayOK, NONE
<1>2. rear + 1 \in V
  BY Room
<1>3. rear' = rear + 1 /\ items' = [items EXCEPT ![rear + 1] = v] /\ items \in [V -> V \cup {NONE}]
  BY DEF insert, ArrayOK
<1>4. \A i \in 0..rear : i \in V /\ i # rear + 1
  BY <1>1 DEF V
<1>5. items' \in [V -> V \cup {NONE}] /\ items'[rear'] = v /\ \A i \in 0..rear : items'[i] = items[i]
  BY <1>2, <1>3, <1>4
<1>6. 0..rear' = (0..rear) \cup {rear'} /\ rear' \in NONE..(MAX - 1)
  BY <1>1, <1>2, <1>3 DEF V
<1>7. visited' \subseteq V
  BY DEF ArrayOK
<1>8. \A i \in 0..rear' : items'[i] \in visited'
  BY <1>5, <1>6 DEF ArrayOK
<1>9. \A i, j \in 0..rear' : i # j => items'[i] # items'[j]
  <2>1. \A i \in 0..rear : items'[i] \in visited /\ items'[i] # v
    BY <1>5 DEF ArrayOK
  <2>2. \A i, j \in 0..rear : i # j => items'[i] # items'[j]
    BY <1>5 DEF ArrayOK
  <2> QED
    BY <2>1, <2>2, <1>5, <1>6
<1>10. ArrayOK'
  BY <1>5, <1>6, <1>7, <1>8, <1>9 DEF ArrayOK, V, NONE
<1> QED
  BY <1>2, <1>3, <1>5, <1>6, <1>10

\* The cells in use.
LEMMA PendingIs ==
  ASSUME TraversalAssumption, ArrayOK, QueueOK, GraphOK
  PROVE  /\ Pending = (IF search = "dfs" THEN 0..rear ELSE IF rear = NONE THEN {} ELSE front..rear)
         /\ Pending \subseteq 0..rear
<1>1. MAX \in Nat \ {0} /\ rear \in NONE..(MAX - 1) /\ NONE = -1
  BY DEF TraversalAssumption, ArrayOK, NONE
<1>2. CASE search = "dfs"
  BY <1>1, <1>2 DEF Pending
<1>3. CASE search = "bfs"
  <2>1. front \in 0..(rear + 1)
    BY <1>3 DEF QueueOK
  <2> QED
    BY <2>1, <1>1, <1>3 DEF Pending
<1>4. CASE search = "graph_bfs"
  <2>1. IF rear = NONE THEN front = NONE ELSE front \in 0..rear
    BY <1>4 DEF QueueOK
  <2> QED
    BY <2>1, <1>1, <1>4 DEF Pending
<1> QED
  BY <1>2, <1>3, <1>4 DEF GraphOK

\* Edges are what the search looks at.
LEMMA EdgesAre ==
  ASSUME GraphOK, NEW u \in V, NEW v \in V
  PROVE  /\ search = "graph_bfs" => (<<u, v>> \in Edges <=> \E i \in DOMAIN adjLists[u] : adjLists[u][i] = v)
         /\ search # "graph_bfs" => (<<u, v>> \in Edges <=> <<u, v>> \in adjMatrix)
<1>1. <<u, v>> \in Edges <=> <<u, v>> \in adjMatrix \/ \E i \in DOMAIN adjLists[u] : adjLists[u][i] = v
  BY DEF Edges, Adjacent
<1>2. CASE search = "graph_bfs"
  BY <1>1, <1>2 DEF GraphOK
<1>3. CASE search # "graph_bfs"
  <2>1. adjLists[u] = <<>>
    BY <1>3 DEF GraphOK
  <2> QED
    BY <2>1, <1>1, <1>3
<1> QED
  BY <1>2, <1>3

-----------------------------------------------------------------------------
(* The traversals: every step. *)

\* A vertex leaves the queue.
LEMMA TakeKeeps ==
  ASSUME TraversalAssumption, GraphOK, ArrayOK, QueueOK, MarkOK, OrderOK,
         search # "dfs", pc = "outer", pc' = "inner",
         UNCHANGED <<search, adjMatrix, adjLists, visited, items>>,
         front \in Pending, \A i \in Pending : front <= i,
         current' = items[front], Pending' = Pending \ {front},
         search = "graph_bfs" => temp' = adjLists[current']
  PROVE  MarkOK' /\ OrderOK'
<1>1. Edges' = Edges /\ Reachable' = Reachable /\ Dist' = Dist
  BY SameGraph
<1>2. Pending \subseteq 0..rear /\ \A i \in Pending : items[i] \in visited
  <2>1. Pending \subseteq 0..rear
    BY PendingIs
  <2> QED
    BY <2>1 DEF ArrayOK
<1>3. current' \in visited /\ current' \in V
  BY <1>2 DEF ArrayOK
<1>4. \A u \in visited, v \in V : <<u, v>> \in Edges => v \in visited \/ u \in Held
  BY DEF MarkOK
<1>5. Held' \cup {current'} = Held
  BY DEF Held
<1>6. search = "graph_bfs" =>
        /\ temp' \in Seq(V) /\ \A i \in DOMAIN temp' : <<current', temp'[i]>> \in Edges
        /\ \A v \in V : <<current', v>> \in Edges => \E i \in DOMAIN temp' : temp'[i] = v
  <2> SUFFICES ASSUME search = "graph_bfs"
               PROVE  /\ temp' \in Seq(V) /\ \A i \in DOMAIN temp' : <<current', temp'[i]>> \in Edges
                      /\ \A v \in V : <<current', v>> \in Edges => \E i \in DOMAIN temp' : temp'[i] = v
    OBVIOUS
  <2>1. temp' = adjLists[current'] /\ temp' \in Seq(V)
    BY <1>3 DEF GraphOK
  <2>2. \A i \in DOMAIN temp' : temp'[i] \in V
    BY <2>1
  <2>3. \A v \in V : <<current', v>> \in Edges <=> \E i \in DOMAIN temp' : temp'[i] = v
    BY <2>1, <1>3, EdgesAre
  <2> QED
    BY <2>1, <2>2, <2>3
<1>7. MarkOK'
  <2>1. 0 \in visited /\ visited \subseteq Reachable
    BY DEF MarkOK
  <2>2. ASSUME NEW u \in visited, NEW v \in V, <<u, v>> \in Edges
        PROVE  \/ v \in visited \/ u \in Held'
               \/ u = current' /\ (search = "graph_bfs" => \E i \in DOMAIN temp' : temp'[i] = v)
    <3>1. CASE u = current'
      BY <3>1, <2>2, <1>6
    <3>2. CASE u # current'
      BY <3>2, <2>2, <1>4, <1>5
    <3> QED
      BY <3>1, <3>2
  <2>3. \A u \in visited', v \in V' : <<u, v>> \in Edges' =>
          \/ v \in visited' \/ u \in Held'
          \/ pc' = "inner" /\ u = current' /\ (search' = "graph_bfs" => \E i \in DOMAIN temp' : temp'[i] = v)
    BY <2>2, <1>1 DEF V
  <2> QED
    BY <2>1, <2>3, <1>1, <1>3, <1>6 DEF MarkOK, V
<1>8. OrderOK'
  <2>1. \A i, j \in Pending : i <= j => Dist[items[i]] <= Dist[items[j]] /\ Dist[items[j]] <= Dist[items[i]] + 1
    BY DEF OrderOK
  <2>2. \A i \in Pending' : i \in Pending /\ front <= i
    OBVIOUS
  <2>3. \A i, j \in Pending' : i <= j =>
          Dist'[items'[i]] <= Dist'[items'[j]] /\ Dist'[items'[j]] <= Dist'[items'[i]] + 1
    BY <2>1, <2>2, <1>1
  <2>4. \A i \in Pending' : Dist'[current'] <= Dist'[items'[i]] /\ Dist'[items'[i]] <= Dist'[current'] + 1
    BY <2>1, <2>2, <1>1
  <2> QED
    BY <2>3, <2>4 DEF OrderOK
<1> QED
  BY <1>7, <1>8

\* A neighbour of the current vertex that is not marked is one edge further
\* than the current vertex: all nearer ones are marked.
LEMMA NextLayer ==
  ASSUME TraversalAssumption, ArrayOK, QueueOK, GraphOK, MarkOK, OrderOK, search # "dfs", pc = "inner",
         NEW v \in V, v \notin visited, <<current, v>> \in Edges
  PROVE  v \in Reachable /\ Dist[v] = Dist[current] + 1
<1>1. LayersOK
  BY Layers
<1>2. current \in Reachable /\ 0 \in visited /\ visited \subseteq Reachable
  BY DEF MarkOK
<1>3. v \in Reachable /\ Dist[v] <= Dist[current] + 1
  BY <1>1, <1>2 DEF LayersOK
<1>4. MAX \in Nat /\ \A u \in Reachable : Dist[u] \in 0..MAX
  BY <1>1 DEF LayersOK, TraversalAssumption
<1> DEFINE d == Dist[current]
<1>5. d \in Nat
  BY <1>2, <1>4
<1>6. \A u \in Held : Dist[u] >= d
  <2>1. \A i \in Pending : d <= Dist[items[i]]
    BY DEF OrderOK
  <2>2. \A i \in Pending : items[i] \in Reachable
    BY <1>2, PendingIs DEF ArrayOK
  <2> QED
    BY <2>1, <2>2, <1>4, <1>5 DEF Held
<1>7. ASSUME NEW u \in visited, NEW w \in V, u \in Reachable, <<u, w>> \in Edges, Dist[u] < d
      PROVE  w \in visited
  <2>1. Dist[u] \in Nat /\ ~(Dist[u] >= d)
    BY <1>4, <1>5, <1>7
  <2>2. u \notin Held /\ u # current
    BY <2>1, <1>5, <1>6
  <2> QED
    BY <2>2, <1>7 DEF MarkOK
<1>8. ~(Dist[v] <= d)
  <2> HIDE DEF d
  <2>1. \A w \in Reachable : Dist[w] <= d => w \in visited
    BY <1>2, <1>5, <1>7, LayersFull
  <2> QED
    BY <2>1, <1>3
<1> QED
  BY <1>3, <1>4, <1>5, <1>8

\* What is left of a list without its first element.
LEMMA TailHas ==
  ASSUME NEW S, NEW s \in Seq(S), s # <<>>
  PROVE  /\ Tail(s) \in Seq(S)
         /\ \A i \in DOMAIN Tail(s) : \E j \in DOMAIN s : Tail(s)[i] = s[j]
         /\ \A i \in DOMAIN s : s[i] = Head(s) \/ \E k \in DOMAIN Tail(s) : Tail(s)[k] = s[i]
<1> DEFINE t == Tail(s)
<1>1. Len(s) \in Nat \ {0} /\ DOMAIN s = 1..Len(s) /\ DOMAIN t = 1..(Len(s) - 1) /\ t \in Seq(S)
      /\ Head(s) = s[1] /\ \A i \in 1..(Len(s) - 1) : t[i] = s[i + 1]
  OBVIOUS
<1> HIDE DEF t
<1>2. ASSUME NEW i \in DOMAIN t PROVE \E j \in DOMAIN s : t[i] = s[j]
  <2> DEFINE j == i + 1
  <2>1. j \in DOMAIN s /\ t[i] = s[j]
    BY <1>1
  <2> HIDE DEF j
  <2> QED
    BY <2>1
<1>3. ASSUME NEW i \in DOMAIN s, s[i] # Head(s) PROVE \E k \in DOMAIN t : t[k] = s[i]
  <2> DEFINE k == i - 1
  <2>1. k \in DOMAIN t /\ k + 1 = i /\ k \in 1..(Len(s) - 1)
    BY <1>1, <1>3
  <2>2. t[k] = s[k + 1]
    BY <2>1, <1>1
  <2> HIDE DEF k
  <2> QED
    BY <2>1, <2>2
<1> QED
  BY <1>1, <1>2, <1>3 DEF t

\* A neighbour is marked and joins the queue.
LEMMA JoinKeeps ==
  ASSUME TraversalAssumption, GraphOK, ArrayOK, QueueOK, MarkOK, OrderOK,
         search # "dfs", pc = "inner", pc' = "inner",
         UNCHANGED <<search, adjMatrix, adjLists, current>>,
         NEW v \in V, v \notin visited, <<current, v>> \in Edges,
         visited' = visited \cup {v}, insert(v), Pending' = Pending \cup {rear'},
         search = "graph_bfs" => temp # <<>> /\ v = Head(temp) /\ temp' = Tail(temp)
  PROVE  ArrayOK' /\ MarkOK' /\ OrderOK'
<1>1. Edges' = Edges /\ Reachable' = Reachable /\ Dist' = Dist
  BY SameGraph
<1>2. /\ ArrayOK' /\ rear' = rear + 1 /\ rear' \in V /\ items'[rear'] = v
      /\ \A i \in 0..rear : items'[i] = items[i]
  BY InsertKeeps
<1>3. /\ Pending \subseteq 0..rear /\ rear' \notin 0..rear /\ \A i \in Pending : i < rear' /\ i \in Int
      /\ rear' \in Int
  <2>1. rear \in Int
    BY DEF ArrayOK, TraversalAssumption, NONE
  <2>2. Pending \subseteq 0..rear
    BY PendingIs
  <2> QED
    BY <2>1, <2>2, <1>2
<1>4. \A i \in Pending : items'[i] = items[i]
  BY <1>2, <1>3
<1>5. Held' = Held \cup {v}
  BY <1>2, <1>4 DEF Held
<1>6. v \in Reachable /\ Dist[v] = Dist[current] + 1
  BY NextLayer
<1>7. search = "graph_bfs" =>
        /\ temp' \in Seq(V) /\ \A i \in DOMAIN temp' : <<current, temp'[i]>> \in Edges
        /\ \A w : (\E i \in DOMAIN temp : temp[i] = w) => w = v \/ \E i \in DOMAIN temp' : temp'[i] = w
  <2> SUFFICES ASSUME search = "graph_bfs"
               PROVE  /\ temp' \in Seq(V) /\ \A i \in DOMAIN temp' : <<current, temp'[i]>> \in Edges
                      /\ \A w : (\E i \in DOMAIN temp : temp[i] = w) => w = v \/ \E i \in DOMAIN temp' : temp'[i] = w
    OBVIOUS
  <2>1. temp \in Seq(V) /\ temp # <<>> /\ \A i \in DOMAIN temp : <<current, temp[i]>> \in Edges
    BY DEF MarkOK
  <2>2. /\ temp' \in Seq(V) /\ v = Head(temp)
        /\ \A i \in DOMAIN temp' : \E j \in DOMAIN temp : temp'[i] = temp[j]
        /\ \A i \in DOMAIN temp : temp[i] = Head(temp) \/ \E k \in DOMAIN temp' : temp'[k] = temp[i]
    <3> DEFINE t == Tail(temp)
    <3>1. /\ t \in Seq(V)
          /\ \A i \in DOMAIN t : \E j \in DOMAIN temp : t[i] = temp[j]
          /\ \A i \in DOMAIN temp : temp[i] = Head(temp) \/ \E k \in DOMAIN t : t[k] = temp[i]
      BY <2>1, TailHas
    <3>2. temp' = t /\ v = Head(temp)
      OBVIOUS
    <3> HIDE DEF t
    <3> QED
      BY <3>1, <3>2
  <2> QED
    BY <2>1, <2>2
<1>8. MarkOK'
  <2>1. 0 \in visited' /\ visited' \subseteq Reachable /\ current \in visited'
    BY <1>6 DEF MarkOK
  <2>2. ASSUME NEW u \in visited', NEW w \in V, <<u, w>> \in Edges
        PROVE  \/ w \in visited' \/ u \in Held'
               \/ u = current /\ (search = "graph_bfs" => \E i \in DOMAIN temp' : temp'[i] = w)
    <3>1. CASE u = v
      BY <3>1, <1>5
    <3>2. CASE u \in visited
      <4>1. \/ w \in visited \/ u \in Held
            \/ u = current /\ (search = "graph_bfs" => \E i \in DOMAIN temp : temp[i] = w)
        BY <3>2, <2>2 DEF MarkOK
      <4>2. CASE w \in visited \/ u \in Held
        BY <4>2, <1>5
      <4>3. CASE u = current /\ (search = "graph_bfs" => \E i \in DOMAIN temp : temp[i] = w)
        BY <4>3, <1>7
      <4> QED
        BY <4>1, <4>2, <4>3
    <3> QED
      BY <3>1, <3>2
  <2>3. \A u \in visited', w \in V' : <<u, w>> \in Edges' =>
          \/ w \in visited' \/ u \in Held'
          \/ pc' = "inner" /\ u = current' /\ (search' = "graph_bfs" => \E i \in DOMAIN temp' : temp'[i] = w)
    BY <2>2, <1>1 DEF V
  <2> QED
    BY <2>1, <2>3, <1>1, <1>7 DEF MarkOK, V
<1>9. OrderOK'
  <2>1. \A i, j \in Pending : i <= j => Dist[items[i]] <= Dist[items[j]] /\ Dist[items[j]] <= Dist[items[i]] + 1
    BY DEF OrderOK
  <2>2. \A i \in Pending : Dist[current] <= Dist[items[i]] /\ Dist[items[i]] <= Dist[current] + 1
    BY DEF OrderOK
  <2>3. MAX \in Nat /\ Dist[current] \in 0..MAX /\ \A i \in Pending : Dist[items[i]] \in 0..MAX
    <3>1. LayersOK /\ \A i \in Pending : items[i] \in visited
      BY Layers, PendingIs DEF ArrayOK
    <3> QED
      BY <3>1 DEF MarkOK, LayersOK, TraversalAssumption
  <2>4. ASSUME NEW i \in Pending', NEW j \in Pending', i <= j
        PROVE  Dist[items'[i]] <= Dist[items'[j]] /\ Dist[items'[j]] <= Dist[items'[i]] + 1
    <3>1. CASE i \in Pending /\ j \in Pending
      BY <3>1, <2>1, <2>4, <1>4
    <3>2. CASE i \in Pending /\ j = rear'
      BY <3>2, <2>2, <2>3, <1>2, <1>4, <1>6
    <3>3. CASE i = rear' /\ j = rear'
      BY <3>3, <2>3, <1>2, <1>6
    <3>4. CASE i = rear' /\ j \in Pending
      BY <3>4, <2>4, <1>3
    <3> QED
      BY <3>1, <3>2, <3>3, <3>4
  <2>5. \A i \in Pending' : Dist[current] <= Dist[items'[i]] /\ Dist[items'[i]] <= Dist[current] + 1
    BY <2>2, <2>3, <1>2, <1>4, <1>6
  <2>6. \A i, j \in Pending' : i <= j =>
          Dist'[items'[i]] <= Dist'[items'[j]] /\ Dist'[items'[j]] <= Dist'[items'[i]] + 1
    BY <2>4, <1>1
  <2>7. \A i \in Pending' : Dist'[current'] <= Dist'[items'[i]] /\ Dist'[items'[i]] <= Dist'[current'] + 1
    BY <2>5, <1>1
  <2> QED
    BY <2>6, <2>7 DEF OrderOK
<1> QED
  BY <1>2, <1>8, <1>9

\* The next neighbour of the list is marked already.
LEMMA SkipKeeps ==
  ASSUME TraversalAssumption, GraphOK, ArrayOK, MarkOK, OrderOK,
         search = "graph_bfs", pc = "inner", temp # <<>>, Head(temp) \in visited, temp' = Tail(temp),
         UNCHANGED <<search, pc, adjMatrix, adjLists, visited, items, front, rear, current>>
  PROVE  MarkOK' /\ OrderOK'
<1>1. Edges' = Edges /\ Reachable' = Reachable /\ Dist' = Dist
  BY SameGraph
<1>2. Pending' = Pending /\ Held' = Held
  BY DEF Pending, Held, NONE
<1>3. temp \in Seq(V) /\ \A i \in DOMAIN temp : <<current, temp[i]>> \in Edges
  BY DEF MarkOK
<1>4. /\ temp' \in Seq(V)
      /\ \A i \in DOMAIN temp' : \E j \in DOMAIN temp : temp'[i] = temp[j]
      /\ \A i \in DOMAIN temp : temp[i] = Head(temp) \/ \E k \in DOMAIN temp' : temp'[k] = temp[i]
  BY <1>3, TailHas
<1>5. \A i \in DOMAIN temp' : <<current, temp'[i]>> \in Edges
  BY <1>3, <1>4
<1>6. MarkOK'
  <2>1. ASSUME NEW u \in visited, NEW w \in V, <<u, w>> \in Edges
        PROVE  \/ w \in visited \/ u \in Held
               \/ u = current /\ \E i \in DOMAIN temp' : temp'[i] = w
    BY <2>1, <1>4 DEF MarkOK
  <2>2. \A u \in visited', w \in V' : <<u, w>> \in Edges' =>
          \/ w \in visited' \/ u \in Held'
          \/ pc' = "inner" /\ u = current' /\ (search' = "graph_bfs" => \E i \in DOMAIN temp' : temp'[i] = w)
    BY <2>1, <1>1, <1>2 DEF V
  <2>3. 0 \in visited /\ visited \subseteq Reachable /\ current \in visited
    BY DEF MarkOK
  <2> QED
    BY <2>2, <2>3, <1>1, <1>4, <1>5 DEF MarkOK, V
<1>7. OrderOK'
  BY <1>1, <1>2 DEF OrderOK
<1> QED
  BY <1>6, <1>7

\* The current vertex has no neighbour left to look at.
LEMMA EndKeeps ==
  ASSUME GraphOK, MarkOK, OrderOK, search # "dfs", pc = "inner", pc' = "outer",
         UNCHANGED <<search, adjMatrix, adjLists, visited, items, front, rear>>,
         IF search = "graph_bfs" THEN temp = <<>> ELSE \A w \in V : <<current, w>> \in Edges => w \in visited
  PROVE  MarkOK' /\ OrderOK'
<1>1. Edges' = Edges /\ Reachable' = Reachable /\ Dist' = Dist
  BY SameGraph
<1>2. Pending' = Pending /\ Held' = Held
  BY DEF Pending, Held, NONE
<1>3. ASSUME NEW u \in visited, NEW w \in V, <<u, w>> \in Edges PROVE w \in visited \/ u \in Held
  <2>1. \/ w \in visited \/ u \in Held
        \/ u = current /\ (search = "graph_bfs" => \E i \in DOMAIN temp : temp[i] = w)
    BY <1>3 DEF MarkOK
  <2>2. search = "graph_bfs" => ~\E i \in DOMAIN temp : temp[i] = w
    OBVIOUS
  <2>3. search # "graph_bfs" => (<<current, w>> \in Edges => w \in visited)
    OBVIOUS
  <2> QED
    BY <2>1, <2>2, <2>3, <1>3
<1>4. \A u \in visited', w \in V' : <<u, w>> \in Edges' => w \in visited' \/ u \in Held'
  BY <1>1, <1>2, <1>3 DEF V
<1>5. MarkOK'
  BY <1>1, <1>4 DEF MarkOK
<1>6. OrderOK'
  BY <1>1, <1>2 DEF OrderOK
<1> QED
  BY <1>5, <1>6

\* What getAdjUnvisitedVertex finds.
LEMMA NextVertex ==
  ASSUME TraversalAssumption, GraphOK, search # "graph_bfs", NEW u \in V, NEW v, v = getAdjUnvisitedVertex(u)
  PROVE  IF v = NONE THEN \A w \in V : <<u, w>> \in Edges => w \in visited
                     ELSE v \in V /\ v \notin visited /\ <<u, v>> \in Edges
<1>1. Unvisited(u) \in SUBSET V /\ V \in SUBSET Nat /\ NONE \notin V
  BY DEF Unvisited, V, NONE, TraversalAssumption
<1>2. \A w \in V : w \in Unvisited(u) <=> <<u, w>> \in Edges /\ w \notin visited
  BY EdgesAre DEF Unvisited
<1>3. CASE Unvisited(u) = {}
  BY <1>2, <1>3 DEF getAdjUnvisitedVertex
<1>4. CASE Unvisited(u) # {}
  <2> DEFINE U == Unvisited(u)
  <2>1. v = CHOOSE i \in U : \A j \in U : i <= j
    BY <1>4 DEF getAdjUnvisitedVertex
  <2>2. U \in SUBSET Nat /\ U # {}
    BY <1>1, <1>4
  <2>3. v \in U
    <3> HIDE DEF U
    <3>1. \E i \in U : \A j \in U : i <= j
      BY <2>2, LeastNat
    <3> QED
      BY <2>1, <3>1
  <2> QED
    BY <2>3, <1>1, <1>2
<1> QED
  BY <1>3, <1>4

\* The stack grows.
LEMMA PushKeeps ==
  ASSUME TraversalAssumption, GraphOK, ArrayOK, QueueOK, MarkOK, OrderOK,
         search = "dfs", UNCHANGED <<search, pc, adjMatrix, adjLists>>, rear # NONE,
         NEW v \in V, v \notin visited, <<items[rear], v>> \in Edges,
         visited' = visited \cup {v}, insert(v)
  PROVE  ArrayOK' /\ MarkOK' /\ OrderOK'
<1>1. Edges' = Edges /\ Reachable' = Reachable /\ Dist' = Dist
  BY SameGraph
<1>2. /\ ArrayOK' /\ rear' = rear + 1 /\ rear' \in V /\ items'[rear'] = v
      /\ \A i \in 0..rear : items'[i] = items[i]
      /\ 0..rear' = (0..rear) \cup {rear'}
  BY InsertKeeps
<1>3. rear \in Nat /\ rear \in 0..rear /\ pc # "inner" /\ pc' # "inner"
  BY DEF ArrayOK, NONE, OrderOK, TraversalAssumption
<1>4. Pending = 0..rear /\ Pending' = 0..rear'
  <2>1. rear' # NONE
    BY <1>2, <1>3 DEF NONE
  <2> QED
    BY <2>1, PendingIs DEF Pending, NONE
<1>5. Held' = Held \cup {v}
  <2>1. Pending' = Pending \cup {rear'} /\ \A i \in Pending : items'[i] = items[i]
    BY <1>2, <1>4
  <2> QED
    BY <2>1, <1>2 DEF Held
<1>6. v \in Reachable
  <2>1. items[rear] \in visited
    BY <1>3 DEF ArrayOK
  <2> QED
    BY <2>1, Layers DEF MarkOK, LayersOK
<1>7. MarkOK'
  <2>1. \A u \in visited', w \in V' : <<u, w>> \in Edges' => w \in visited' \/ u \in Held'
    <3>1. \A u \in visited, w \in V : <<u, w>> \in Edges => w \in visited \/ u \in Held
      BY <1>3 DEF MarkOK
    <3> QED
      BY <3>1, <1>1, <1>5 DEF V
  <2> QED
    BY <2>1, <1>1, <1>3, <1>6 DEF MarkOK
<1>8. OrderOK'
  <2>1. ASSUME NEW i \in 0..(rear' - 1) PROVE <<items'[i], items'[i + 1]>> \in Edges
    <3>1. i \in 0..rear
      BY <1>2, <1>3
    <3>2. CASE i = rear
      BY <3>1, <3>2, <1>2
    <3>3. CASE i # rear
      <4>1. i \in 0..(rear - 1) /\ i + 1 \in 0..rear
        BY <3>1, <3>3, <1>3
      <4>2. items'[i] = items[i] /\ items'[i + 1] = items[i + 1]
        BY <3>1, <4>1, <1>2
      <4> QED
        BY <4>1, <4>2 DEF OrderOK
    <3> QED
      BY <3>2, <3>3
  <2> QED
    BY <2>1, <1>1, <1>3 DEF OrderOK
<1> QED
  BY <1>2, <1>7, <1>8

\* The vertex on top of the stack has no neighbour left.
LEMMA PopKeeps ==
  ASSUME TraversalAssumption, GraphOK, ArrayOK, QueueOK, MarkOK, OrderOK,
         search = "dfs", UNCHANGED <<search, pc, adjMatrix, adjLists, visited, items>>, rear # NONE,
         \A w \in V : <<items[rear], w>> \in Edges => w \in visited, rear' = rear - 1
  PROVE  ArrayOK' /\ MarkOK' /\ OrderOK'
<1>1. Edges' = Edges /\ Reachable' = Reachable /\ Dist' = Dist
  BY SameGraph
<1>2. MAX \in Nat \ {0} /\ rear \in 0..(MAX - 1) /\ pc # "inner" /\ pc' # "inner"
  BY DEF ArrayOK, NONE, OrderOK, TraversalAssumption
<1>3. rear' \in NONE..(MAX - 1) /\ 0..rear = (0..rear') \cup {rear} /\ \A i \in 0..(rear' - 1) : i \in 0..(rear - 1)
  BY <1>2 DEF NONE
<1>4. ArrayOK'
  BY <1>3 DEF ArrayOK, V, NONE
<1>5. Pending = 0..rear /\ Pending' = 0..rear'
  <2>1. rear' = NONE => 0..rear' = {}
    BY DEF NONE
  <2> QED
    BY <2>1, PendingIs DEF Pending, NONE
<1>6. Held = Held' \cup {items[rear]}
  <2>1. Pending = Pending' \cup {rear}
    BY <1>3, <1>5
  <2> QED
    BY <2>1 DEF Held
<1>7. MarkOK'
  <2>1. \A u \in visited', w \in V' : <<u, w>> \in Edges' => w \in visited' \/ u \in Held'
    <3>1. \A u \in visited, w \in V : <<u, w>> \in Edges => w \in visited \/ u \in Held
      BY <1>2 DEF MarkOK
    <3> QED
      BY <3>1, <1>1, <1>6 DEF V
  <2> QED
    BY <2>1, <1>1, <1>2 DEF MarkOK
<1>8. OrderOK'
  BY <1>1, <1>2, <1>3 DEF OrderOK
<1> QED
  BY <1>4, <1>7, <1>8

\* Edges are added while nothing is searched.
LEMMA AddEdgeStep ==
  ASSUME TraversalAssumption, SearchInv, addEdge
  PROVE  SearchInv'
<1>1. pc = "build" /\ UNCHANGED <<search, pc, visited, items, front, rear>>
  BY DEF addEdge
<1>2. GraphOK
  BY DEF SearchInv
<1>3. PICK src, dest \in V :
        IF search = "graph_bfs"
        THEN LET one == [adjLists EXCEPT ![src] = <<dest>> \o @]
             IN  adjLists' = [one EXCEPT ![dest] = <<src>> \o @] /\ UNCHANGED adjMatrix
        ELSE adjMatrix' = adjMatrix \cup {<<src, dest>>, <<dest, src>>} /\ UNCHANGED adjLists
  BY DEF addEdge
<1>4. GraphOK'
  <2>1. CASE search = "graph_bfs"
    <3> DEFINE one == [adjLists EXCEPT ![src] = <<dest>> \o @]
    <3>1. adjLists' = [one EXCEPT ![dest] = <<src>> \o @] /\ UNCHANGED adjMatrix
      BY <1>3, <2>1
    <3>2. one \in [V -> Seq(V)]
      <4>1. adjLists \in [V -> Seq(V)] /\ <<dest>> \o adjLists[src] \in Seq(V)
        BY <1>2 DEF GraphOK
      <4> QED
        BY <4>1
    <3> HIDE DEF one
    <3>3. adjLists' \in [V -> Seq(V)]
      <4>1. <<src>> \o one[dest] \in Seq(V)
        BY <3>2
      <4> QED
        BY <4>1, <3>1, <3>2
    <3> QED
      BY <1>1, <1>2, <2>1, <3>1, <3>3 DEF GraphOK, V
  <2>2. CASE search # "graph_bfs"
    <3>1. adjMatrix' = adjMatrix \cup {<<src, dest>>, <<dest, src>>} /\ UNCHANGED adjLists
      BY <1>3, <2>2
    <3> QED
      BY <1>1, <1>2, <2>2, <3>1 DEF GraphOK, V
  <2> QED
    BY <2>1, <2>2
<1> QED
  BY <1>1, <1>4 DEF SearchInv, V, NONE

\* The search starts with vertex 0 alone.
LEMMA StartStep ==
  ASSUME TraversalAssumption, SearchInv, Start
  PROVE  SearchInv'
<1>1. MAX \in Nat \ {0} /\ 0 \in V /\ NONE = -1 /\ \A v \in V : v \in Nat
  BY DEF TraversalAssumption, V, NONE
<1>2. /\ pc = "build" /\ pc' = "outer" /\ visited' = {0} /\ UNCHANGED <<search, adjMatrix, adjLists>>
      /\ GraphOK /\ rear = NONE /\ items = [i \in V |-> NONE]
      /\ front = IF search = "bfs" THEN 0 ELSE NONE
  BY DEF Start, SearchInv, graph
<1>3. insert(0) /\ front' = IF search = "dfs" THEN front ELSE 0
  <2>1. rear # MAX - 1
    BY <1>1, <1>2
  <2> QED
    BY <2>1, <1>1, <1>2 DEF Start, enqueue, GraphOK
<1>4. rear' = 0 /\ 0..rear' = {0} /\ 0..(rear' - 1) = {} /\ items' \in [V -> V \cup {NONE}] /\ items'[0] = 0
  <2>1. rear' = 0 /\ items' = [items EXCEPT ![0] = 0]
    BY <1>1, <1>2, <1>3 DEF insert
  <2> QED
    BY <2>1, <1>1, <1>2
<1>5. Pending' = {0}
  BY <1>1, <1>2, <1>3, <1>4 DEF Pending, NONE, GraphOK
<1>6. Edges' = Edges /\ Reachable' = Reachable /\ Dist' = Dist
  BY <1>2, SameGraph
<1>7. 0 \in Reachable /\ Dist[0] = 0
  BY Layers DEF LayersOK
<1>8. GraphOK'
  BY <1>2 DEF GraphOK, V
<1>9. ArrayOK'
  BY <1>1, <1>2, <1>4 DEF ArrayOK, V, NONE
<1>10. QueueOK'
  BY <1>1, <1>2, <1>3, <1>4 DEF QueueOK, NONE
<1>11. MarkOK'
  <2>1. Held' = {0}
    BY <1>4, <1>5 DEF Held
  <2> QED
    BY <2>1, <1>2, <1>6, <1>7 DEF MarkOK
<1>12. OrderOK'
  BY <1>2, <1>4, <1>5, <1>6, <1>7 DEF OrderOK
<1> QED
  BY <1>2, <1>8, <1>9, <1>10, <1>11, <1>12 DEF SearchInv

\* Nothing is left in the array.
LEMMA FinishStep ==
  ASSUME TraversalAssumption, SearchInv, Finish
  PROVE  SearchInv'
<1>1. /\ pc = "outer" /\ pc' = "done" /\ UNCHANGED <<search, adjMatrix, adjLists, front, rear>>
      /\ IF search = "bfs" THEN front = rear + 1 ELSE rear = NONE
  BY DEF Finish, isQueueEmpty, graph
<1>2. GraphOK /\ rear \in NONE..(MAX - 1)
  BY <1>1 DEF SearchInv, ArrayOK
<1>3. Pending' = {}
  BY <1>1, <1>2 DEF Pending, NONE, TraversalAssumption
<1>4. GraphOK'
  BY <1>1, <1>2 DEF GraphOK, V
<1> QED
  BY <1>1, <1>2, <1>3, <1>4 DEF SearchInv, NONE

\* Both loops of breadthFirstSearch.
LEMMA MatrixStep ==
  ASSUME TraversalAssumption, SearchInv, breadthFirstSearch
  PROVE  SearchInv'
<1>1. /\ search = "bfs" /\ pc \in {"outer", "inner"} /\ pc' \in {"outer", "inner"}
      /\ UNCHANGED <<search, adjMatrix, adjLists, temp>>
  BY DEF breadthFirstSearch, graph
<1>2. GraphOK /\ ArrayOK /\ QueueOK /\ MarkOK /\ OrderOK
  BY <1>1 DEF SearchInv
<1>3. GraphOK'
  BY <1>1, <1>2 DEF GraphOK, V
<1>4. MAX \in Nat \ {0} /\ rear \in NONE..(MAX - 1) /\ NONE = -1 /\ front \in 0..(rear + 1)
  BY <1>1, <1>2 DEF TraversalAssumption, ArrayOK, QueueOK, NONE
<1>5. Pending = IF rear = NONE THEN {} ELSE front..rear
  BY <1>1 DEF Pending
<1>6. CASE pc = "outer"
  <2>1. /\ front # rear + 1 /\ current' = items[front] /\ front' = front + 1 /\ rear' = rear
        /\ pc' = "inner" /\ UNCHANGED <<visited, items>>
    BY <1>6, <1>1 DEF breadthFirstSearch, isQueueEmpty, removeData
  <2>2. Pending = front..rear /\ front \in Pending /\ \A i \in Pending : front <= i
    BY <1>4, <1>5, <2>1
  <2>3. Pending' = Pending \ {front}
    <3>1. Pending' = (front + 1)..rear
      BY <1>1, <1>4, <2>1 DEF Pending, NONE
    <3> QED
      BY <3>1, <1>4, <2>1, <2>2
  <2>4. ArrayOK' /\ QueueOK'
    <3>1. ArrayOK'
      BY <1>2, <2>1 DEF ArrayOK, V, NONE
    <3>2. QueueOK'
      BY <1>1, <1>4, <2>1 DEF QueueOK
    <3> QED
      BY <3>1, <3>2
  <2>5. MarkOK' /\ OrderOK'
    BY <1>1, <1>2, <1>6, <2>1, <2>2, <2>3, TakeKeeps
  <2> QED
    BY <1>3, <2>1, <2>4, <2>5 DEF SearchInv
<1>7. CASE pc = "inner"
  <2> DEFINE v == getAdjUnvisitedVertex(current)
  <2>1. /\ IF v = NONE THEN pc' = "outer" /\ UNCHANGED <<visited, items, rear>>
                       ELSE visited' = visited \cup {v} /\ insert(v) /\ UNCHANGED pc
        /\ UNCHANGED <<front, current>>
    BY <1>7, <1>1 DEF breadthFirstSearch
  <2>2. current \in V
    BY <1>2, <1>7 DEF MarkOK, ArrayOK
  <2>3. IF v = NONE THEN \A w \in V : <<current, w>> \in Edges => w \in visited
                    ELSE v \in V /\ v \notin visited /\ <<current, v>> \in Edges
    BY <1>1, <1>2, <2>2, NextVertex
  <2> HIDE DEF v
  <2>4. CASE v = NONE
    <3>1. pc' = "outer" /\ UNCHANGED <<visited, items, front, rear>>
      BY <2>1, <2>4
    <3>2. ArrayOK' /\ QueueOK'
      BY <1>1, <1>2, <3>1 DEF ArrayOK, QueueOK, V, NONE
    <3>3. MarkOK' /\ OrderOK'
      BY <1>1, <1>2, <1>7, <2>3, <2>4, <3>1, EndKeeps
    <3> QED
      BY <1>3, <3>1, <3>2, <3>3 DEF SearchInv
  <2>5. CASE v # NONE
    <3>1. visited' = visited \cup {v} /\ insert(v) /\ pc' = "inner" /\ UNCHANGED <<front, current>>
      BY <1>7, <2>1, <2>5
    <3>2. v \in V /\ v \notin visited /\ <<current, v>> \in Edges
      BY <2>3, <2>5
    <3>3. rear' = rear + 1
      BY <3>1 DEF insert
    <3>4. Pending' = Pending \cup {rear'}
      <4>1. Pending' = front..(rear + 1)
        BY <1>1, <1>4, <3>1, <3>3 DEF Pending, NONE
      <4> QED
        BY <4>1, <1>4, <1>5, <3>3
    <3>5. QueueOK'
      BY <1>1, <1>4, <3>1, <3>3 DEF QueueOK
    <3>6. ArrayOK' /\ MarkOK' /\ OrderOK'
      BY <1>1, <1>2, <1>7, <3>1, <3>2, <3>4, JoinKeeps
    <3> QED
      BY <1>3, <3>1, <3>5, <3>6 DEF SearchInv
  <2> QED
    BY <2>4, <2>5
<1> QED
  BY <1>1, <1>6, <1>7

\* Both loops of bfs.
LEMMA ListStep ==
  ASSUME TraversalAssumption, SearchInv, bfs
  PROVE  SearchInv'
<1>1. /\ search = "graph_bfs" /\ pc \in {"outer", "inner"} /\ pc' \in {"outer", "inner"}
      /\ UNCHANGED <<search, adjMatrix, adjLists>>
  BY DEF bfs, graph
<1>2. GraphOK /\ ArrayOK /\ QueueOK /\ MarkOK /\ OrderOK
  BY <1>1 DEF SearchInv
<1>3. GraphOK'
  BY <1>1, <1>2 DEF GraphOK, V
<1>4. /\ MAX \in Nat \ {0} /\ rear \in NONE..(MAX - 1) /\ NONE = -1
      /\ IF rear = NONE THEN front = NONE ELSE front \in 0..rear
  BY <1>1, <1>2 DEF TraversalAssumption, ArrayOK, QueueOK, NONE
<1>5. Pending = IF rear = NONE THEN {} ELSE front..rear
  BY <1>1 DEF Pending
<1>6. CASE pc = "outer"
  <2>1. /\ rear # NONE /\ current' = items[front] /\ temp' = adjLists[current']
        /\ IF front + 1 > rear THEN front' = NONE /\ rear' = NONE ELSE front' = front + 1 /\ rear' = rear
        /\ pc' = "inner" /\ UNCHANGED <<visited, items>>
    BY <1>6, <1>1 DEF bfs, dequeue
  <2>2. Pending = front..rear /\ front \in Pending /\ \A i \in Pending : front <= i
    BY <1>4, <1>5, <2>1
  <2>3. Pending' = Pending \ {front}
    <3>1. CASE front + 1 > rear
      <4>1. Pending' = {} /\ Pending = {front}
        BY <3>1, <1>1, <1>4, <2>1, <2>2 DEF Pending, NONE
      <4> QED
        BY <4>1
    <3>2. CASE ~(front + 1 > rear)
      <4>1. Pending' = (front + 1)..rear
        BY <3>2, <1>1, <1>4, <2>1 DEF Pending, NONE
      <4> QED
        BY <4>1, <1>4, <2>1, <2>2
    <3> QED
      BY <3>1, <3>2
  <2>4. ArrayOK' /\ QueueOK'
    <3>1. CASE front + 1 > rear
      <4>1. rear' = NONE /\ 0..rear' = {} /\ rear' \in NONE..(MAX - 1)
        BY <3>1, <1>4, <2>1
      <4>2. ArrayOK'
        BY <4>1, <1>2, <2>1 DEF ArrayOK, V, NONE
      <4>3. QueueOK'
        BY <3>1, <1>1, <2>1 DEF QueueOK, NONE
      <4> QED
        BY <4>2, <4>3
    <3>2. CASE ~(front + 1 > rear)
      <4>1. ArrayOK'
        BY <3>2, <1>2, <2>1 DEF ArrayOK, V, NONE
      <4>2. QueueOK'
        BY <3>2, <1>1, <1>4, <2>1 DEF QueueOK, NONE
      <4> QED
        BY <4>1, <4>2
    <3> QED
      BY <3>1, <3>2
  <2>5. MarkOK' /\ OrderOK'
    BY <1>1, <1>2, <1>6, <2>1, <2>2, <2>3, TakeKeeps
  <2> QED
    BY <1>3, <2>1, <2>4, <2>5 DEF SearchInv
<1>7. CASE pc = "inner"
  <2>1. CASE temp = <<>>
    <3>1. pc' = "outer" /\ UNCHANGED <<visited, items, front, rear>>
      BY <1>7, <1>1, <2>1 DEF bfs
    <3>2. ArrayOK' /\ QueueOK'
      BY <1>1, <1>2, <3>1 DEF ArrayOK, QueueOK, V, NONE
    <3>3. MarkOK' /\ OrderOK'
      BY <1>1, <1>2, <1>7, <2>1, <3>1, EndKeeps
    <3> QED
      BY <1>3, <3>1, <3>2, <3>3 DEF SearchInv
  <2>2. CASE temp # <<>>
    <3> DEFINE v == Head(temp)
    <3>1. /\ visited' = visited \cup {v} /\ temp' = Tail(temp) /\ pc' = "inner" /\ current' = current
          /\ IF v \in visited THEN UNCHANGED <<items, front, rear>> ELSE enqueue(v)
      BY <1>7, <1>1, <2>2 DEF bfs
    <3>2. v \in V /\ <<current, v>> \in Edges
      <4>1. temp \in Seq(V) /\ \A i \in DOMAIN temp : <<current, temp[i]>> \in Edges
        BY <1>1, <1>2, <1>7 DEF MarkOK
      <4>2. 1 \in DOMAIN temp /\ v = temp[1] /\ v \in V
        BY <4>1, <2>2
      <4> QED
        BY <4>1, <4>2
    <3>3. CASE v \in visited
      <4>1. UNCHANGED <<pc, visited, items, front, rear, current>>
        BY <1>7, <3>1, <3>3
      <4>2. ArrayOK' /\ QueueOK'
        BY <1>1, <1>2, <4>1 DEF ArrayOK, QueueOK, V, NONE
      <4>3. MarkOK' /\ OrderOK'
        BY <1>1, <1>2, <1>7, <2>2, <3>1, <3>3, <4>1, SkipKeeps
      <4> QED
        BY <1>3, <3>1, <4>2, <4>3 DEF SearchInv
    <3>4. CASE v \notin visited
      <4>1. rear # MAX - 1
        <5>1. rear + 1 \in V
          BY <1>2, <3>2, <3>4, Room
        <5> QED
          BY <5>1, <1>4 DEF V
      <4>2. insert(v) /\ front' = IF front = NONE THEN 0 ELSE front
        BY <3>1, <3>4, <4>1 DEF enqueue
      <4>3. rear' = rear + 1
        BY <4>2 DEF insert
      <4>4. Pending' = Pending \cup {rear'}
        <5>1. Pending' = front'..rear'
          BY <1>1, <1>4, <4>2, <4>3 DEF Pending, NONE
        <5>2. CASE rear = NONE
          BY <5>1, <5>2, <1>4, <1>5, <4>2, <4>3
        <5>3. CASE rear # NONE
          BY <5>1, <5>3, <1>4, <1>5, <4>2, <4>3
        <5> QED
          BY <5>2, <5>3
      <4>5. QueueOK'
        <5>1. rear' # NONE /\ front' \in 0..rear'
          <6>1. CASE rear = NONE
            BY <6>1, <1>4, <4>2, <4>3
          <6>2. CASE rear # NONE
            <7>1. front \in 0..rear /\ front # NONE /\ rear \in 0..(MAX - 1)
              BY <6>2, <1>4
            <7>2. front' = front
              BY <7>1, <4>2
            <7> QED
              BY <7>1, <7>2, <1>4, <4>3
          <6> QED
            BY <6>1, <6>2
        <5> QED
          BY <5>1, <1>1 DEF QueueOK, NONE
      <4>6. ArrayOK' /\ MarkOK' /\ OrderOK'
        BY <1>1, <1>2, <1>7, <2>2, <3>1, <3>2, <3>4, <4>2, <4>4, JoinKeeps
      <4> QED
        BY <1>3, <3>1, <4>5, <4>6 DEF SearchInv
    <3> QED
      BY <3>3, <3>4
  <2> QED
    BY <2>1, <2>2
<1> QED
  BY <1>1, <1>6, <1>7

\* The loop of depthFirstSearch.
LEMMA DepthStep ==
  ASSUME TraversalAssumption, SearchInv, depthFirstSearch
  PROVE  SearchInv'
<1> DEFINE v == getAdjUnvisitedVertex(items[rear])
<1>1. /\ search = "dfs" /\ pc = "outer" /\ rear # NONE /\ UNCHANGED <<search, pc, adjMatrix, adjLists>>
      /\ IF v = NONE THEN rear' = rear - 1 /\ UNCHANGED <<visited, items>>
                     ELSE visited' = visited \cup {v} /\ insert(v)
  BY DEF depthFirstSearch, graph
<1>2. GraphOK /\ ArrayOK /\ QueueOK /\ MarkOK /\ OrderOK
  BY <1>1 DEF SearchInv
<1>3. GraphOK' /\ QueueOK'
  BY <1>1, <1>2 DEF GraphOK, QueueOK, V
<1>4. items[rear] \in V
  <2>1. rear \in 0..rear
    BY <1>1, <1>2 DEF ArrayOK, NONE, TraversalAssumption
  <2> QED
    BY <2>1, <1>2 DEF ArrayOK
<1>5. IF v = NONE THEN \A w \in V : <<items[rear], w>> \in Edges => w \in visited
                  ELSE v \in V /\ v \notin visited /\ <<items[rear], v>> \in Edges
  BY <1>1, <1>2, <1>4, NextVertex
<1> HIDE DEF v
<1>6. ArrayOK' /\ MarkOK' /\ OrderOK'
  <2>1. CASE v = NONE
    BY <2>1, <1>1, <1>2, <1>5, PopKeeps
  <2>2. CASE v # NONE
    BY <2>2, <1>1, <1>2, <1>5, PushKeeps
  <2> QED
    BY <2>1, <2>2
<1> QED
  BY <1>1, <1>3, <1>6 DEF SearchInv

LEMMA SearchSteps ==
  ASSUME TraversalAssumption, SearchInv, [TraversalNext]_traversal_vars
  PROVE  SearchInv'
<1>1. CASE addEdge
  BY <1>1, AddEdgeStep
<1>2. CASE Start
  BY <1>2, StartStep
<1>3. CASE breadthFirstSearch
  BY <1>3, MatrixStep
<1>4. CASE bfs
  BY <1>4, ListStep
<1>5. CASE depthFirstSearch
  BY <1>5, DepthStep
<1>6. CASE Finish
  BY <1>6, FinishStep
<1>7. CASE UNCHANGED traversal_vars
  <2>1. UNCHANGED <<search, pc, adjMatrix, adjLists, visited, items, front, rear, current, temp>>
    BY <1>7 DEF traversal_vars
  <2>2. Edges' = Edges /\ Reachable' = Reachable /\ Dist' = Dist
    BY <2>1, SameGraph
  <2>3. Pending' = Pending /\ Held' = Held
    BY <2>1 DEF Pending, Held, NONE
  <2>4. GraphOK' = GraphOK /\ ArrayOK' = ArrayOK /\ QueueOK' = QueueOK
    BY <2>1 DEF GraphOK, ArrayOK, QueueOK, V, NONE
  <2>5. MarkOK' = MarkOK
    BY <2>1, <2>2, <2>3 DEF MarkOK, V
  <2>6. OrderOK' = OrderOK
    BY <2>1, <2>2, <2>3 DEF OrderOK
  <2> QED
    BY <2>1, <2>3, <2>4, <2>5, <2>6 DEF SearchInv, V, NONE
<1> QED
  BY <1>1, <1>2, <1>3, <1>4, <1>5, <1>6, <1>7 DEF TraversalNext

LEMMA SearchHolds ==
  ASSUME TraversalAssumption
  PROVE  TraversalSpec => []SearchInv
<1>1. TraversalInit => SearchInv
  <2> SUFFICES ASSUME TraversalInit PROVE SearchInv
    OBVIOUS
  <2>1. GraphOK
    <3>1. <<>> \in Seq(V)
      OBVIOUS
    <3> QED
      BY <3>1 DEF TraversalInit, GraphOK
  <2> QED
    BY <2>1 DEF TraversalInit, SearchInv
<1>2. SearchInv /\ [TraversalNext]_traversal_vars => SearchInv'
  BY SearchSteps
<1> QED
  BY <1>1, <1>2, PTL DEF TraversalSpec

\* When nothing is held and no loop runs, all that can be reached is marked.
LEMMA AllMarked ==
  ASSUME TraversalAssumption, SearchInv, pc = "outer", Pending = {}
  PROVE  visited = Reachable
<1>1. MarkOK /\ LayersOK /\ Held = {}
  BY Layers DEF SearchInv, Held
<1>2. \A u \in visited, v \in V : u \in Reachable /\ <<u, v>> \in Edges /\ Dist[u] < MAX => v \in visited
  BY <1>1 DEF MarkOK
<1>3. 0 \in visited /\ visited \subseteq Reachable /\ MAX \in Nat
  BY <1>1 DEF MarkOK, TraversalAssumption
<1>4. \A v \in Reachable : Dist[v] <= MAX => v \in visited
  BY <1>2, <1>3, LayersFull
<1>5. \A v \in Reachable : Dist[v] <= MAX
  BY <1>1, <1>3 DEF LayersOK
<1> QED
  BY <1>3, <1>4, <1>5

LEMMA SearchShows ==
  ASSUME TraversalAssumption, SearchInv
  PROVE  TraversalsReach
<1>1. MAX \in Nat \ {0} /\ NONE = -1 /\ GraphOK
  BY DEF TraversalAssumption, NONE, SearchInv
<1>2. pc = "outer" /\ Pending = {} => visited = Ball[MAX]
  BY AllMarked DEF Reachable
<1>3. rear \in NONE..(MAX - 1)
  BY <1>1 DEF SearchInv, GraphOK, ArrayOK
<1>4. CASE pc \notin {"outer", "inner"}
  <2>1. Pending = {}
    BY <1>1, <1>4 DEF SearchInv, GraphOK, Pending
  <2> QED
    BY <1>2, <1>3, <1>4, <2>1 DEF TraversalsReach
<1>5. CASE pc \in {"outer", "inner"}
  <2>1. ArrayOK /\ QueueOK /\ MarkOK /\ OrderOK /\ LayersOK
    BY <1>5, Layers DEF SearchInv
  <2>2. Pending \subseteq 0..rear /\ (search = "dfs" => Pending = 0..rear)
    BY <1>1, <2>1, PendingIs
  <2>3. \A i \in Pending : items[i] \in visited /\ items[i] \in V /\ items[i] \in Reachable
    BY <2>1, <2>2 DEF ArrayOK, MarkOK
  <2>4. \A i, j \in Pending : i # j => items[i] # items[j]
    BY <2>1, <2>2 DEF ArrayOK
  <2>5. ASSUME NEW i \in Pending, i + 1 \in Pending
        PROVE  IF search = "dfs" THEN Adjacent(items[i], items[i + 1])
                                 ELSE Distance(items[i + 1]) - Distance(items[i]) \in 0..1
    <3>1. i \in Int /\ rear \in Int
      BY <1>1, <1>3, <2>2
    <3>2. CASE search = "dfs"
      <4>1. i \in 0..(rear - 1)
        BY <2>2, <2>5, <3>1
      <4>2. <<items[i], items[i + 1]>> \in Edges
        BY <3>2, <4>1, <2>1 DEF OrderOK
      <4> QED
        BY <3>2, <4>2 DEF Edges
    <3>3. CASE search # "dfs"
      <4> DEFINE j == i + 1
      <4>1. j \in Pending /\ i <= j
        BY <2>5, <3>1
      <4> HIDE DEF j
      <4>2. Dist[items[i]] <= Dist[items[j]] /\ Dist[items[j]] <= Dist[items[i]] + 1
        BY <3>3, <4>1, <2>1 DEF OrderOK
      <4>3. /\ Dist[items[i]] = Distance(items[i]) /\ Dist[items[j]] = Distance(items[j])
            /\ Dist[items[i]] \in 0..MAX /\ Dist[items[j]] \in 0..MAX
        <5>1. Dist[items[i]] = Distance(items[i]) /\ Dist[items[j]] = Distance(items[j])
          BY <4>1, <2>3 DEF Dist
        <5>2. Dist[items[i]] \in 0..MAX /\ Dist[items[j]] \in 0..MAX
          BY <4>1, <2>1, <2>3 DEF LayersOK
        <5> QED
          BY <5>1, <5>2
      <4>4. Distance(items[j]) - Distance(items[i]) \in 0..1
        <5> DEFINE a == Distance(items[i])
                   b == Distance(items[j])
        <5>1. a \in 0..MAX /\ b \in 0..MAX /\ a <= b /\ b <= a + 1
          BY <4>2, <4>3
        <5> HIDE DEF a, b
        <5>2. b - a \in 0..1
          BY <5>1, <1>1
        <5> QED
          BY <5>2 DEF a, b
      <4> QED
        BY <3>3, <4>4 DEF j
    <3> QED
      BY <3>2, <3>3
  <2>6. ASSUME pc = "outer", NEW u \in visited, NEW v \in V, Adjacent(u, v)
        PROVE  v \in visited \/ \E i \in Pending : items[i] = u
    <3>1. <<u, v>> \in Edges
      BY <2>1, <2>6 DEF Edges, ArrayOK
    <3>2. v \in visited \/ u \in Held
      BY <3>1, <2>1, <2>6 DEF MarkOK
    <3> QED
      BY <3>2 DEF Held
  <2> QED
    BY <1>2, <1>3, <2>4, <2>5, <2>6 DEF TraversalsReach
<1> QED
  BY <1>4, <1>5

\* For every number of vertices, and however many edges are added: each traversal
\* that ends has marked exactly the vertices that vertex 0 leads to, enqueue never
\* drops one, no write is outside the array, the queue is in order of distance
\* and the stack is a path.
THEOREM SearchesReach ==
  ASSUME TraversalAssumption
  PROVE  TraversalSpec => []TraversalsReach
<1>1. SearchInv => TraversalsReach
  BY SearchShows
<1> QED
  BY <1>1, SearchHolds, PTL
=============================================================================
