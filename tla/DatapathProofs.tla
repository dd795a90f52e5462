--------------------------- MODULE DatapathProofs ---------------------------
(***************************************************************************)
(* Theorems about the CPU, for bytes of any width, any number of registers *)
(* and any program.  First the timing inside a period, in any order of an  *)
(* instant; then the datapath, with the races of its units, implements the *)
(* instruction set.                                                        *)
(***************************************************************************)
EXTENDS Datapath, ALUProofs

-----------------------------------------------------------------------------
(* The longest path. *)

\* The moment by which a unit has fired for the last time in its period: decoder and
\* register ports follow the word, which comes at 3 at the latest; negation follows a port,
\* and the units of the ALU follow negation.
latest(u) ==
  CASE u = "PC_NEXT"                       -> 2
    [] u = "decode"                        -> 4
    [] u \in {"OUT1", "OUT2"}              -> 5
    [] u \in {"comp", "TARGET"}            -> 6
    [] u \in {"fwd", "and", "or", "shift"} -> 7
    [] u \in {"add", "mult"}               -> 8

\* Every unit that is at work is due between now and its latest moment, and none is while
\* the edge is carried out.
WakesInv ==
  \A u \in Units : wake[u] # 0 => moment <= wake[u] /\ wake[u] <= latest(u)

TimeInv ==
  /\ moment \in 1 .. 8
  /\ wake \in [Units -> Nat]
  /\ out = [u \in Units |-> out[u]]
  /\ WakesInv
  /\ committing => moment = 1 /\ \A u \in Units : wake[u] = 0

\* A unit has time for what it notices now.
InTime(u) == notices(u) => moment + delay(u) <= latest(u)

LEMMA Delays == \A u \in Units : delay(u) \in {1, 2} /\ latest(u) \in 2 .. 8
BY DEF Units, Assigns, Processes, delay, latest

\* A unit is where it was, or has fired, or begins on an event that it notices.
LEMMA ReactEffect ==
  ASSUME NEW fired, React(fired), NEW u \in Units
  PROVE  wake'[u] \in {0, wake[u]} \/ (notices(u) /\ wake'[u] = moment + delay(u))
BY DEF React

\* If every unit notices events in time only, no wake is late.
LEMMA ReactInTime ==
  ASSUME TimeInv, NEW fired, React(fired), \A u \in Units : InTime(u)
  PROVE  /\ wake' \in [Units -> Nat]
         /\ \A u \in Units : wake'[u] # 0 => moment <= wake'[u] /\ wake'[u] <= latest(u)
<1>1. ASSUME NEW u \in Units
      PROVE  /\ wake'[u] \in {0, wake[u]} \/ (notices(u) /\ wake'[u] = moment + delay(u))
             /\ wake'[u] \in Nat
  <2>1. delay(u) \in Nat /\ moment \in Nat /\ wake[u] \in Nat
    BY Delays DEF TimeInv
  <2> QED BY <2>1, ReactEffect
<1>2. wake' \in [Units -> Nat]
  BY <1>1 DEF React
<1>3. ASSUME NEW u \in Units, wake'[u] # 0
      PROVE  moment <= wake'[u] /\ wake'[u] <= latest(u)
  BY <1>1, <1>3, Delays DEF TimeInv, WakesInv, InTime
<1> QED BY <1>2, <1>3

\* The second operand of the ALU follows the decoder, the port and negation.
LEMMA OperandStands ==
  ASSUME TimeInv, NEW v \in Units \ {"decode", "comp", "OUT2"},
         out' = [out EXCEPT ![v] = value(v)]
  PROVE  operand2' = operand2 /\ signals' = signals /\ out'.OUT2 = out.OUT2
<1>1. out'.decode = out.decode /\ out'.comp = out.comp /\ out'.OUT2 = out.OUT2
  BY DEF TimeInv, Units, Assigns, Processes
<1> QED BY <1>1 DEF operand2, signals

LEMMA FireInTime ==
  ASSUME TimeInv, NEW v \in Units, Fire(v)
  PROVE  \A u \in Units : InTime(u)
<1>1. moment <= latest(v) /\ moment \in 1 .. 8
  BY DEF Fire, due, TimeInv, WakesInv
<1>2. UNCHANGED <<archVars, instruction>> /\ out' = [out EXCEPT ![v] = value(v)]
  BY DEF Fire, fetchVars
<1>3. ASSUME NEW u \in {"decode", "OUT1", "OUT2", "PC_NEXT"}
      PROVE  ~notices(u)
  BY <1>2 DEF notices, sensitivity, value, READREG1, READREG2, archVars
<1>4. notices("comp") => v = "OUT2"
  BY <1>2 DEF notices, sensitivity, TimeInv, Units, Assigns, Processes
<1>5. ASSUME NEW u \in {"fwd", "add", "and", "or", "shift", "mult"}, notices(u)
      PROVE  v \in {"decode", "comp", "OUT1", "OUT2"}
  <2> SUFFICES ASSUME v \notin {"decode", "comp", "OUT1", "OUT2"} PROVE FALSE
    OBVIOUS
  <2>1. operand2' = operand2 /\ signals' = signals
    BY <1>2, OperandStands
  <2>2. out'.OUT1 = out.OUT1
    BY <1>2 DEF TimeInv, Units, Assigns, Processes
  <2> QED BY <1>5, <2>1, <2>2 DEF notices, sensitivity
<1>6. notices("TARGET") => v \in {"decode", "PC_NEXT"}
  <2> SUFFICES ASSUME v \notin {"decode", "PC_NEXT"} PROVE ~notices("TARGET")
    OBVIOUS
  <2>1. out'.decode = out.decode /\ out'.PC_NEXT = out.PC_NEXT
    BY <1>2 DEF TimeInv, Units, Assigns, Processes
  <2> QED BY <2>1 DEF notices, sensitivity, value, signals
<1> SUFFICES ASSUME NEW u \in Units, notices(u) PROVE moment + delay(u) <= latest(u)
  BY DEF InTime
<1>7. CASE u \in {"decode", "OUT1", "OUT2", "PC_NEXT"}
  BY <1>3, <1>7
<1>8. CASE u = "comp"
  BY <1>1, <1>4, <1>8 DEF latest, delay
<1>9. CASE u \in {"fwd", "add", "and", "or", "shift", "mult"}
  <2>1. moment <= 6
    BY <1>1, <1>5, <1>9 DEF latest
  <2> QED BY <1>1, <1>9, <2>1 DEF latest, delay
<1>10. CASE u = "TARGET"
  <2>1. moment <= 4
    BY <1>1, <1>6, <1>10 DEF latest
  <2> QED BY <1>1, <1>10, <2>1 DEF latest, delay
<1> QED BY <1>7, <1>8, <1>9, <1>10 DEF Units, Assigns, Processes

LEMMA CommitInTime ==
  ASSUME TimeInv, Commit
  PROVE  \A u \in Units : InTime(u)
<1>1. moment = 1
  BY DEF Commit
<1> QED BY <1>1 DEF InTime, latest, delay, Units, Assigns, Processes

LEMMA WordInTime ==
  ASSUME TimeInv, NEW w, NEW right, Word(w, right), moment \in {2, 3}
  PROVE  \A u \in Units : InTime(u)
<1>1. ~notices("PC_NEXT")
  BY DEF Word, archVars, notices, sensitivity, value
<1>2. ASSUME NEW u \in Units \ {"PC_NEXT"}
      PROVE  moment + delay(u) <= latest(u)
  BY DEF latest, delay, Units, Assigns, Processes
<1> QED BY <1>1, <1>2 DEF InTime

LEMMA TimeStep == TimeInv /\ [Next]_vars => TimeInv'
<1> SUFFICES ASSUME TimeInv, [Next]_vars PROVE TimeInv'
  OBVIOUS
<1>1. ASSUME NEW v \in Units, Fire(v) PROVE TimeInv'
  <2>1. /\ moment' = moment /\ committing' = committing
        /\ React({v}) /\ out' = [out EXCEPT ![v] = value(v)]
    BY <1>1 DEF Fire, clockVars
  <2>2. ~committing
    BY <1>1 DEF Fire, due, TimeInv
  <2>3. /\ wake' \in [Units -> Nat]
        /\ \A u \in Units : wake'[u] # 0 => moment <= wake'[u] /\ wake'[u] <= latest(u)
    BY <1>1, <2>1, FireInTime, ReactInTime
  <2>4. out' = [u \in Units |-> out'[u]]
    BY <2>1 DEF TimeInv
  <2> QED BY <2>1, <2>2, <2>3, <2>4 DEF TimeInv, WakesInv
<1>2. CASE Commit
  <2>1. moment' = moment /\ ~committing' /\ React({}) /\ out' = out
    BY <1>2 DEF Commit
  <2>2. /\ wake' \in [Units -> Nat]
        /\ \A u \in Units : wake'[u] # 0 => moment <= wake'[u] /\ wake'[u] <= latest(u)
    BY <1>2, <2>1, CommitInTime, ReactInTime
  <2> QED BY <2>1, <2>2 DEF TimeInv, WakesInv
<1>3. ASSUME NEW w, NEW right, Word(w, right), moment \in {2, 3} PROVE TimeInv'
  <2>1. moment' = moment /\ committing' = committing /\ ~committing /\ React({}) /\ out' = out
    BY <1>3 DEF Word, clockVars
  <2>2. /\ wake' \in [Units -> Nat]
        /\ \A u \in Units : wake'[u] # 0 => moment <= wake'[u] /\ wake'[u] <= latest(u)
    BY <1>3, <2>1, WordInTime, ReactInTime
  <2> QED BY <2>1, <2>2 DEF TimeInv, WakesInv
<1>4. CASE Fetch
  BY <1>3, <1>4, DatapathAssumption DEF Fetch
<1>5. ASSUME NEW w \in Shown, Show(w) PROVE TimeInv'
  BY <1>3, <1>5 DEF Show
<1>6. CASE Tick
  <2>1. /\ moment < 8 /\ ~committing /\ moment' = moment + 1
        /\ UNCHANGED <<committing, out, wake>>
        /\ \A u \in Units : wake[u] # moment
    BY <1>6 DEF Tick, unitVars, due
  <2>2. \A u \in Units : latest(u) \in Nat
    BY Delays
  <2> QED BY <2>1, <2>2 DEF TimeInv, WakesInv
<1>7. CASE Edge
  <2>1. /\ moment = 8 /\ moment' = 1 /\ UNCHANGED out
        /\ \A u \in Units : wake[u] # 8
        /\ wake' = [u \in Units |-> IF wake[u] = 0 THEN 0 ELSE wake[u] - 8]
    BY <1>7 DEF Edge, due
  <2>2. \A u \in Units : wake[u] = 0
    BY <2>1, Delays DEF TimeInv, WakesInv
  <2> QED BY <2>1, <2>2 DEF TimeInv, WakesInv
<1>8. CASE UNCHANGED vars
  BY <1>8 DEF vars, clockVars, unitVars, TimeInv, WakesInv
<1> QED BY <1>1, <1>2, <1>4, <1>5, <1>6, <1>7, <1>8 DEF Next

LEMMA TimeInitial == Init => TimeInv
BY DEF Init, TimeInv, WakesInv

\* Whatever the program, no unit is still at work when register file, PC and data cache
\* take their values: the longest path, port, negation and adder, takes #5 and begins with
\* a word that comes at 3 at the latest (control_unit.v:37-39, cpu.v:9-12).
THEOREM Settles == Spec => []SettlesInTime
<1>1. TimeInv => SettlesInTime
  BY DEF TimeInv, SettlesInTime
<1> QED BY <1>1, TimeInitial, TimeStep, PTL DEF Spec

-----------------------------------------------------------------------------
(* What the data cache is given. *)

\* A word that goes to memory forwards its address, and negates nothing.
SignalsInv ==
  signals.READ_MEM \/ signals.WRITE_MEM => signals.ALUOP = "fwd" /\ ~signals.MUX_COMP_SEL

\* The decoder fires at 3 or 4, and the forward unit at 7 only for a negated operand.
MemoryInv ==
  /\ wake["decode"] # 0 => wake["decode"] >= 3
  /\ wake["fwd"] = 7 => moment >= 6 /\ signals.MUX_COMP_SEL
  /\ SignalsInv

LEMMA ControlSignals ==
  ASSUME NEW i
  PROVE  control(i).READ_MEM \/ control(i).WRITE_MEM
           => control(i).ALUOP = "fwd" /\ ~control(i).MUX_COMP_SEL
<1> SUFFICES ASSUME i.op \in {"lwd", "lwi", "swd", "swi"}
             PROVE  control(i).ALUOP = "fwd" /\ ~control(i).MUX_COMP_SEL
  BY DEF control
<1>1. ~control(i).MUX_COMP_SEL
  BY DEF control
<1>2. control(i).ALUOP = "fwd"
  BY DEF control
<1> QED BY <1>1, <1>2

LEMMA MemoryStep == TimeInv /\ MemoryInv /\ [Next]_vars => MemoryInv'
<1> SUFFICES ASSUME TimeInv, MemoryInv, [Next]_vars PROVE MemoryInv'
  OBVIOUS
<1> USE DEF signals
<1>1. moment \in 1 .. 8 /\ {"decode", "fwd"} \subseteq Units /\ delay("fwd") = 1
      /\ delay("decode") = 1
  BY DEF TimeInv, Units, Assigns, Processes, delay
<1>2. ASSUME NEW v \in Units, Fire(v) PROVE MemoryInv'
  <2>1. /\ wake[v] = moment /\ moment <= latest(v) /\ moment' = moment
        /\ UNCHANGED instruction /\ React({v}) /\ out' = [out EXCEPT ![v] = value(v)]
    BY <1>1, <1>2 DEF Fire, due, TimeInv, WakesInv, clockVars, fetchVars
  <2>2. wake'["decode"] \in {0, wake["decode"]}
    BY <1>1, <2>1, ReactEffect DEF notices, sensitivity
  <2>3. CASE v = "decode"
    <3>1. moment \in {3, 4}
      BY <1>1, <2>1, <2>3 DEF MemoryInv, latest
    <3>2. wake'["fwd"] # 7
      BY <1>1, <2>1, <3>1, ReactEffect DEF MemoryInv
    <3>3. out'.decode = control(instruction)
      BY <2>1, <2>3 DEF TimeInv, value, Units, Assigns, Processes
    <3> QED BY <2>2, <3>2, <3>3, ControlSignals DEF MemoryInv, SignalsInv
  <2>4. CASE v # "decode"
    <3>1. out'.decode = out.decode
      BY <2>1, <2>4 DEF TimeInv, Units, Assigns, Processes
    <3>2. ASSUME wake'["fwd"] = 7 PROVE moment >= 6 /\ out.decode.MUX_COMP_SEL
      <4>1. CASE wake["fwd"] = 7
        BY <4>1 DEF MemoryInv
      <4>2. CASE wake["fwd"] # 7
        <5>1. notices("fwd") /\ moment = 6
          BY <1>1, <2>1, <3>2, <4>2, ReactEffect
        <5>2. v \notin {"OUT2", "decode"}
          BY <2>1, <5>1 DEF latest
        <5>3. operand2' # operand2
          BY <5>1 DEF notices, sensitivity
        <5>4. v = "comp"
          BY <2>1, <5>2, <5>3, OperandStands
        <5>5. out'.OUT2 = out.OUT2
          BY <2>1, <5>4 DEF TimeInv, Units, Assigns, Processes
        <5> QED BY <3>1, <5>1, <5>3, <5>5 DEF operand2
      <4> QED BY <4>1, <4>2
    <3> QED BY <2>1, <2>2, <3>1, <3>2 DEF MemoryInv, SignalsInv
  <2> QED BY <2>3, <2>4
<1>3. ASSUME NEW fired, React(fired), UNCHANGED <<out, moment>>, moment \in {1, 2, 3},
             moment = 1 => UNCHANGED instruction
      PROVE  MemoryInv'
  <2>1. wake'["fwd"] # 7
    BY <1>1, <1>3, ReactEffect DEF MemoryInv
  <2>2. wake'["decode"] # 0 => wake'["decode"] >= 3
    BY <1>1, <1>3, ReactEffect DEF MemoryInv, notices, sensitivity
  <2> QED BY <1>3, <2>1, <2>2 DEF MemoryInv, SignalsInv
<1>4. CASE Commit
  <2>1. React({}) /\ UNCHANGED <<out, moment, instruction>> /\ moment = 1
    BY <1>4 DEF Commit
  <2> QED BY <1>3, <2>1
<1>5. ASSUME NEW w, NEW right, Word(w, right), moment \in {2, 3} PROVE MemoryInv'
  <2>1. React({}) /\ UNCHANGED <<out, moment>>
    BY <1>5 DEF Word, clockVars
  <2> QED BY <1>3, <1>5, <2>1
<1>6. CASE Fetch
  BY <1>5, <1>6, DatapathAssumption DEF Fetch
<1>7. ASSUME NEW w \in Shown, Show(w) PROVE MemoryInv'
  BY <1>5, <1>7 DEF Show
<1>8. CASE Tick
  BY <1>1, <1>8 DEF Tick, unitVars, MemoryInv, SignalsInv
<1>9. CASE Edge
  <2>1. committing' /\ out' = out
    BY <1>9 DEF Edge
  <2>2. \A u \in Units : wake'[u] = 0
    BY <2>1, TimeStep DEF TimeInv
  <2> QED BY <1>1, <2>1, <2>2 DEF MemoryInv, SignalsInv
<1>10. CASE UNCHANGED vars
  BY <1>10 DEF vars, clockVars, unitVars, MemoryInv, SignalsInv
<1> QED BY <1>2, <1>4, <1>6, <1>7, <1>8, <1>9, <1>10 DEF Next

LEMMA MemoryInitial == Init => MemoryInv
<1> SUFFICES ASSUME Init PROVE MemoryInv
  OBVIOUS
<1>1. wake["decode"] = 0 /\ wake["fwd"] = 0
  BY DEF Init, Units, Assigns, Processes
<1>2. signals = control(ZeroWord)
  BY DEF Init, signals, Units, Assigns, Processes
<1> QED BY <1>1, <1>2, ControlSignals DEF MemoryInv, SignalsInv

\* The strobes of the data cache move at 3 or 4 only, whatever words the instruction cache
\* shows before the right one (control_unit.v:44-62, icache.v:36-54).
THEOREM StrobesMoveFirst == Spec => StrobesFirst
<1>1. ASSUME TimeInv, MemoryInv, [Next]_vars, signals' # signals
      PROVE  moment \in {3, 4}
  <2>1. PICK v \in Units : Fire(v)
    BY <1>1 DEF signals, Next, Commit, Fetch, Show, Word, Tick, Edge, vars, unitVars
  <2>2. v = "decode"
    BY <1>1, <2>1, OperandStands DEF Fire, TimeInv, signals, Units, Assigns, Processes
  <2> QED BY <1>1, <2>1, <2>2 DEF Fire, due, TimeInv, WakesInv, MemoryInv, latest
<1>2. TimeInv /\ MemoryInv /\ [Next]_vars
        => (signals'.READ_MEM # signals.READ_MEM \/ signals'.WRITE_MEM # signals.WRITE_MEM
              => moment \in {3, 4})
  BY <1>1
<1> QED BY <1>2, TimeInitial, TimeStep, MemoryInitial, MemoryStep, PTL DEF StrobesFirst, Spec

\* The address and the data of a load or store stand for the last two moments of their
\* period, in which the data cache looks them up, and until the edge is over
\* (dcache.v:59-75): only a negated operand comes later, and no address is one.
THEOREM AddressesStand == Spec => AddressStands
<1>1. ASSUME TimeInv, MemoryInv, [Next]_vars,
             signals.READ_MEM \/ signals.WRITE_MEM, moment > 6
      PROVE  ALURESULT' = ALURESULT /\ out'.OUT1 = out.OUT1
  <2>1. CASE out' = out
    BY <2>1 DEF ALURESULT, signals
  <2>2. ASSUME NEW v \in Units, Fire(v)
        PROVE  ALURESULT' = ALURESULT /\ out'.OUT1 = out.OUT1
    <3>1. /\ wake[v] = moment /\ moment <= latest(v) /\ moment \in Nat
          /\ out' = [out EXCEPT ![v] = value(v)]
      BY <1>1, <2>2 DEF Fire, due, TimeInv, WakesInv
    <3>2. v \notin {"decode", "OUT1"}
      BY <1>1, <3>1 DEF latest
    <3>3. v # "fwd"
      BY <1>1, <3>1 DEF latest, MemoryInv, SignalsInv
    <3>4. out'.decode = out.decode /\ out'.OUT1 = out.OUT1 /\ out'.fwd = out.fwd
      BY <1>1, <3>1, <3>2, <3>3 DEF TimeInv, Units, Assigns, Processes
    <3> QED BY <1>1, <3>4 DEF ALURESULT, signals, MemoryInv, SignalsInv
  <2> QED BY <1>1, <2>1, <2>2 DEF Next, Commit, Fetch, Show, Word, Tick, Edge, vars, unitVars
<1>2. TimeInv /\ MemoryInv /\ [Next]_vars
        => ((signals.READ_MEM \/ signals.WRITE_MEM) /\ moment > 6
              => ALURESULT' = ALURESULT /\ out'.OUT1 = out.OUT1)
  BY <1>1
<1> QED BY <1>2, TimeInitial, TimeStep, MemoryInitial, MemoryStep, PTL DEF AddressStands, Spec

-----------------------------------------------------------------------------
(* Remainders. *)

\* The fetch address of PC + 4 with an offset, or without: the wrap of the PC is not seen.
LEMMA NextAddress ==
  ASSUME NEW a \in Nat, NEW s \in Int, NEW t \in {s, PCWords + s}
  PROVE  /\ ((((a + 1) % PCWords) + t) % PCWords) % ProgramWords
              = ((a % ProgramWords) + 1 + s) % ProgramWords
         /\ ((a + 1) % PCWords) % ProgramWords = ((a % ProgramWords) + 1) % ProgramWords
<1> DEFINE n == ProgramWords
           k == PCWords
           b == (a + 1) % k
<1>1. n \in Nat \ {0} /\ k \in Nat \ {0} /\ k % n = 0
  BY DatapathAssumption
<1>2. /\ t \in {s, k + s} /\ t \in Int /\ k \in Int /\ a \in Int /\ a + 1 \in Int
      /\ 1 \in Int /\ 1 + s \in Int /\ a + (1 + s) \in Int
  BY <1>1
<1> HIDE DEF n, k
<1>3. b \in 0 .. k - 1
  BY <1>1, <1>2, Division, Zenon
<1>4. b \in Int /\ b + t \in Int
  BY <1>1, <1>2, <1>3
<1>5. b % n = (a + 1) % n
  BY <1>1, <1>2, RemainderOfMultiple, Zenon
<1> HIDE DEF b
<1>6. ((b + t) % k) % n = (b + t) % n
  BY <1>1, <1>4, RemainderOfMultiple, Zenon
<1>7. (((a + 1) % n) + t) % n = (b + t) % n
  <2>1. ((b % n) + t) % n = (b + t) % n
    BY <1>1, <1>2, <1>4, RemainderOfSum, ZenonT(30)
  <2> QED BY <1>5, <2>1, Zenon
<1>8. (((a + 1) % n) + t) % n = ((a + 1) + t) % n
  BY <1>1, <1>2, RemainderOfSum, ZenonT(30)
<1>9. ((a + 1) + t) % n = (a + (1 + s)) % n
  <2>1. CASE t = s
    <3>1. (a + 1) + t = a + (1 + s)
      BY <2>1
    <3> QED BY <3>1
  <2>2. CASE t = k + s
    <3>1. ((k % n) + (a + (1 + s))) % n = (k + (a + (1 + s))) % n
      BY <1>1, <1>2, RemainderOfSum, Zenon
    <3>2. 0 + (a + (1 + s)) = a + (1 + s) /\ k + (a + (1 + s)) = (a + 1) + t
      BY <1>1, <1>2, <2>2
    <3> QED BY <1>1, <3>1, <3>2
  <2> QED BY <1>2, <2>1, <2>2
<1>10. ((a % n) + (1 + s)) % n = (a + (1 + s)) % n
  BY <1>1, <1>2, RemainderOfSum, ZenonT(30)
<1>11. (a % n) + (1 + s) = (a % n) + 1 + s
  <2>1. a % n \in Int
    BY <1>1, <1>2, Division
  <2> QED BY <2>1
<1>12. ((b + t) % k) % n = ((a % n) + 1 + s) % n
  BY <1>6, <1>7, <1>8, <1>9, <1>10, <1>11, Zenon
<1>13. ((a % n) + 1) % n = (a + 1) % n
  BY <1>1, <1>2, RemainderOfSum, Zenon
<1> QED BY <1>5, <1>12, <1>13 DEF n, k, b

LEMMA Reduced ==
  ASSUME NEW a \in Words, NEW b \in Words
  PROVE  /\ (a + b) % Modulus \in Words
         /\ (a - b) % Modulus \in Words
         /\ (a * b) % Modulus \in Words
<1>1. ASSUME NEW n \in Int PROVE n % Modulus \in Words
  BY Widths, Division, Zenon DEF Words
<1>2. a + b \in Int /\ a - b \in Int /\ a * b \in Int
  BY Widths DEF Words
<1> QED BY <1>1, <1>2, Zenon

-----------------------------------------------------------------------------
(* What a settled unit shows. *)

\* A unit that waits for events shows what its inputs make of it.
SettledInv == \A u \in Units \ {"shift"} : wake[u] = 0 => out[u] = value(u)

\* The shifter has sampled the type that the decoder shows, for the decoder, which runs
\* after it in its instant, does not change while the shifter is at work.
ShiftInv ==
  /\ wake["shift"] # 0 => type = signals.SHIFT_MODE
  /\ wake["shift"] = 0 => out.shift = shift_unit(out.OUT1, operand2, signals.SHIFT_MODE)
  /\ wake["shift"] <= moment + 1
  /\ wake["shift"] = moment + 1 => wake["decode"] # moment

LEMMA ValueFollows ==
  ASSUME NEW u \in Units \ {"shift"}, ~notices(u)
  PROVE  value(u)' = value(u)
<1>1. CASE u \in Assigns
  BY <1>1 DEF notices, sensitivity, Assigns
<1>2. CASE u = "decode"
  BY <1>2 DEF notices, sensitivity, value
<1>3. CASE u = "comp"
  BY <1>3 DEF notices, sensitivity, value
<1>4. CASE u = "fwd"
  BY <1>4 DEF notices, sensitivity, value
<1>5. CASE u \in {"add", "and", "or"}
  BY <1>5 DEF notices, sensitivity, value
<1>6. CASE u = "mult"
  <2>1. products' = products
    BY <1>6 DEF notices, sensitivity, products
  <2> QED BY <1>6, <2>1 DEF value, products, mult_unit
<1> QED BY <1>1, <1>2, <1>3, <1>4, <1>5, <1>6 DEF Units, Processes

\* What a step leaves a unit with, if it changes no output but that of the unit it fires.
LEMMA ReactSettles ==
  ASSUME TimeInv, SettledInv, NEW fired, React(fired), NEW u \in Units \ {"shift"},
         u \in fired => out'[u] = value(u),
         u \notin fired => out'[u] = out[u],
         wake'[u] = 0
  PROVE  out'[u] = value(u)'
<1>1. moment + delay(u) # 0 /\ wake[u] \in Nat
  BY Delays DEF TimeInv
<1>2. CASE notices(u)
  <2>1. u \in Assigns /\ value(u)' = out'[u]
    BY <1>1, <1>2 DEF React
  <2> QED BY <2>1
<1>3. CASE ~notices(u)
  <2>1. u \in fired \/ wake[u] = 0
    BY <1>3 DEF React
  <2>2. value(u)' = value(u)
    BY <1>3, ValueFollows
  <2> QED BY <2>1, <2>2 DEF SettledInv
<1> QED BY <1>2, <1>3

LEMMA SettledStep == TimeInv /\ SettledInv /\ [Next]_vars => SettledInv'
<1> SUFFICES ASSUME TimeInv, SettledInv, [Next]_vars PROVE SettledInv'
  OBVIOUS
<1>1. ASSUME NEW fired, React(fired),
             \A u \in Units : out'[u] = IF u \in fired THEN value(u) ELSE out[u]
      PROVE  SettledInv'
  BY <1>1, ReactSettles DEF SettledInv
<1>2. ASSUME NEW v \in Units, Fire(v) PROVE SettledInv'
  <2>1. React({v}) /\ \A u \in Units : out'[u] = IF u \in {v} THEN value(u) ELSE out[u]
    BY <1>2 DEF Fire, TimeInv
  <2> QED BY <1>1, <2>1
<1>3. ASSUME React({}), out' = out PROVE SettledInv'
  BY <1>1, <1>3
<1>4. CASE Commit \/ Fetch \/ \E w \in Shown : Show(w)
  BY <1>3, <1>4 DEF Commit, Fetch, Show, Word
<1>5. ASSUME UNCHANGED <<archVars, instruction, out>>,
             \A u \in Units : wake'[u] = 0 => wake[u] = 0
      PROVE  SettledInv'
  <2>1. ASSUME NEW u \in Units \ {"shift"} PROVE value(u)' = value(u)
    BY <1>5 DEF archVars, value, READREG1, READREG2, operand2, signals, Units, Assigns, Processes
  <2> QED BY <1>5, <2>1 DEF SettledInv
<1>6. CASE Tick
  BY <1>5, <1>6 DEF Tick, fetchVars, unitVars
<1>7. CASE Edge
  <2>1. /\ UNCHANGED <<archVars, instruction, out>>
        /\ \A u \in Units : wake[u] # 8 /\ wake[u] \in Nat
        /\ wake' = [u \in Units |-> IF wake[u] = 0 THEN 0 ELSE wake[u] - 8]
    BY <1>7 DEF Edge, due, TimeInv
  <2>2. \A u \in Units : wake'[u] = 0 => wake[u] = 0
    BY <2>1
  <2> QED BY <1>5, <2>1, <2>2
<1>8. CASE UNCHANGED vars
  BY <1>5, <1>8 DEF vars, fetchVars, unitVars
<1> QED BY <1>2, <1>4, <1>6, <1>7, <1>8 DEF Next

\* The shifter does not notice an event that leaves its results and its type.
LEMMA ShiftFollows ==
  ASSUME ~notices("shift")
  PROVE  shift_unit(out.OUT1, operand2, signals.SHIFT_MODE)'
           = shift_unit(out.OUT1, operand2, signals.SHIFT_MODE)
<1>1. shifted' = shifted
  BY DEF notices, sensitivity, shifted
<1> QED BY <1>1 DEF shifted, shift_unit

LEMMA ShiftStep ==
  InstantOrder = "queue" /\ TimeInv /\ ShiftInv /\ [Next]_vars => ShiftInv'
<1> SUFFICES ASSUME InstantOrder = "queue", TimeInv, ShiftInv, [Next]_vars PROVE ShiftInv'
  OBVIOUS
<1>1. /\ {"shift", "decode"} \subseteq Units /\ moment \in 1 .. 8 /\ delay("shift") = 1
      /\ "shift" \notin Assigns /\ wake["shift"] \in Nat /\ wake["decode"] \in Nat
  BY DEF TimeInv, Units, Assigns, Processes, delay
\* The decoder moves only when the shifter is not at work.
<1>2. ASSUME NEW fired, React(fired), moment' = moment,
             "shift" \notin fired => out'.shift = out.shift,
             "shift" \in fired => out'.shift = value("shift") /\ wake["shift"] = moment,
             signals'.SHIFT_MODE # signals.SHIFT_MODE => wake["shift"] = 0,
             notices("shift") => wake'["decode"] # moment,
             wake'["decode"] = moment => wake["decode"] = moment
      PROVE  ShiftInv'
  <2> DEFINE w == IF "shift" \in fired THEN 0 ELSE wake["shift"]
  <2>1. CASE notices("shift") /\ w = 0
    <3>1. wake'["shift"] = moment + 1 /\ wake["decode"]' # moment
      BY <1>1, <1>2, <2>1 DEF React
    <3>2. wake["shift"] = 0 => type' = signals.SHIFT_MODE'
      BY <1>1, <1>2, <3>1 DEF React
    <3>3. wake["shift"] # 0 => type' = type /\ type = signals.SHIFT_MODE
      BY <1>1, <1>2, <3>1 DEF React, ShiftInv
    <3> QED BY <1>1, <1>2, <3>1, <3>2, <3>3 DEF ShiftInv
  <2>2. CASE notices("shift") /\ w # 0
    <3>1. wake'["shift"] = wake["shift"] /\ wake["shift"] # 0
      BY <1>1, <1>2, <2>2 DEF React
    <3>2. type' = type
      BY <1>2, <3>1 DEF React
    <3> QED BY <1>1, <1>2, <3>1, <3>2 DEF ShiftInv
  <2>3. CASE ~notices("shift")
    <3>1. wake'["shift"] = w
      BY <1>1, <1>2, <2>3 DEF React
    <3>2. w # 0 => type' = type
      BY <1>2, <3>1 DEF React
    <3>3. w = 0 => out'.shift = shift_unit(out.OUT1, operand2, signals.SHIFT_MODE)
      BY <1>1, <1>2 DEF ShiftInv, value
    <3> QED BY <1>1, <1>2, <2>3, <3>1, <3>2, <3>3, ShiftFollows DEF ShiftInv
  <2> QED BY <2>1, <2>2, <2>3
<1>3. ASSUME NEW v \in Units, Fire(v) PROVE ShiftInv'
  <2>1. /\ React({v}) /\ moment' = moment /\ wake[v] = moment /\ UNCHANGED instruction
        /\ out' = [out EXCEPT ![v] = value(v)]
        /\ v # "shift" => wake["shift"] # moment
        /\ v \notin {"shift", "decode"} => wake["decode"] # moment
    BY <1>3 DEF Fire, due, InOrder, clockVars, fetchVars
  <2>2. \A u \in Units : out'[u] = IF u = v THEN value(u) ELSE out[u]
    BY <2>1 DEF TimeInv
  <2>3. ~notices("decode")
    BY <2>1 DEF notices, sensitivity
  <2>4. wake'["decode"] = IF v = "decode" THEN 0 ELSE wake["decode"]
    BY <1>1, <2>1, <2>3 DEF React
  <2>5. signals'.SHIFT_MODE # signals.SHIFT_MODE => wake["shift"] = 0
    <3>1. signals'.SHIFT_MODE # signals.SHIFT_MODE => v = "decode"
      BY <1>1, <2>2 DEF signals
    <3>2. v = "decode" => wake["shift"] \notin {moment, moment + 1}
      BY <2>1 DEF ShiftInv
    <3>3. wake["shift"] # 0 => moment <= wake["shift"] /\ wake["shift"] <= moment + 1
      BY <1>1 DEF TimeInv, WakesInv, ShiftInv
    <3> QED BY <1>1, <3>1, <3>2, <3>3
  <2>6. notices("shift") => wake'["decode"] # moment
    <3>1. v = "shift" => ~notices("shift")
      <4>1. v = "shift" => operand2' = operand2 /\ signals' = signals
        BY <2>1, OperandStands
      <4>2. v = "shift" => out'.OUT1 = out.OUT1
        BY <2>2 DEF Units, Assigns
      <4> QED BY <4>1, <4>2 DEF notices, sensitivity
    <3> QED BY <1>1, <2>1, <2>4, <3>1
  <2>7. wake'["decode"] = moment => wake["decode"] = moment
    BY <1>1, <2>4
  <2> QED BY <1>1, <1>2, <2>1, <2>2, <2>5, <2>6, <2>7
<1>4. ASSUME React({}), UNCHANGED <<out, moment>> PROVE ShiftInv'
  <2>1. ~notices("shift") /\ signals' = signals
    BY <1>4 DEF notices, sensitivity, operand2, signals
  <2>2. wake'["decode"] = moment => wake["decode"] = moment
    BY <1>1, <1>4, ReactEffect DEF delay
  <2> QED BY <1>1, <1>2, <1>4, <2>1, <2>2
<1>5. CASE Commit \/ Fetch \/ \E w \in Shown : Show(w)
  BY <1>4, <1>5 DEF Commit, Fetch, Show, Word, clockVars
<1>6. CASE Tick
  <2>1. /\ moment' = moment + 1 /\ UNCHANGED <<out, wake, type>>
        /\ wake["shift"] # moment
    BY <1>1, <1>6 DEF Tick, unitVars, due
  <2> QED BY <1>1, <2>1 DEF ShiftInv, TimeInv, WakesInv, operand2, signals
<1>7. CASE Edge
  <2>1. /\ moment = 8 /\ UNCHANGED <<out, type>> /\ moment' = 1
        /\ wake["shift"] # 8
        /\ wake' = [u \in Units |-> IF wake[u] = 0 THEN 0 ELSE wake[u] - 8]
    BY <1>1, <1>7 DEF Edge, due
  <2>2. wake["shift"] = 0
    BY <1>1, <2>1 DEF TimeInv, WakesInv, latest
  <2>3. wake'["shift"] = 0
    BY <1>1, <2>1, <2>2
  <2> QED BY <1>1, <2>1, <2>2, <2>3 DEF ShiftInv, operand2, signals
<1>8. CASE UNCHANGED vars
  BY <1>8 DEF vars, clockVars, unitVars, ShiftInv, operand2, signals
<1> QED BY <1>3, <1>5, <1>6, <1>7, <1>8 DEF Next

-----------------------------------------------------------------------------
(* The state that a program sees. *)

Stores == {"swd", "swi"}

TypeInv ==
  /\ pc \in Nat
  /\ registers \in [0 .. NumRegs - 1 -> Words]
  /\ memory \in [Words -> Words]
  /\ instruction \in Machine!Instructions
  /\ {fetched, busy, committing} \subseteq BOOLEAN

\* The word at the decoder is that of the PC once it has been fetched, and an instruction
\* completes only then.  The word that is left of the instruction before, if it is a store,
\* has been carried out.
FetchInv ==
  /\ fetched => instruction = Program[fetchAddress]
  /\ committing /\ ~busy => fetched
  /\ ~fetched /\ instruction.op \in Stores
       => memory[Machine!address(instruction)] = Machine!reg(instruction.rt)

-----------------------------------------------------------------------------
(* What the settled datapath computes. *)

\* The decoder's fields.
LEMMA Decoding ==
  ASSUME NEW i
  PROVE  LET c == control(i) IN
    /\ c.WRITEENABLE <=> i.op \in {"loadi", "mov", "add", "sub", "and", "or", "mult", "sll",
                                   "srl", "sra", "ror", "lwd", "lwi"}
    /\ c.MUX_IMM_SEL <=> i.op \in {"loadi", "sll", "srl", "sra", "ror", "lwi", "swi"}
    /\ c.MUX_COMP_SEL <=> i.op \in {"sub", "beq", "bne"}
    /\ c.MUX_MEM_SEL <=> i.op \in {"lwd", "lwi"}
    /\ c.JUMP <=> i.op = "j"
    /\ c.BRANCH <=> i.op = "beq"
    /\ c.BRANCH_NEQ <=> i.op = "bne"
    /\ c.WRITE_MEM <=> i.op \in Stores
    /\ c.IMMEDIATE = i.rs
    /\ c.OFFSET = i.rd
    /\ c.WRITEREG = i.rd % NumRegs
BY Zenon DEF control, Stores

LEMMA Selection ==
  ASSUME NEW i
  PROVE  LET c == control(i) IN
    /\ i.op \in {"add", "sub", "beq", "bne"} => c.ALUOP = "add"
    /\ i.op = "and" => c.ALUOP = "and"
    /\ i.op = "or" => c.ALUOP = "or"
    /\ i.op = "mult" => c.ALUOP = "mult"
    /\ i.op \in {"sll", "srl", "sra", "ror"} => c.ALUOP = "shift"
    /\ i.op \in {"loadi", "mov", "lwd", "lwi", "swd", "swi"} => c.ALUOP = "fwd"
    /\ i.op = "sll" => c.SHIFT_MODE = 0
    /\ i.op = "srl" => c.SHIFT_MODE = 1
    /\ i.op = "sra" => c.SHIFT_MODE = 2
    /\ i.op = "ror" => c.SHIFT_MODE = 3
<1> DEFINE c == control(i)
<1>1. i.op \in {"add", "sub", "beq", "bne"} => c.ALUOP = "add"
  BY Zenon DEF control
<1>2. i.op = "and" => c.ALUOP = "and"
  BY Zenon DEF control
<1>3. i.op = "or" => c.ALUOP = "or"
  BY Zenon DEF control
<1>4. i.op = "mult" => c.ALUOP = "mult"
  BY Zenon DEF control
<1>5. i.op \in {"sll", "srl", "sra", "ror"} => c.ALUOP = "shift"
  BY Zenon DEF control
<1>6. i.op \in {"loadi", "mov", "lwd", "lwi", "swd", "swi"} => c.ALUOP = "fwd"
  BY Zenon DEF control
<1>7. i.op = "sll" => c.SHIFT_MODE = 0
  BY Zenon DEF control
<1>8. i.op = "srl" => c.SHIFT_MODE = 1
  BY Zenon DEF control
<1>9. i.op = "sra" => c.SHIFT_MODE = 2
  BY Zenon DEF control
<1>10. i.op = "ror" => c.SHIFT_MODE = 3
  BY Zenon DEF control
<1> QED BY <1>1, <1>2, <1>3, <1>4, <1>5, <1>6, <1>7, <1>8, <1>9, <1>10, Zenon

\* The instruction set uses the same gates as the datapath.
LEMMA SameUnits ==
  /\ Machine!Modulus = Modulus /\ Machine!Words = Words
  /\ \A x, y : Machine!and_unit(x, y) = and_unit(x, y) /\ Machine!or_unit(x, y) = or_unit(x, y)
  /\ \A x : Machine!signed(x) = signed(x)
<1>1. Machine!Modulus = Modulus
  BY DEF Machine!Modulus, Modulus
<1>2. ASSUME NEW x, NEW y
      PROVE  Machine!and_unit(x, y) = and_unit(x, y) /\ Machine!or_unit(x, y) = or_unit(x, y)
  BY DEF Machine!and_unit, and_unit, Machine!or_unit, or_unit, Machine!concat, concat,
         Machine!bit, bit, Machine!Bits, Bits, Machine!total, total
<1> QED BY <1>1, <1>2 DEF Machine!Words, Words, Machine!signed, signed

\* Every unit is at rest.
Settled ==
  /\ TypeInv /\ SettledInv /\ ShiftInv
  /\ \A u \in Units : wake[u] = 0

LEMMA Fields ==
  ASSUME TypeInv
  PROVE  /\ instruction.op \in Machine!Opcodes
         /\ {instruction.rd, instruction.rt, instruction.rs} \subseteq Words
         /\ {Machine!reg(instruction.rt), Machine!reg(instruction.rs)} \subseteq Words
         /\ instruction.rd % NumRegs \in 0 .. NumRegs - 1
<1>1. /\ instruction.op \in Machine!Opcodes
      /\ {instruction.rd, instruction.rt, instruction.rs} \subseteq Words
  BY SameUnits DEF TypeInv, Machine!Instructions
<1>2. ASSUME NEW n \in Words PROVE n % NumRegs \in 0 .. NumRegs - 1
  BY DatapathAssumption, Widths DEF Words
<1> QED BY <1>1, <1>2 DEF TypeInv, Machine!reg

\* The settled outputs, from the decoder to the second operand.
LEMMA Operands ==
  ASSUME Settled
  PROVE  /\ signals = control(instruction)
         /\ out.OUT1 = Machine!reg(instruction.rt)
         /\ out.OUT2 = Machine!reg(IF instruction.op = "mov" THEN instruction.rt
                                   ELSE instruction.rs)
         /\ out.comp = twos_complement(out.OUT2)
         /\ out.fwd = operand2
         /\ out.add = add_unit(out.OUT1, operand2)
         /\ out.and = and_unit(out.OUT1, operand2)
         /\ out.or = or_unit(out.OUT1, operand2)
         /\ out.mult = mult_unit(out.OUT1, operand2)
         /\ out.shift = shift_unit(out.OUT1, operand2, signals.SHIFT_MODE)
         /\ out.PC_NEXT = (pc + 1) % PCWords
         /\ out.TARGET = (out.PC_NEXT + sign_extended(signals.OFFSET)) % PCWords
<1>1. ASSUME NEW u \in Units \ {"shift"} PROVE out[u] = value(u)
  BY <1>1 DEF Settled, SettledInv
<1>2. signals = control(instruction)
  BY <1>1 DEF signals, value, Units, Processes
<1>3. /\ out.OUT1 = Machine!reg(instruction.rt)
      /\ out.OUT2 = Machine!reg(IF instruction.op = "mov" THEN instruction.rt
                                ELSE instruction.rs)
  BY <1>1 DEF value, Units, Assigns, READREG1, READREG2, Machine!reg
<1>4. /\ out.comp = twos_complement(out.OUT2)
      /\ out.fwd = operand2
      /\ out.add = add_unit(out.OUT1, operand2)
      /\ out.and = and_unit(out.OUT1, operand2)
      /\ out.or = or_unit(out.OUT1, operand2)
      /\ out.mult = mult_unit(out.OUT1, operand2)
  BY <1>1 DEF value, Units, Processes, forward_unit
<1>5. /\ out.PC_NEXT = (pc + 1) % PCWords
      /\ out.TARGET = (out.PC_NEXT + sign_extended(signals.OFFSET)) % PCWords
  BY <1>1 DEF value, Units, Assigns
<1>6. out.shift = shift_unit(out.OUT1, operand2, signals.SHIFT_MODE)
  BY DEF Settled, ShiftInv, Units, Processes
<1> QED BY <1>2, <1>3, <1>4, <1>5, <1>6

\* The second operand of each kind of word.
LEMMA SecondOperand ==
  ASSUME Settled
  PROVE  LET i == instruction
             y == Machine!reg(i.rs)
         IN
    /\ i.op \in {"loadi", "sll", "srl", "sra", "ror", "lwi", "swi"} => operand2 = i.rs
    /\ i.op \in {"sub", "beq", "bne"} => operand2 = twos_complement(y)
    /\ i.op \in {"add", "and", "or", "mult", "lwd", "swd"} => operand2 = y
    /\ i.op = "mov" => operand2 = Machine!reg(i.rt)
<1> DEFINE c == control(instruction)
<1>1. /\ operand2 = IF c.MUX_IMM_SEL THEN c.IMMEDIATE
                    ELSE IF c.MUX_COMP_SEL THEN out.comp ELSE out.OUT2
  BY Operands DEF operand2
<1>2. /\ c.MUX_IMM_SEL <=> instruction.op \in {"loadi", "sll", "srl", "sra", "ror", "lwi", "swi"}
      /\ c.MUX_COMP_SEL <=> instruction.op \in {"sub", "beq", "bne"}
      /\ c.IMMEDIATE = instruction.rs
  BY Decoding
<1> HIDE DEF c
<1> QED BY <1>1, <1>2, Operands

\* What the ALU and memory hand to the register file, word by word.
LEMMA Results ==
  ASSUME Settled, instruction.op \in Machine!Writers
  PROVE  REG_IN_DATA = Machine!result(instruction) /\ REG_IN_DATA \in Words
<1> DEFINE i == instruction
           x == Machine!reg(i.rt)
           y == Machine!reg(i.rs)
           c == control(i)
<1>1. /\ x \in Words /\ y \in Words /\ i.rs \in Words /\ Words \subseteq Int
      /\ i.op \in Machine!Opcodes
  BY Fields, Widths DEF Settled, Words
<1>2. REG_IN_DATA = IF c.MUX_MEM_SEL THEN memory[out[c.ALUOP]] ELSE out[c.ALUOP]
  BY Operands DEF REG_IN_DATA, ALURESULT
<1>3. c.MUX_MEM_SEL <=> i.op \in {"lwd", "lwi"}
  BY Decoding
<1>4. CASE i.op \in {"loadi", "mov"}
  <2>1. REG_IN_DATA = operand2
    BY <1>2, <1>3, <1>4, Selection, Operands
  <2> QED BY <1>1, <1>4, <2>1, SecondOperand DEF Machine!result
<1>5. CASE i.op \in {"lwd", "lwi"}
  <2>1. REG_IN_DATA = memory[operand2]
    BY <1>2, <1>3, <1>5, Selection, Operands
  <2>2. operand2 = Machine!address(i) /\ operand2 \in Words
    BY <1>1, <1>5, SecondOperand DEF Machine!address
  <2>3. Machine!result(i) = memory[Machine!address(i)]
    BY <1>5 DEF Machine!result
  <2> QED BY <2>1, <2>2, <2>3 DEF Settled, TypeInv
<1>6. CASE i.op \in {"add", "sub"}
  <2>1. REG_IN_DATA = add_unit(x, operand2)
    BY <1>2, <1>3, <1>6, Selection, Operands
  <2>2. CASE i.op = "add"
    <3>1. REG_IN_DATA = (x + y) % Modulus
      BY <1>1, <2>1, <2>2, SecondOperand DEF add_unit
    <3>2. (x + y) % Modulus \in Words
      BY <1>1, Reduced, Zenon
    <3> QED BY <2>2, <3>1, <3>2, SameUnits DEF Machine!result
  <2>3. CASE i.op = "sub"
    <3>1. operand2 = twos_complement(y)
      BY <2>3, SecondOperand
    <3>2. REG_IN_DATA = (x - y) % Modulus
      BY <1>1, <2>1, <3>1, UnitsExact DEF ArithmeticExact, SubtractCorrect
    <3>3. (x - y) % Modulus \in Words
      BY <1>1, Reduced, Zenon
    <3> QED BY <2>3, <3>2, <3>3, SameUnits DEF Machine!result
  <2> QED BY <1>6, <2>2, <2>3
<1>7. CASE i.op \in {"and", "or"}
  <2>1. operand2 = y
    BY <1>7, SecondOperand
  <2>2. REG_IN_DATA = IF i.op = "and" THEN and_unit(x, y) ELSE or_unit(x, y)
    BY <1>2, <1>3, <1>7, <2>1, Selection, Operands
  <2>3. {and_unit(x, y), or_unit(x, y)} \subseteq Words
    BY <1>1, UnitsExact DEF ArithmeticExact, LogicCorrect
  <2> QED BY <1>7, <2>2, <2>3, SameUnits DEF Machine!result
<1>8. CASE i.op = "mult"
  <2>1. REG_IN_DATA = mult_unit(x, y)
    BY <1>2, <1>3, <1>8, Selection, Operands, SecondOperand
  <2>2. REG_IN_DATA = (x * y) % Modulus
    BY <1>1, <2>1, UnitsExact DEF ArithmeticExact, MultiplyCorrect
  <2>3. (x * y) % Modulus \in Words
    BY <1>1, Reduced, Zenon
  <2> QED BY <1>8, <2>2, <2>3, SameUnits DEF Machine!result
<1>9. CASE i.op \in {"sll", "srl", "sra", "ror"}
  <2> DEFINE mode == c.SHIFT_MODE
             p == 2 ^ (i.rs % Width)
  <2>1. REG_IN_DATA = shift_unit(x, i.rs, mode)
    BY <1>2, <1>3, <1>9, Selection, Operands, SecondOperand
  <2>2. /\ i.op = "sll" => mode = 0
        /\ i.op = "srl" => mode = 1
        /\ i.op = "sra" => mode = 2
        /\ i.op = "ror" => mode = 3
    BY Selection
  <2> HIDE DEF mode
  <2>3. /\ shift_unit(x, i.rs, 0) = (x * p) % Modulus
        /\ shift_unit(x, i.rs, 1) = x \div p
        /\ shift_unit(x, i.rs, 2) = (signed(x) \div p) % Modulus
        /\ shift_unit(x, i.rs, 3) = (x \div p) + (x % p) * (Modulus \div p)
    BY <1>1, ShifterExact DEF ShiftsExact, ShiftsCorrect, RotateCorrect
  <2>4. mode \in 0 .. 3 => shift_unit(x, i.rs, mode) \in Words
    BY <1>1, ShifterExact DEF ShiftsExact, ShiftsCorrect
  <2>5. mode \in 0 .. 3
    BY <1>9, <2>2
  <2>6. CASE i.op = "sll"
    BY <2>1, <2>2, <2>3, <2>4, <2>5, <2>6, SameUnits DEF Machine!result
  <2>7. CASE i.op = "srl"
    BY <2>1, <2>2, <2>3, <2>4, <2>5, <2>7, SameUnits DEF Machine!result
  <2>8. CASE i.op = "sra"
    BY <2>1, <2>2, <2>3, <2>4, <2>5, <2>8, SameUnits DEF Machine!result
  <2>9. CASE i.op = "ror"
    BY <2>1, <2>2, <2>3, <2>4, <2>5, <2>9, SameUnits DEF Machine!result
  <2> QED BY <1>9, <2>6, <2>7, <2>8, <2>9
<1>10. i.op \in {"loadi", "mov", "add", "sub", "and", "or", "mult", "sll", "srl", "sra", "ror",
                 "lwd", "lwi"}
  BY DEF Machine!Writers, Machine!Opcodes
<1> QED BY <1>4, <1>5, <1>6, <1>7, <1>8, <1>9, <1>10

LEMMA Addresses ==
  ASSUME Settled, instruction.op \in Stores
  PROVE  ALURESULT = Machine!address(instruction) /\ out.OUT1 = Machine!reg(instruction.rt)
<1>1. ALURESULT = operand2
  BY Operands, Selection DEF ALURESULT, Stores
<1>2. operand2 = Machine!address(instruction)
  BY SecondOperand DEF Machine!address, Stores
<1> QED BY <1>1, <1>2, Operands

LEMMA Branches == ASSUME Settled PROVE PC_SELECT <=> Machine!taken(instruction)
<1> DEFINE i == instruction
           x == Machine!reg(i.rt)
           y == Machine!reg(i.rs)
           c == control(i)
<1>1. /\ c.JUMP <=> i.op = "j"
      /\ c.BRANCH <=> i.op = "beq"
      /\ c.BRANCH_NEQ <=> i.op = "bne"
  BY Decoding
<1>2. ASSUME i.op \in {"beq", "bne"} PROVE ZERO <=> x = y
  <2>1. ALURESULT = add_unit(x, operand2)
    BY <1>2, Operands, Selection DEF ALURESULT
  <2>2. operand2 = twos_complement(y)
    BY <1>2, SecondOperand
  <2>3. x \in Words /\ y \in Words
    BY Fields DEF Settled
  <2> QED BY <2>1, <2>2, <2>3, UnitsExact DEF ZERO, ArithmeticExact, SubtractCorrect
<1>3. signals = c
  BY Operands
<1> HIDE DEF c
<1> QED BY <1>1, <1>2, <1>3 DEF PC_SELECT, Machine!taken

LEMMA SignExtension ==
  ASSUME NEW n \in Words
  PROVE  signed(n) \in Int /\ sign_extended(n) \in {signed(n), PCWords + signed(n)}
<1>1. bit(n, Width - 1) = 1 <=> signed(n) < 0
  BY SignExact DEF SignCorrect
<1>2. /\ n \in Int /\ Modulus \in Int /\ PCWords \in Int /\ 0 <= n /\ n < Modulus
      /\ Modulus \div 2 \in Int
  BY Widths, DatapathAssumption DEF Words
<1>3. CASE n < Modulus \div 2
  BY <1>1, <1>2, <1>3 DEF signed, sign_extended
<1>4. CASE ~(n < Modulus \div 2)
  <2>1. signed(n) = n - Modulus
    BY <1>4 DEF signed
  <2>2. sign_extended(n) = PCWords - Modulus + n
    BY <1>1, <1>2, <2>1 DEF sign_extended
  <2> QED BY <1>2, <2>1, <2>2
<1> QED BY <1>3, <1>4

LEMMA NextPC ==
  ASSUME Settled
  PROVE  LET next == IF PC_SELECT THEN out.TARGET ELSE out.PC_NEXT
             step == IF Machine!taken(instruction) THEN Machine!signed(instruction.rd) ELSE 0
         IN  next \in Nat /\ next % ProgramWords = (fetchAddress + 1 + step) % ProgramWords
<1> DEFINE s == signed(instruction.rd)
           t == sign_extended(instruction.rd)
<1>1. pc \in Nat /\ instruction.rd \in Words /\ Machine!signed(instruction.rd) = s
  BY Fields, SameUnits DEF Settled, TypeInv
<1>2. s \in Int /\ t \in {s, PCWords + s}
  BY <1>1, SignExtension DEF Settled
<1>3. signals.OFFSET = instruction.rd
  BY Operands, Decoding
<1>4. out.PC_NEXT = (pc + 1) % PCWords /\ out.TARGET = (((pc + 1) % PCWords) + t) % PCWords
  BY <1>3, Operands
<1> HIDE DEF s, t
<1>5. /\ out.TARGET % ProgramWords = (fetchAddress + 1 + s) % ProgramWords
      /\ out.PC_NEXT % ProgramWords = (fetchAddress + 1) % ProgramWords
  BY <1>1, <1>2, <1>4, NextAddress, Zenon DEF fetchAddress
<1>6. out.PC_NEXT \in Nat /\ out.TARGET \in Nat
  <2>1. PCWords \in Nat \ {0} /\ 0 .. PCWords - 1 \subseteq Nat
    BY DatapathAssumption
  <2>2. pc + 1 \in Int
    BY <1>1
  <2>3. out.PC_NEXT \in 0 .. PCWords - 1 /\ out.PC_NEXT \in Int
    BY <1>4, <2>1, <2>2, Division, Zenon
  <2>4. ((pc + 1) % PCWords) + t \in Int
    BY <1>2, <1>4, <2>1, <2>3
  <2>5. out.TARGET \in 0 .. PCWords - 1
    BY <1>4, <2>1, <2>4, Division, Zenon
  <2> QED BY <2>1, <2>3, <2>5
<1>7. fetchAddress + 1 + 0 = fetchAddress + 1
  <2>1. fetchAddress \in Int
    BY <1>1, DatapathAssumption DEF fetchAddress
  <2> QED BY <2>1
<1>8. PC_SELECT <=> Machine!taken(instruction)
  BY Branches
<1> QED BY <1>1, <1>5, <1>6, <1>7, <1>8

-----------------------------------------------------------------------------
(* The edge. *)

\* What reaches registers and memory if the word is written back, or stored.
LEMMA WriteBack ==
  ASSUME Settled, Commit, ~busy
  PROVE  registers' = IF instruction.op \in Machine!Writers
                      THEN [registers EXCEPT ![instruction.rd % NumRegs]
                                        = Machine!result(instruction)]
                      ELSE registers
<1> DEFINE c == control(instruction)
<1>1. /\ c.WRITEENABLE <=> instruction.op \in {"loadi", "mov", "add", "sub", "and", "or", "mult",
                               "sll", "srl", "sra", "ror", "lwd", "lwi"}
      /\ c.WRITEREG = instruction.rd % NumRegs
  BY Decoding
<1>2. signals = c
  BY Operands
<1>3. instruction.op \in Machine!Opcodes
  BY Fields DEF Settled
<1>4. c.WRITEENABLE <=> instruction.op \in Machine!Writers
  BY <1>1, <1>3 DEF Machine!Writers, Machine!Opcodes
<1> HIDE DEF c
<1>5. registers' = IF c.WRITEENABLE THEN [registers EXCEPT ![c.WRITEREG] = REG_IN_DATA]
                   ELSE registers
  BY <1>2 DEF Commit, Writes
<1> QED BY <1>1, <1>4, <1>5, Results

LEMMA StoreBack ==
  ASSUME Settled, Commit
  PROVE  /\ memory' = memory \/ Machine!Store(instruction)
         /\ ~busy => Machine!Store(instruction)
         /\ instruction.op \notin Stores => memory' = memory
<1> DEFINE stored == [memory EXCEPT ![Machine!address(instruction)] = Machine!reg(instruction.rt)]
<1>1. signals.WRITE_MEM <=> instruction.op \in Stores
  BY Operands, Decoding
<1>2. CASE instruction.op \notin Stores
  BY <1>1, <1>2 DEF Commit, Machine!Store, Stores
<1>3. CASE instruction.op \in Stores
  <2>1. memory' = stored \/ (busy /\ memory' = memory)
    BY <1>1, <1>3, Addresses DEF Commit
  <2>2. Machine!Store(instruction) <=> memory' = stored
    BY <1>3 DEF Machine!Store, Stores
  <2> QED BY <1>3, <2>1, <2>2
<1> QED BY <1>2, <1>3

\* An edge completes an instruction, carries out a store that waits, or does nothing.
LEMMA EdgeImplements ==
  ASSUME Settled, FetchInv, Commit
  PROVE  \/ ~busy /\ fetched /\ Machine!Execute
         \/ busy /\ fetched /\ Machine!EarlyStore
         \/ busy /\ UNCHANGED archVars
<1>1. CASE ~busy
  <2>1. fetched /\ instruction = Machine!current
    BY <1>1 DEF FetchInv, Commit, Machine!current
  <2>2. pc' = IF PC_SELECT THEN out.TARGET ELSE out.PC_NEXT
    BY <1>1 DEF Commit
  <2>3. fetchAddress' = (fetchAddress + 1
          + IF Machine!taken(instruction) THEN Machine!signed(instruction.rd) ELSE 0)
            % ProgramWords
    BY <2>2, NextPC DEF fetchAddress
  <2>4. Machine!Store(instruction)
    BY <1>1, StoreBack
  <2> QED BY <1>1, <2>1, <2>3, <2>4, WriteBack DEF Machine!Execute
<1>2. CASE busy /\ fetched
  <2>1. instruction = Machine!current
    BY <1>2 DEF FetchInv, Machine!current
  <2>2. registers' = registers /\ pc' = pc
    BY <1>2 DEF Commit, Writes
  <2> QED BY <1>2, <2>1, <2>2, StoreBack DEF Machine!EarlyStore, archVars, fetchAddress
<1>3. CASE busy /\ ~fetched
  <2>1. registers' = registers /\ pc' = pc
    BY <1>3 DEF Commit, Writes
  <2>2. CASE instruction.op \in Stores
    <3>1. memory[Machine!address(instruction)] = Machine!reg(instruction.rt)
      BY <1>3, <2>2 DEF FetchInv
    <3>2. Machine!Store(instruction) => memory' = memory
      BY <2>2, <3>1 DEF Machine!Store, Stores, Settled, TypeInv
    <3> QED BY <1>3, <2>1, <3>2, StoreBack DEF archVars
  <2>3. CASE instruction.op \notin Stores
    BY <1>3, <2>1, <2>3, StoreBack DEF archVars
  <2> QED BY <2>2, <2>3
<1> QED BY <1>1, <1>2, <1>3 DEF TypeInv, Settled

-----------------------------------------------------------------------------
(* The invariant. *)

\* What the theorem rests on: the simulator serves an instant first come, first served, and
\* the cache shows no store before the right word.
Premises ==
  /\ InstantOrder = "queue"
  /\ \A w \in Shown : w.op \notin Stores

IInv == TimeInv /\ SettledInv /\ ShiftInv /\ TypeInv /\ FetchInv

LEMMA CommitSettled ==
  ASSUME Premises, IInv, Commit
  PROVE  Settled
BY DEF Premises, IInv, Commit, Settled, TimeInv

LEMMA CommitStep ==
  ASSUME Premises, IInv, Commit
  PROVE  TypeInv' /\ FetchInv'
<1>1. Settled
  BY CommitSettled
<1>2. /\ pc \in Nat /\ instruction \in Machine!Instructions
      /\ registers \in [0 .. NumRegs - 1 -> Words] /\ memory \in [Words -> Words]
      /\ {fetched, busy, committing} \subseteq BOOLEAN
  BY DEF IInv, TypeInv
<1>3. /\ UNCHANGED <<instruction, busy>> /\ committing' = FALSE
      /\ fetched' = (fetched /\ pc' = pc)
  BY DEF Commit
<1>4. /\ instruction.rd % NumRegs \in 0 .. NumRegs - 1
      /\ {Machine!reg(instruction.rt), Machine!reg(instruction.rs)} \subseteq Words
      /\ instruction.rs \in Words
  BY <1>1, Fields DEF Settled
<1>5. registers' \in [0 .. NumRegs - 1 -> Words]
  <2>1. CASE busy
    BY <1>2, <2>1 DEF Commit, Writes
  <2>2. CASE ~busy /\ instruction.op \in Machine!Writers
    <3>1. Machine!result(instruction) \in Words
      BY <1>1, <2>2, Results
    <3> QED BY <1>1, <1>2, <1>4, <2>2, <3>1, WriteBack
  <2>3. CASE ~busy /\ instruction.op \notin Machine!Writers
    BY <1>1, <1>2, <2>3, WriteBack
  <2> QED BY <1>2, <2>1, <2>2, <2>3
<1>6. memory' \in [Words -> Words]
  BY <1>1, <1>2, <1>4, StoreBack DEF Machine!Store
<1>7. pc' \in Nat
  BY <1>1, <1>2, NextPC DEF Commit
<1>8. TypeInv'
  BY <1>2, <1>3, <1>5, <1>6, <1>7 DEF TypeInv
<1>9. fetched' => instruction' = Program[fetchAddress']
  BY <1>3 DEF IInv, FetchInv, fetchAddress
<1>10. ASSUME ~fetched', instruction.op \in Stores
       PROVE  memory'[Machine!address(instruction)'] = Machine!reg(instruction.rt)'
  <2>1. instruction.op \notin Machine!Writers
    BY <1>10 DEF Stores, Machine!Writers
  <2>2. registers' = registers
    BY <1>1, <1>2, <2>1, WriteBack DEF Commit, Writes
  <2>3. /\ Machine!address(instruction)' = Machine!address(instruction)
        /\ Machine!reg(instruction.rt)' = Machine!reg(instruction.rt)
    BY <1>3, <2>2 DEF Machine!address, Machine!reg
  <2>4. Machine!address(instruction) \in Words
    BY <1>4, <1>10 DEF Machine!address, Stores
  <2>5. CASE ~busy
    <3>1. memory' = [memory EXCEPT ![Machine!address(instruction)]
                                 = Machine!reg(instruction.rt)]
      BY <1>1, <1>10, <2>5, StoreBack DEF Machine!Store, Stores
    <3> QED BY <1>2, <2>3, <2>4, <3>1
  <2>6. CASE busy
    <3>1. ~fetched
      BY <1>2, <1>3, <1>10, <2>6 DEF Commit
    <3>2. memory[Machine!address(instruction)] = Machine!reg(instruction.rt)
      BY <1>10, <3>1 DEF IInv, FetchInv
    <3>3. Machine!Store(instruction) => memory' = memory
      BY <1>2, <1>10, <3>2 DEF Machine!Store, Stores
    <3> QED BY <1>1, <2>3, <3>2, <3>3, StoreBack
  <2> QED BY <1>2, <2>5, <2>6
<1> QED BY <1>3, <1>8, <1>9, <1>10 DEF FetchInv

LEMMA WordStep ==
  ASSUME IInv, NEW w \in Machine!Instructions, NEW right \in BOOLEAN, Word(w, right),
         right => w = Program[fetchAddress],
         ~right => w.op \notin Stores
  PROVE  TypeInv' /\ FetchInv'
<1>1. /\ UNCHANGED <<pc, registers, memory, committing, busy>>
      /\ ~committing /\ instruction' = w /\ fetched' = right
  BY DEF Word, archVars, clockVars
<1>2. TypeInv'
  BY <1>1 DEF IInv, TypeInv
<1> QED BY <1>1, <1>2 DEF FetchInv, fetchAddress

LEMMA OtherStep ==
  ASSUME IInv, UNCHANGED <<pc, registers, memory, instruction, fetched>>,
         committing' \in BOOLEAN, busy' \in BOOLEAN, committing' /\ ~busy' => fetched
  PROVE  TypeInv' /\ FetchInv'
<1>1. TypeInv'
  BY DEF IInv, TypeInv
<1>2. /\ Machine!address(instruction)' = Machine!address(instruction)
      /\ Machine!reg(instruction.rt)' = Machine!reg(instruction.rt)
  BY DEF Machine!address, Machine!reg
<1> QED BY <1>1, <1>2 DEF IInv, FetchInv, fetchAddress

LEMMA Step == Premises /\ IInv /\ [Next]_vars => IInv'
<1> SUFFICES ASSUME Premises, IInv, [Next]_vars PROVE IInv'
  OBVIOUS
<1>1. TimeInv' /\ SettledInv' /\ ShiftInv'
  BY TimeStep, SettledStep, ShiftStep DEF IInv, Premises
<1>2. committing \in BOOLEAN /\ busy \in BOOLEAN /\ fetched \in BOOLEAN
  BY DEF IInv, TypeInv
<1>3. TypeInv' /\ FetchInv'
  <2>1. CASE \E u \in Units : Fire(u)
    BY <1>2, <2>1, OtherStep DEF Fire, archVars, fetchVars, clockVars, IInv, FetchInv
  <2>2. CASE Commit
    BY <2>2, CommitStep
  <2>3. CASE Fetch
    <3>1. fetchAddress \in 0 .. ProgramWords - 1
      <4>1. pc \in Int /\ ProgramWords \in Nat \ {0}
        BY DatapathAssumption DEF IInv, TypeInv
      <4> QED BY <4>1, Division, Zenon DEF fetchAddress
    <3>2. Program[fetchAddress] \in Machine!Instructions
      BY <3>1, DatapathAssumption
    <3> QED BY <2>3, <3>2, WordStep DEF Fetch
  <2>4. ASSUME NEW w \in Shown, Show(w) PROVE TypeInv' /\ FetchInv'
    BY <2>4, WordStep, DatapathAssumption DEF Show, Premises
  <2>5. CASE Tick
    BY <1>2, <2>5, OtherStep DEF Tick, archVars, fetchVars
  <2>6. CASE Edge
    BY <1>2, <2>6, OtherStep DEF Edge, archVars
  <2>7. CASE UNCHANGED vars
    BY <1>2, <2>7, OtherStep DEF vars, archVars, fetchVars, clockVars, IInv, FetchInv
  <2> QED BY <2>1, <2>2, <2>3, <2>4, <2>5, <2>6, <2>7 DEF Next
<1> QED BY <1>1, <1>3 DEF IInv

LEMMA Initial == Premises /\ Init => IInv
<1> SUFFICES ASSUME Premises, Init PROVE IInv
  OBVIOUS
<1>1. /\ 0 \in Words /\ Words \subseteq Int /\ Modulus \in Nat \ {0}
      /\ NumRegs \in Nat \ {0} /\ PCWords \in Nat \ {0, 1} /\ ProgramWords \in Nat \ {0}
  BY Widths, DatapathAssumption DEF Words
<1>2. /\ pc = 0 /\ registers = [r \in 0 .. NumRegs - 1 |-> 0] /\ memory = [a \in Words |-> 0]
      /\ instruction = ZeroWord /\ ~fetched /\ ~committing /\ busy = TRUE /\ moment = 1
      /\ fetched = FALSE /\ committing = FALSE
      /\ wake = [u \in Units |-> 0]
  BY DEF Init
<1>3. /\ \A u \in Units \ {"PC_NEXT", "TARGET", "decode"} : out[u] = 0
      /\ out.PC_NEXT = 1 /\ out.TARGET = 1 /\ out.decode = control(ZeroWord)
  BY DEF Init, Units, Assigns, Processes
<1>4. 0 % NumRegs = 0 /\ 1 % PCWords = 1 /\ 0 % Modulus = 0 /\ 0 % Width = 0
  <2>1. ASSUME NEW n \in Nat \ {0}, NEW r \in 0 .. n - 1 PROVE r % n = r
    OBVIOUS
  <2> QED BY <1>1, <2>1, WidthAssumption
<1>5. registers[READREG1] = 0 /\ registers[READREG2] = 0
  BY <1>1, <1>2, <1>4 DEF READREG1, READREG2, ZeroWord
<1>6. operand2 = 0 /\ signals.SHIFT_MODE = 0 /\ signals.OFFSET = 0
  <2>1. /\ control(ZeroWord).MUX_IMM_SEL /\ control(ZeroWord).IMMEDIATE = 0
        /\ control(ZeroWord).OFFSET = 0
    BY Decoding DEF ZeroWord
  <2>2. control(ZeroWord).SHIFT_MODE = 0
    BY Zenon DEF control, ZeroWord
  <2> QED BY <1>3, <2>1, <2>2 DEF operand2, signals
<1>7. /\ out.OUT1 = 0 /\ out.OUT2 = 0 /\ out.comp = 0 /\ out.fwd = 0 /\ out.add = 0
      /\ out.and = 0 /\ out.or = 0 /\ out.mult = 0 /\ out.shift = 0
  BY <1>3 DEF Units, Assigns, Processes
<1>8. /\ SubtractCorrect(0, 0) /\ MultiplyCorrect(0, 0) /\ LogicCorrect(0, 0)
      /\ ShiftsCorrect(0, 0)
  BY <1>1, UnitsExact, ShifterExact DEF ArithmeticExact, ShiftsExact
<1>9. twos_complement(0) = 0
  <2>1. add_unit(0, twos_complement(0)) = 0 /\ twos_complement(0) \in Words
    BY <1>8 DEF SubtractCorrect
  <2>2. ASSUME NEW n \in Words PROVE (0 + n) % Modulus = n
    BY <1>1 DEF Words
  <2> QED BY <2>1, <2>2, Zenon DEF add_unit
<1>10. add_unit(0, 0) = 0
  BY <1>4 DEF add_unit
<1>11. and_unit(0, 0) = 0 /\ or_unit(0, 0) = 0
  <2> DEFINE a == and_unit(0, 0)
             b == or_unit(0, 0)
  <2>1. a + b = 0 + 0 /\ {a, b} \subseteq 0 .. Modulus - 1
    BY <1>8 DEF LogicCorrect, Words
  <2> HIDE DEF a, b
  <2>2. a = 0 /\ b = 0
    BY <1>1, <2>1
  <2> QED BY <2>2 DEF a, b
<1>12. mult_unit(0, 0) = 0
  BY <1>4, <1>8 DEF MultiplyCorrect
<1>13. shift_unit(0, 0, 0) = 0
  <2>1. shift_unit(0, 0, 0) = (0 * 2 ^ 0) % Modulus
    BY <1>4, <1>8 DEF ShiftsCorrect
  <2>2. 0 * 2 ^ 0 = 0
    BY PowersOfTwo
  <2> QED BY <1>4, <2>1, <2>2
<1>14. sign_extended(0) = 0
  <2>1. 2 ^ (Width - 1) \in Nat \ {0}
    BY PowersOfTwo, WidthAssumption
  <2>2. 0 \div 2 ^ (Width - 1) = 0
    <3> DEFINE n == 2 ^ (Width - 1)
    <3>1. n \in Nat \ {0}
      BY <2>1
    <3> HIDE DEF n
    <3>2. 0 \div n = 0
      BY <3>1
    <3> QED BY <3>2 DEF n
  <2>3. bit(0, Width - 1) = 0
    BY <2>2 DEF bit
  <2> QED BY <2>3 DEF sign_extended
<1>15. SettledInv
  <2>1. SUFFICES ASSUME NEW u \in Units \ {"shift"} PROVE out[u] = value(u)
    BY DEF SettledInv
  <2>2. CASE u \in {"OUT1", "OUT2"}
    BY <1>5, <1>7, <2>2 DEF value
  <2>3. CASE u = "decode"
    BY <1>2, <1>3, <2>3 DEF value
  <2>4. CASE u \in {"comp", "fwd", "add", "and", "or", "mult"}
    BY <1>6, <1>7, <1>9, <1>10, <1>11, <1>12, <2>4 DEF value, forward_unit
  <2>5. CASE u \in {"PC_NEXT", "TARGET"}
    BY <1>2, <1>3, <1>4, <1>6, <1>14, <2>5 DEF value
  <2> QED BY <2>2, <2>3, <2>4, <2>5 DEF Units, Assigns, Processes
<1>16. ShiftInv
  BY <1>2, <1>6, <1>7, <1>13 DEF ShiftInv, Units, Processes
<1>17. TypeInv
  <2>1. ZeroWord \in Machine!Instructions
    BY <1>1, SameUnits DEF ZeroWord, Machine!Instructions, Machine!Opcodes
  <2> QED BY <1>1, <1>2, <2>1 DEF TypeInv
<1>18. FetchInv
  BY <1>2 DEF FetchInv, ZeroWord, Stores
<1> QED BY <1>15, <1>16, <1>17, <1>18, TimeInitial DEF IInv

\* The shifter shows the kind of shift that the instruction asks for, if an instant is
\* served first come, first served (shift_unit.v:73-77): the event that it would miss is one
\* that the decoder makes while it sleeps.
THEOREM ShiftsServed == ASSUME Premises PROVE Spec => []ShiftsAsAsked
<1>1. IInv => ShiftsAsAsked
  BY DEF IInv, TimeInv, ShiftInv, ShiftsAsAsked, Units, Processes
<1>2. Init => IInv
  BY Initial
<1>3. IInv /\ [Next]_vars => IInv'
  BY Step
<1> QED BY <1>1, <1>2, <1>3, PTL DEF Spec

\* The datapath is the instruction set, for any program: control signals, operands, result,
\* write back, branch and wrap of the PC are those of one instruction after the other
\* (cpu.v, control_unit.v, alu.v), however long the caches hold each of them, provided that
\* no store is shown before the right word has come.
THEOREM ImplementsISA == ASSUME Premises PROVE Spec => IsISA
<1>1. Init => Machine!Init
  <2>1. 0 % ProgramWords = 0
    BY DatapathAssumption
  <2> QED BY <2>1, SameUnits DEF Init, Machine!Init, Machine!Registers, fetchAddress
<1>2. IInv /\ [Next]_vars => [Machine!Next]_(Machine!isaVars)
  <2> SUFFICES ASSUME IInv, [Next]_vars PROVE Machine!Next \/ UNCHANGED Machine!isaVars
    OBVIOUS
  <2>1. CASE Commit
    <3>1. Settled /\ FetchInv
      BY <2>1, CommitSettled DEF IInv
    <3> QED BY <2>1, <3>1, EdgeImplements
         DEF Machine!Next, Machine!isaVars, archVars, fetchAddress
  <2>2. CASE UNCHANGED archVars
    BY <2>2 DEF archVars, Machine!isaVars, fetchAddress
  <2> QED BY <2>1, <2>2 DEF Next, Fire, Fetch, Show, Word, Tick, Edge, vars
<1>3. Init => IInv
  BY Initial
<1>4. IInv /\ [Next]_vars => IInv'
  BY Step
<1> QED BY <1>1, <1>2, <1>3, <1>4, PTL DEF Spec, IsISA, Machine!Spec

\* Whenever results are taken, negation, adder, multiplier and gates have been exact on
\* whatever operands they had (twos_complement.v, add_unit.v, mult_unit.v, and_unit.v,
\* or_unit.v).
THEOREM ArithmeticHolds == Spec => []ArithmeticUnits
<1>1. ArithmeticUnits
  BY UnitsExact DEF ArithmeticUnits
<1> QED BY <1>1, PTL

\* And so has the shifter (shift_unit.v).
THEOREM ShiftsHold == Spec => []ShiftUnits
<1>1. ShiftUnits
  BY ShifterExact DEF ShiftUnits
<1> QED BY <1>1, PTL
=============================================================================
