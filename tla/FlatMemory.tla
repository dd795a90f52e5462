---------------------------- MODULE FlatMemory ----------------------------
(***************************************************************************)
(* What the data cache and the data memory together promise to the CPU: a  *)
(* memory of bytes that answers every request at once.  This is also what  *)
(* the Lab05 CPU was written against, before the cache was put in front.   *)
(***************************************************************************)
EXTENDS AddressSpace

VARIABLES read, write, address, writedata,   \* the CPU's request
          memory,     \* address -> byte
          loaded,     \* the register a load writes
          turn        \* "prepare": the CPU makes up its request
                      \* "serve": the request stands

requestVars == <<read, write, address, writedata>>
flatVars == <<requestVars, memory, loaded, turn>>

Init ==
  /\ read = FALSE /\ write = FALSE
  /\ address \in Addresses /\ writedata \in Bytes
  /\ memory = [a \in Addresses |-> ZeroByte]
  /\ loaded \in Bytes
  /\ turn = "prepare"

Prepare ==
  /\ turn = "prepare"
  /\ turn' \in {"prepare", "serve"}
  /\ read' \in BOOLEAN /\ write' \in BOOLEAN
  /\ address' \in Addresses /\ writedata' \in Bytes
  /\ UNCHANGED <<memory, loaded>>

Store == memory' = IF write THEN [memory EXCEPT ![address] = writedata] ELSE memory

\* The request is served and the instruction completes.
Serve ==
  /\ turn = "serve" /\ turn' = "prepare"
  /\ Store
  /\ loaded' = IF read THEN memory[address] ELSE loaded
  /\ UNCHANGED requestVars

\* The store is done, but the CPU is held by its instruction cache and presents
\* the request again.
Hold ==
  /\ turn = "serve"
  /\ Store
  /\ UNCHANGED <<requestVars, loaded, turn>>

Next == Prepare \/ Serve \/ Hold

Spec == Init /\ [][Next]_flatVars
=============================================================================
