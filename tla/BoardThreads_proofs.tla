------------------------ MODULE BoardThreads_proofs -------------------------
(***************************************************************************)
(* With the firmware's priorities the listener and the shell never get in  *)
(* each other's way, for any number of events and resets.                  *)
(***************************************************************************)
EXTENDS BoardThreads, TLAPS

\* Events the listener has taken and not yet handled, or not yet recorded.
Handling == IF listener \in {"read", "write"} THEN 1 ELSE 0
Recording == IF listener \in {"read", "write", "append"} THEN 1 ELSE 0

\* At most one event is pending, in the fifo or with the listener, and while it
\* is the shell is in the middle of queueing it; a reset meets none.
OnePending ==
    /\ fsm_fifo # <<>> => fsm_fifo = <<queued>> /\ listener \in {"take", "get"}
    /\ listener \in {"read", "write", "append", "give"} => held = queued /\ shell # "reset"
    /\ listener = "write" => piece = machine
    /\ listener = "take" /\ sem_fifo_access = 0 /\ fsm_fifo # <<>> => shell = "give"
    /\ shell = "reset" => fsm_fifo = <<>> /\ ~ListenerReady

\* Every event queued is in the machine, in the fifo, or with the listener.
Accounted ==
    /\ Len(machine) + Handling + Len(fsm_fifo) = queued - first
    /\ Len(move_check_list) + Recording + Len(fsm_fifo) = queued

ThreadsInv ==
    listenerFirst /\ ThreadsTypeOK /\ OnePending /\ Accounted /\ HandledInOrder

\* What is inductive for both builds.
FirmwareInv == listenerFirst => ThreadsInv

LEMMA ThreadsInit == Init => FirmwareInv
<1>. SUFFICES ASSUME Init, listenerFirst PROVE ThreadsInv
  BY DEF FirmwareInv
<1>. USE ThreadsAssumption
<1>1. ThreadsTypeOK
  BY DEF Init, ThreadsTypeOK
<1>2. OnePending /\ Accounted /\ HandledInOrder
  BY DEF Init, OnePending, Accounted, HandledInOrder, Handling, Recording
<1>. QED BY <1>1, <1>2 DEF ThreadsInv

\* When the shell is at its prompt nothing is pending.
LEMMA PromptEmpty ==
    ASSUME ThreadsInv, ShellMayRun, shell = "idle"
    PROVE  /\ fsm_fifo = <<>> /\ listener \in {"take", "get"}
           /\ Len(move_check_list) = queued
<1>1. ~ListenerReady
  BY DEF ShellMayRun, ThreadsInv
<1>2. listener \in {"take", "get"}
  BY <1>1 DEF ListenerReady, ThreadsInv, ThreadsTypeOK
<1>3. fsm_fifo = <<>>
  BY <1>1, <1>2 DEF ListenerReady, ThreadsInv, ThreadsTypeOK, OnePending
<1>4. Len(move_check_list) = queued
  BY <1>2, <1>3 DEF ThreadsInv, ThreadsTypeOK, Accounted, Recording
<1>. QED BY <1>2, <1>3, <1>4

\* Which build it is does not change.
LEMMA BuildStays == [Next]_vars => listenerFirst' = listenerFirst
<1>. SUFFICES ASSUME [Next]_vars PROVE listenerFirst' = listenerFirst
  OBVIOUS
<1>1. CASE QueuePut \/ QueueGive \/ ResetBegin \/ ResetEnd
  BY <1>1 DEF QueuePut, QueueGive, ResetBegin, ResetEnd, bookkeeping
<1>2. CASE Listen
  BY <1>2 DEF Listen, Take, Get, PinChangeRead, PinChangeWrite, AppendNode, GiveAccess,
              bookkeeping
<1>3. CASE UNCHANGED vars
  BY <1>3 DEF vars
<1>. QED BY <1>1, <1>2, <1>3 DEF Next

LEMMA ThreadsNext == ThreadsInv /\ [Next]_vars => ThreadsInv'
<1>. SUFFICES ASSUME ThreadsInv, [Next]_vars PROVE ThreadsInv'
  OBVIOUS
<1>. USE ThreadsAssumption
<1>. listenerFirst /\ ThreadsTypeOK /\ OnePending /\ Accounted /\ HandledInOrder
  BY DEF ThreadsInv
<1>. listenerFirst'
  BY BuildStays
<1>1. CASE QueuePut
  <2>1. fsm_fifo = <<>> /\ listener \in {"take", "get"}
    BY <1>1, PromptEmpty DEF QueuePut
  <2>2. fsm_fifo' = <<queued'>> /\ queued' = queued + 1 /\ queued' \in 1..MaxEvents
    BY <1>1, <2>1 DEF QueuePut, ThreadsTypeOK
  <2>3. ThreadsTypeOK'
    BY <1>1, <2>2 DEF QueuePut, listenerVars, ThreadsTypeOK
  <2>4. OnePending'
    BY <1>1, <2>1, <2>2 DEF QueuePut, listenerVars, OnePending
  <2>5. Accounted'
    BY <1>1, <2>1, <2>2
       DEF QueuePut, listenerVars, Accounted, Handling, Recording, ThreadsTypeOK
  <2>6. HandledInOrder'
    BY <1>1 DEF QueuePut, listenerVars, HandledInOrder
  <2>. QED BY <2>3, <2>4, <2>5, <2>6 DEF ThreadsInv
<1>2. CASE QueueGive
  <2>1. ThreadsTypeOK'
    BY <1>2 DEF QueueGive, listenerVars, bookkeeping, ThreadsTypeOK
  <2>2. OnePending'
    BY <1>2 DEF QueueGive, listenerVars, bookkeeping, OnePending
  <2>3. Accounted' /\ HandledInOrder'
    BY <1>2 DEF QueueGive, listenerVars, bookkeeping, Accounted, Handling, Recording,
                HandledInOrder
  <2>. QED BY <2>1, <2>2, <2>3 DEF ThreadsInv
<1>3. CASE ResetBegin
  <2>1. fsm_fifo = <<>> /\ listener \in {"take", "get"} /\ ~ListenerReady
    BY <1>3, PromptEmpty DEF ResetBegin, ShellMayRun
  <2>2. ThreadsTypeOK'
    BY <1>3 DEF ResetBegin, listenerVars, ThreadsTypeOK
  <2>3. OnePending'
    BY <1>3, <2>1 DEF ResetBegin, listenerVars, OnePending, ListenerReady
  <2>4. Accounted' /\ HandledInOrder'
    BY <1>3 DEF ResetBegin, listenerVars, Accounted, Handling, Recording, HandledInOrder
  <2>. QED BY <2>2, <2>3, <2>4 DEF ThreadsInv
<1>4. CASE ResetEnd
  <2>1. fsm_fifo = <<>> /\ listener \in {"take", "get"}
    BY <1>4 DEF ResetEnd, OnePending, ListenerReady, ThreadsTypeOK
  <2>2. ThreadsTypeOK'
    BY <1>4 DEF ResetEnd, ThreadsTypeOK
  <2>3. OnePending'
    BY <1>4, <2>1 DEF ResetEnd, OnePending
  <2>4. Accounted'
    BY <1>4, <2>1 DEF ResetEnd, Accounted, Handling, Recording, ThreadsTypeOK
  <2>5. HandledInOrder'
    BY <1>4 DEF ResetEnd, HandledInOrder
  <2>. QED BY <2>2, <2>3, <2>4, <2>5 DEF ThreadsInv
<1>5. CASE Take
  <2>1. ThreadsTypeOK'
    BY <1>5 DEF Take, bookkeeping, ThreadsTypeOK
  <2>2. OnePending'
    BY <1>5 DEF Take, bookkeeping, OnePending, ListenerReady
  <2>3. Accounted' /\ HandledInOrder'
    BY <1>5 DEF Take, bookkeeping, Accounted, Handling, Recording, HandledInOrder
  <2>. QED BY <2>1, <2>2, <2>3 DEF ThreadsInv
<1>6. CASE Get
  <2>1. fsm_fifo = <<queued>> /\ Head(fsm_fifo) = queued /\ Tail(fsm_fifo) = <<>>
        /\ queued \in 1..MaxEvents
    BY <1>6 DEF Get, OnePending, ThreadsTypeOK
  <2>2. ThreadsTypeOK'
    BY <1>6, <2>1 DEF Get, bookkeeping, ThreadsTypeOK
  <2>3. OnePending'
    BY <1>6, <2>1 DEF Get, bookkeeping, OnePending
  <2>4. Accounted'
    BY <1>6, <2>1 DEF Get, bookkeeping, Accounted, Handling, Recording, ThreadsTypeOK
  <2>5. HandledInOrder'
    BY <1>6 DEF Get, bookkeeping, HandledInOrder
  <2>. QED BY <2>2, <2>3, <2>4, <2>5 DEF ThreadsInv
<1>7. CASE PinChangeRead
  <2>1. ThreadsTypeOK' /\ OnePending'
    BY <1>7 DEF PinChangeRead, bookkeeping, ThreadsTypeOK, OnePending
  <2>2. Accounted' /\ HandledInOrder'
    BY <1>7 DEF PinChangeRead, bookkeeping, Accounted, Handling, Recording, HandledInOrder
  <2>. QED BY <2>1, <2>2 DEF ThreadsInv
<1>8. CASE PinChangeWrite
  <2>0. listener = "write" /\ fsm_fifo = <<>>
    BY <1>8 DEF PinChangeWrite, OnePending
  <2>1. /\ fsm_fifo = <<>> /\ held = queued /\ piece = machine
        /\ Len(machine) + 1 = queued - first
    <3>1. Handling = 1 /\ Len(fsm_fifo) = 0
      BY <2>0 DEF Handling
    <3>2. Len(machine) + 1 + 0 = queued - first /\ Len(machine) \in Nat
      BY <3>1 DEF Accounted, ThreadsTypeOK
    <3>. QED BY <2>0, <3>2 DEF OnePending
  <2>2. held = first + Len(machine) + 1 /\ held \in 1..MaxEvents
    BY <2>1 DEF ThreadsTypeOK
  <2>3. /\ machine' \in Seq(1..MaxEvents) /\ Len(machine') = Len(machine) + 1
        /\ \A i \in 1..Len(machine) : machine'[i] = machine[i]
        /\ machine'[Len(machine) + 1] = held
    BY <1>8, <2>1, <2>2 DEF PinChangeWrite, ThreadsTypeOK
  <2>4. HandledInOrder'
    <3>1. \A i \in 1..Len(machine) : machine[i] = first + i
      BY DEF HandledInOrder
    <3>2. \A i \in 1..Len(machine') : machine'[i] = first + i
      <4>1. Len(machine) \in Nat /\ first \in Nat /\ held = first + (Len(machine) + 1)
        BY <2>2 DEF ThreadsTypeOK
      <4>2. \A i \in 1..(Len(machine) + 1) :
              i \in 1..Len(machine) \/ i = Len(machine) + 1
        BY <4>1
      <4>. QED BY <2>3, <3>1, <4>1, <4>2
    <3>3. machine' = [i \in 1..Len(machine') |-> machine'[i]]
      BY <2>3
    <3>. QED BY <1>8, <3>2, <3>3 DEF PinChangeWrite, bookkeeping, HandledInOrder
  <2>5. ThreadsTypeOK' /\ OnePending'
    BY <1>8, <2>1, <2>3 DEF PinChangeWrite, bookkeeping, ThreadsTypeOK, OnePending
  <2>6. Accounted'
    BY <1>8, <2>1, <2>3
       DEF PinChangeWrite, bookkeeping, Accounted, Handling, Recording, ThreadsTypeOK
  <2>. QED BY <2>4, <2>5, <2>6 DEF ThreadsInv
<1>9. CASE AppendNode
  <2>1. /\ move_check_list' \in Seq(Seq(1..MaxEvents))
        /\ Len(move_check_list') = Len(move_check_list) + 1
    BY <1>9 DEF AppendNode, ThreadsTypeOK
  <2>2. ThreadsTypeOK' /\ OnePending'
    BY <1>9, <2>1 DEF AppendNode, bookkeeping, ThreadsTypeOK, OnePending
  <2>3. Accounted' /\ HandledInOrder'
    BY <1>9, <2>1 DEF AppendNode, bookkeeping, Accounted, Handling, Recording,
                      HandledInOrder, ThreadsTypeOK
  <2>. QED BY <2>2, <2>3 DEF ThreadsInv
<1>10. CASE GiveAccess
  <2>1. ThreadsTypeOK' /\ OnePending'
    BY <1>10 DEF GiveAccess, bookkeeping, ThreadsTypeOK, OnePending
  <2>2. Accounted' /\ HandledInOrder'
    BY <1>10 DEF GiveAccess, bookkeeping, Accounted, Handling, Recording, HandledInOrder
  <2>. QED BY <2>1, <2>2 DEF ThreadsInv
<1>11. CASE UNCHANGED vars
  BY <1>11 DEF vars, ThreadsInv, ThreadsTypeOK, OnePending, ListenerReady, Accounted,
               Handling, Recording, HandledInOrder
<1>. QED BY <1>1, <1>2, <1>3, <1>4, <1>5, <1>6, <1>7, <1>8, <1>9, <1>10, <1>11
        DEF Next, Listen

LEMMA ThreadsInvariant == Spec => []FirmwareInv
<1>1. FirmwareInv /\ [Next]_vars => FirmwareInv'
  BY ThreadsNext, BuildStays DEF FirmwareInv
<1>. QED BY <1>1, ThreadsInit, PTL DEF Spec

\* With the firmware's priorities no event is lost, repeated, reordered, or
\* handled in a game it does not belong to.
THEOREM EventsHandledInOrder == Spec => [](listenerFirst => HandledInOrder)
<1>1. FirmwareInv => (listenerFirst => HandledInOrder)
  BY DEF FirmwareInv, ThreadsInv
<1>. QED BY <1>1, ThreadsInvariant, PTL

\* And the shell never waits for the listener: at its prompt nothing is pending.
THEOREM PromptsAreCurrent == Spec => []PromptIsCurrent
<1>1. FirmwareInv => PromptIsCurrent
  BY PromptEmpty DEF PromptIsCurrent, Prompt, FirmwareInv
<1>. QED BY <1>1, ThreadsInvariant, PTL

-----------------------------------------------------------------------------
(* Types, whatever the priorities. *)

\* The event that pin_change handles has been taken from the fifo.
TypesInv ==
    /\ ThreadsTypeOK
    /\ listener \in {"read", "write"} => held \in 1..MaxEvents

LEMMA TypesNext == TypesInv /\ [Next]_vars => TypesInv'
<1>. SUFFICES ASSUME TypesInv, [Next]_vars PROVE TypesInv'
  OBVIOUS
<1>. USE ThreadsAssumption DEF TypesInv, ThreadsTypeOK
<1>1. CASE QueuePut
  <2>1. queued' \in 1..MaxEvents /\ first' \in 0..queued'
    BY <1>1 DEF QueuePut
  <2>2. fsm_fifo' \in Seq(1..MaxEvents)
    BY <1>1, <2>1 DEF QueuePut
  <2>. QED BY <1>1, <2>1, <2>2 DEF QueuePut, listenerVars
<1>2. CASE QueueGive
  BY <1>2 DEF QueueGive, listenerVars, bookkeeping
<1>3. CASE ResetBegin
  BY <1>3 DEF ResetBegin, listenerVars
<1>4. CASE ResetEnd
  <2>1. machine' \in Seq(1..MaxEvents) /\ first' \in 0..queued'
    BY <1>4 DEF ResetEnd
  <2>. QED BY <1>4, <2>1 DEF ResetEnd
<1>5. CASE Take \/ GiveAccess
  BY <1>5 DEF Take, GiveAccess, bookkeeping
<1>6. CASE Get
  BY <1>6 DEF Get, bookkeeping
<1>7. CASE PinChangeRead
  BY <1>7 DEF PinChangeRead, bookkeeping
<1>8. CASE PinChangeWrite
  BY <1>8 DEF PinChangeWrite, bookkeeping
<1>9. CASE AppendNode
  BY <1>9 DEF AppendNode, bookkeeping
<1>10. CASE UNCHANGED vars
  BY <1>10 DEF vars
<1>. QED BY <1>1, <1>2, <1>3, <1>4, <1>5, <1>6, <1>7, <1>8, <1>9, <1>10 DEF Next, Listen

\* Whatever the priorities, and for any number of events and resets, the
\* variables of the threads keep their types: the semaphore stays binary, and
\* the machine and the list hold events that were queued.
THEOREM ThreadsTypeCorrect == Spec => []ThreadsTypeOK
<1>1. Init => TypesInv
  BY ThreadsAssumption DEF Init, TypesInv, ThreadsTypeOK
<1>2. TypesInv /\ [Next]_vars => TypesInv'
  BY TypesNext
<1>3. TypesInv => ThreadsTypeOK
  BY DEF TypesInv
<1>. QED BY <1>1, <1>2, <1>3, PTL DEF Spec
=============================================================================
