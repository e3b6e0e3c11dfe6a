---------------------------- MODULE BoardThreads ----------------------------
(***************************************************************************)
(* How events reach the state machine on the STM32 (stm32/src/fsm.c,       *)
(* main.c): the shell thread runs the commands lift, put and reset, and    *)
(* queues events; the thread fifo_listener takes them from the fifo and    *)
(* runs pin_change.  Nothing but a binary semaphore and the priorities of  *)
(* the two threads keeps a reset and a pin_change apart.                   *)
(*                                                                         *)
(* Events are numbered in the order they are queued; the state of the      *)
(* machine is the sequence of the events it has handled since its reset.   *)
(***************************************************************************)
EXTENDS Integers, Sequences

CONSTANTS
    MaxEvents,      \* bound: events queued
    MaxResets       \* bound: resets

ASSUME ThreadsAssumption == MaxEvents \in Nat /\ MaxResets \in Nat

VARIABLES
    listenerFirst,    \* the build: the listener preempts the shell (firmware:
                      \* priority 7 against the shell's lowest), or not (the
                      \* test build, whose test thread is cooperative)
    shell,            \* what the shell thread does next
    listener,         \* what the listener does next
    held,             \* the event the listener has taken
    piece,            \* the state pin_change has read
    fsm_fifo,
    sem_fifo_access,  \* binary semaphore
    machine,          \* events handled since the reset
    move_check_list,  \* one node per handled event: the state after it
    queued, resets,   \* events queued and resets made so far
    first             \* events queued before the last reset

vars == <<listenerFirst, shell, listener, held, piece, fsm_fifo, sem_fifo_access,
          machine, move_check_list, queued, resets, first>>
listenerVars == <<listener, held, piece, machine, move_check_list>>
bookkeeping == <<listenerFirst, queued, resets, first>>

ThreadsTypeOK ==
    /\ listenerFirst \in BOOLEAN
    /\ shell \in {"idle", "give", "reset"}
    /\ listener \in {"take", "get", "read", "write", "append", "give"}
    /\ held \in 0..MaxEvents
    /\ piece \in Seq(1..MaxEvents)
    /\ fsm_fifo \in Seq(1..MaxEvents)
    /\ sem_fifo_access \in {0, 1}
    /\ machine \in Seq(1..MaxEvents)
    /\ move_check_list \in Seq(Seq(1..MaxEvents))
    /\ queued \in 0..MaxEvents /\ resets \in 0..MaxResets /\ first \in 0..queued

Init ==
    /\ listenerFirst \in BOOLEAN
    /\ shell = "idle" /\ listener = "take"
    /\ held = 0 /\ piece = <<>>
    /\ fsm_fifo = <<>> /\ sem_fifo_access = 0
    /\ machine = <<>> /\ move_check_list = <<>>
    /\ queued = 0 /\ resets = 0 /\ first = 0

\* The listener is not blocked in k_sem_take or k_fifo_get.
ListenerReady ==
    /\ listener = "take" => sem_fifo_access = 1
    /\ listener = "get" => fsm_fifo # <<>>

\* Mutant: the listener does not preempt the shell.
ShellMayRunAlways == TRUE

\* The scheduler: a thread runs only while none of higher priority can.
ShellMayRun == listenerFirst => ~ListenerReady
ListenerMayRun == listenerFirst \/ shell = "idle"

-----------------------------------------------------------------------------
(* The shell thread: queue_fsm_work_fifo and reset_fsm *)

QueuePut ==
    /\ ShellMayRun /\ shell = "idle" /\ queued < MaxEvents
    /\ queued' = queued + 1
    /\ fsm_fifo' = Append(fsm_fifo, queued')
    /\ shell' = "give"
    /\ UNCHANGED <<listenerVars, sem_fifo_access, resets, first,
                   listenerFirst>>

\* Mutant: the semaphore counts.
QueueGiveCounts ==
    /\ ShellMayRun /\ shell = "give"
    /\ sem_fifo_access' = sem_fifo_access + 1
    /\ shell' = "idle"
    /\ UNCHANGED <<listenerVars, fsm_fifo, bookkeeping>>

QueueGive ==
    /\ ShellMayRun /\ shell = "give"
    /\ sem_fifo_access' = 1
    /\ shell' = "idle"
    /\ UNCHANGED <<listenerVars, fsm_fifo, bookkeeping>>

\* reset_fsm takes no lock: it begins ...
ResetBegin ==
    /\ ShellMayRun /\ shell = "idle" /\ resets < MaxResets
    /\ resets' = resets + 1
    /\ shell' = "reset"
    /\ UNCHANGED <<listenerVars, fsm_fifo, sem_fifo_access, queued, first,
                   listenerFirst>>

\* ... and has cleared the state; the fifo and the list keep what they have.
ResetEnd ==
    /\ ShellMayRun /\ shell = "reset"
    /\ machine' = <<>>
    /\ first' = queued
    /\ shell' = "idle"
    /\ UNCHANGED <<listener, held, piece, move_check_list, fsm_fifo, sem_fifo_access,
                   queued, resets, listenerFirst>>

-----------------------------------------------------------------------------
(* The listener: fifo_listener_entry and, in it, pin_change *)

Take ==
    /\ ListenerMayRun /\ listener = "take" /\ sem_fifo_access = 1
    /\ sem_fifo_access' = 0
    /\ listener' = "get"
    /\ UNCHANGED <<shell, held, piece, fsm_fifo, machine, move_check_list, bookkeeping>>

\* Mutant: the newest event is taken first.
GetNewest ==
    /\ ListenerMayRun /\ listener = "get" /\ fsm_fifo # <<>>
    /\ held' = fsm_fifo[Len(fsm_fifo)]
    /\ fsm_fifo' = SubSeq(fsm_fifo, 1, Len(fsm_fifo) - 1)
    /\ listener' = "read"
    /\ UNCHANGED <<shell, piece, sem_fifo_access, machine, move_check_list, bookkeeping>>

Get ==
    /\ ListenerMayRun /\ listener = "get" /\ fsm_fifo # <<>>
    /\ held' = Head(fsm_fifo)
    /\ fsm_fifo' = Tail(fsm_fifo)
    /\ listener' = "read"
    /\ UNCHANGED <<shell, piece, sem_fifo_access, machine, move_check_list, bookkeeping>>

\* pin_change first reads the state ...
PinChangeRead ==
    /\ ListenerMayRun /\ listener = "read"
    /\ piece' = machine
    /\ listener' = "write"
    /\ UNCHANGED <<shell, held, fsm_fifo, sem_fifo_access, machine, move_check_list,
                   bookkeeping>>

\* ... and its handler then writes it.
PinChangeWrite ==
    /\ ListenerMayRun /\ listener = "write"
    /\ machine' = Append(piece, held)
    /\ listener' = "append"
    /\ UNCHANGED <<shell, held, piece, fsm_fifo, sem_fifo_access, move_check_list,
                   bookkeeping>>

AppendNode ==
    /\ ListenerMayRun /\ listener = "append"
    /\ move_check_list' = Append(move_check_list, machine)
    /\ listener' = "give"
    /\ UNCHANGED <<shell, held, piece, fsm_fifo, sem_fifo_access, machine, bookkeeping>>

\* Mutant: the listener keeps the semaphore.
GiveAccessNothing ==
    /\ ListenerMayRun /\ listener = "give"
    /\ listener' = "take"
    /\ UNCHANGED <<shell, held, piece, fsm_fifo, sem_fifo_access, machine,
                   move_check_list, bookkeeping>>

GiveAccess ==
    /\ ListenerMayRun /\ listener = "give"
    /\ sem_fifo_access' = 1
    /\ listener' = "take"
    /\ UNCHANGED <<shell, held, piece, fsm_fifo, machine, move_check_list, bookkeeping>>

Listen == Take \/ Get \/ PinChangeRead \/ PinChangeWrite \/ AppendNode \/ GiveAccess

Next == QueuePut \/ QueueGive \/ ResetBegin \/ ResetEnd \/ Listen

Spec == Init /\ [][Next]_vars

\* A thread that can run does: the listener, and the shell within a command.
FairSpec == Spec /\ WF_vars(Listen) /\ WF_vars(QueueGive \/ ResetEnd)

-----------------------------------------------------------------------------
(* Properties *)

\* The machine handles the events queued since its reset, each once and in the
\* order of the commands, and none of an earlier game.  (Without the firmware's
\* priorities this needs that nobody resets: a reset may tear an event.)
HandledInOrder ==
    listenerFirst \/ resets = 0 => machine = [i \in 1..Len(machine) |-> first + i]

\* The shell is ready for the next command, in the firmware.
Prompt == listenerFirst /\ ShellMayRun /\ shell = "idle"

\* When the shell is ready for the next command, or prints the board after a
\* put, every event queued has been handled and recorded in the list.
PromptIsCurrent == Prompt => fsm_fifo = <<>> /\ Len(move_check_list) = queued

\* Every queued event is eventually handled: no wake-up of the listener is lost.
EveryEventIsHandled ==
    \A n \in 1..MaxEvents : queued >= n ~> Len(move_check_list) >= n

\* The state command reports the last node of the list: the machine's state.
\* It does not after a reset, which leaves the list (fsm.c:1012, main.c:45).
StateCommandIsCurrent ==
    Prompt /\ move_check_list # <<>> =>
        move_check_list[Len(move_check_list)] = machine

=============================================================================
