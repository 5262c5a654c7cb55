------------------------------ MODULE Scheduler ------------------------------
(***************************************************************************)
(* Processes, the round-robin scheduler and the locks it serves:           *)
(* kernel/process/process.c, lock.c and wait.c, include/kernel/process/    *)
(* lock.h, and the interrupt handlers of driver/timer.c and driver/ata.c   *)
(* that drive them.                                                        *)
(*                                                                         *)
(* One CPU runs the current process.  Kernel code runs with interrupts     *)
(* enabled, so a timer interrupt may come between any two of its steps;    *)
(* the scheduler itself (process_switch) runs with interrupts disabled and *)
(* is modelled one iteration of its switch_to loop at a time.  A process   *)
(* is named by the two pages of its stack, at whose bottom its process     *)
(* structure lives: its slot.                                              *)
(***************************************************************************)
EXTENDS Integers, FiniteSets

CONSTANTS Slots,        \* stack slots process_create can get
          Idle,         \* init_kernel_stack, the slot of process 0
          Locks,        \* the process locks: one per ATA bus (lock_p, lock_s)
          NoProc, NoLock,
          Creators,     \* the processes that start others (exec, sys_exec)
          Leavers,      \* the processes that exit
          WaitTicks     \* the arguments of process_wait

ASSUME SchedulerAssumption ==
    /\ IsFiniteSet(Slots) /\ Idle \in Slots /\ NoProc \notin Slots /\ NoLock \notin Locks
    /\ Creators \subseteq Slots /\ Leavers \subseteq Slots \ {Idle}
    /\ WaitTicks \subseteq Nat

(* Two lock words go with every ATA bus: the process lock that serialises   *)
(* its users and the interrupt lock its interrupt opens.                    *)
Mutex(l) == <<l, "mutex">>
IrqWord(l) == <<l, "irq">>
Words == Locks \X {"mutex", "irq"}

VARIABLES
    next,       \* next[p]: the ring of processes
    state,      \* state[p]: RUN, LOCK, WAIT, EXIT, or FREE for a slot not allocated
    lock,       \* lock[w]: the byte a lock word holds
    lockOf,     \* lockOf[p]: process_t.lock, the word p sleeps on
    due,        \* due[p]: process_t.tick, as the ticks still to come
    current,    \* current_process
    last,       \* the scan's local last, NoProc when process_switch is not running
    pc,         \* where each process is
    sect,       \* sect[p]: the bus p is using or asking for
    fresh,      \* fresh[p]: process_create's local new
    pend,       \* pend[l]: the drive on bus l owes an interrupt
    stale,      \* ghost: slots whose next points to memory freed since it was set
    raced,      \* ghost: a successor was reaped inside its predecessor's process_create
    crashed,    \* the scheduler has followed a pointer into freed memory
    passed      \* ghost: passed[p], who was granted the word p sleeps on since it does

procVars == <<lockOf, pc, sect, fresh>>
ringVars == <<next, stale, raced>>
vars == <<next, state, lock, lockOf, due, current, last, pc, sect, fresh, pend,
          stale, raced, crashed, passed>>

-----------------------------------------------------------------------------
(* init_current_process: process 0 alone in the ring, about to run exec_init. *)
Init ==
    /\ next = [p \in Slots |-> IF p = Idle THEN Idle ELSE NoProc]
    /\ state = [p \in Slots |-> IF p = Idle THEN "RUN" ELSE "FREE"]
    /\ lock = [w \in Words |-> 0]
    /\ lockOf = [p \in Slots |-> NoLock]
    /\ due = [p \in Slots |-> 0]
    /\ current = Idle
    /\ last = NoProc
    /\ pc = [p \in Slots |-> "run"]
    /\ sect = [p \in Slots |-> NoLock]
    /\ fresh = [p \in Slots |-> NoProc]
    /\ pend = [l \in Locks |-> FALSE]
    /\ stale = {}
    /\ raced = FALSE
    /\ crashed = FALSE
    /\ passed = [p \in Slots |-> {}]

(* Interrupts are enabled: the CPU executes the current process. *)
Enabled == last = NoProc /\ ~crashed
At(p, here) == Enabled /\ p = current /\ pc[p] = here
Goto(p, there) == pc' = [pc EXCEPT ![p] = there]

EnterScanNoTick == last' = current /\ UNCHANGED due     \* mutation: no tick

EnterScanFromIdle ==                    \* mutation: every scan starts at process 0
    /\ last' = Idle
    /\ due' = [p \in Slots |-> IF due[p] > 0 THEN due[p] - 1 ELSE 0]

(* int 0x20 and the timer's interrupt both end up in irq0_handler, which     *)
(* counts a tick and calls process_switch.                                   *)
EnterScan ==
    /\ last' = current
    /\ due' = [p \in Slots |-> IF due[p] > 0 THEN due[p] - 1 ELSE 0]

-----------------------------------------------------------------------------
(* process_lock: note the word, go to LOCK, leave the CPU.  The scheduler    *)
(* alone sets the word, when it finds it clear.                              *)
LockStore(p, l) ==
    /\ At(p, "run")
    /\ lockOf' = [lockOf EXCEPT ![p] = Mutex(l)]
    /\ sect' = [sect EXCEPT ![p] = l]
    /\ Goto(p, "lock1")
    /\ UNCHANGED <<ringVars, state, lock, due, current, last, fresh, pend, crashed, passed>>

LockSleep(p) ==
    /\ At(p, "lock1")
    /\ state' = [state EXCEPT ![p] = "LOCK"]
    /\ Goto(p, "lock2")
    /\ UNCHANGED <<ringVars, lock, lockOf, due, current, last, sect, fresh, pend, crashed, passed>>

LockInt(p) ==
    /\ At(p, "lock2")
    /\ EnterScan
    /\ Goto(p, "crit")
    /\ UNCHANGED <<ringVars, state, lock, lockOf, current, sect, fresh, pend, crashed, passed>>

UnlockIrqWord(p) ==                             \* mutation: clears the wrong word
    /\ At(p, "crit")
    /\ lock' = [lock EXCEPT ![IrqWord(sect[p])] = 0]
    /\ sect' = [sect EXCEPT ![p] = NoLock]
    /\ Goto(p, "run")
    /\ UNCHANGED <<ringVars, state, lockOf, due, current, last, fresh, pend, crashed, passed>>

(* process_unlock: one store. *)
Unlock(p) ==
    /\ At(p, "crit")
    /\ lock' = [lock EXCEPT ![Mutex(sect[p])] = 0]
    /\ sect' = [sect EXCEPT ![p] = NoLock]
    /\ Goto(p, "run")
    /\ UNCHANGED <<ringVars, state, lockOf, due, current, last, fresh, pend, crashed, passed>>

(* init_intr_lock, then a command (or the data of the sector before) to the  *)
(* drive, which answers with an interrupt.                                   *)
IntrArm(p) ==
    /\ At(p, "crit")
    /\ lock' = [lock EXCEPT ![IrqWord(sect[p])] = 1]
    /\ pend' = [pend EXCEPT ![sect[p]] = TRUE]
    /\ Goto(p, "armed")
    /\ UNCHANGED <<ringVars, state, lockOf, due, current, last, sect, fresh, crashed, passed>>

(* intr_lock.  The first process, alone in the ring, halts in the loop; any  *)
(* other goes to LOCK when it has seen the word set.                         *)
IntrStore(p) ==
    /\ At(p, "armed")
    /\ lockOf' = [lockOf EXCEPT ![p] = IrqWord(sect[p])]
    /\ Goto(p, "wait1")
    /\ UNCHANGED <<ringVars, state, lock, due, current, last, sect, fresh, pend, crashed, passed>>

IntrOpenUntested(p) ==                          \* mutation: does not test the word
    /\ At(p, "wait1")
    /\ Goto(p, "crit")
    /\ UNCHANGED <<ringVars, state, lock, lockOf, due, current, last, sect, fresh, pend, crashed, passed>>

IntrOpen(p) ==
    /\ At(p, "wait1")
    /\ lock[lockOf[p]] = 0
    /\ Goto(p, "crit")
    /\ UNCHANGED <<ringVars, state, lock, lockOf, due, current, last, sect, fresh, pend, crashed, passed>>

IntrShut(p) ==
    /\ At(p, "wait1")
    /\ lock[lockOf[p]] = 1 /\ next[p] # p
    /\ Goto(p, "wait2")
    /\ UNCHANGED <<ringVars, state, lock, lockOf, due, current, last, sect, fresh, pend, crashed, passed>>

IntrSleep(p) ==
    /\ At(p, "wait2")
    /\ state' = [state EXCEPT ![p] = "LOCK"]
    /\ Goto(p, "wait3")
    /\ UNCHANGED <<ringVars, lock, lockOf, due, current, last, sect, fresh, pend, crashed, passed>>

IntrInt(p) ==
    /\ At(p, "wait3")
    /\ EnterScan
    /\ Goto(p, "crit")
    /\ UNCHANGED <<ringVars, state, lock, lockOf, current, sect, fresh, pend, crashed, passed>>

IrqLost(l) ==                                   \* mutation: word left set
    /\ Enabled /\ pend[l]
    /\ pend' = [pend EXCEPT ![l] = FALSE]
    /\ UNCHANGED <<ringVars, procVars, state, lock, due, current, last, crashed, passed>>

(* irq14_handler, irq15_handler: the interrupt opens the bus's word. *)
Irq(l) ==
    /\ Enabled /\ pend[l]
    /\ lock' = [lock EXCEPT ![IrqWord(l)] = 0]
    /\ pend' = [pend EXCEPT ![l] = FALSE]
    /\ UNCHANGED <<ringVars, procVars, state, due, current, last, crashed, passed>>

-----------------------------------------------------------------------------
(* process_wait: the tick to wake at, WAIT, leave the CPU.  due counts down  *)
(* instead of tick counting up: process_switch compares the tick before its  *)
(* increment, so the process is due after ticks + 1 interrupts.              *)
WaitStore(p, ticks) ==
    /\ At(p, "run") /\ p # Idle
    /\ due' = [due EXCEPT ![p] = ticks + 1]
    /\ Goto(p, "sleep1")
    /\ UNCHANGED <<ringVars, state, lock, lockOf, current, last, sect, fresh, pend, crashed, passed>>

WaitSleep(p) ==
    /\ At(p, "sleep1")
    /\ state' = [state EXCEPT ![p] = "WAIT"]
    /\ Goto(p, "sleep2")
    /\ UNCHANGED <<ringVars, lock, lockOf, due, current, last, sect, fresh, pend, crashed, passed>>

WaitInt(p) ==
    /\ At(p, "sleep2")
    /\ EnterScan
    /\ Goto(p, "run")
    /\ UNCHANGED <<ringVars, state, lock, lockOf, current, sect, fresh, pend, crashed, passed>>

ExitAny(p) ==                                   \* mutation: process 0 may exit
    /\ At(p, "run")
    /\ state' = [state EXCEPT ![p] = "EXIT"]
    /\ Goto(p, "dead")
    /\ UNCHANGED <<ringVars, lock, lockOf, due, current, last, sect, fresh, pend, crashed, passed>>

(* process_exit: EXIT, then halt until the scheduler frees the stack.        *)
Exit(p) ==
    /\ At(p, "run") /\ p \in Leavers
    /\ state' = [state EXCEPT ![p] = "EXIT"]
    /\ Goto(p, "dead")
    /\ UNCHANGED <<ringVars, lock, lockOf, due, current, last, sect, fresh, pend, crashed, passed>>

(* process_create: a stack for the new process; its link is a copy of the    *)
(* creator's, read in one instruction; the creator's is set in another.      *)
CreateAlloc(p) ==
    /\ At(p, "run") /\ p \in Creators
    /\ \E new \in Slots :
        /\ state[new] = "FREE"
        /\ state' = [state EXCEPT ![new] = "RUN"]
        /\ fresh' = [fresh EXCEPT ![p] = new]
        /\ pc' = [pc EXCEPT ![p] = "create1", ![new] = "run"]
    /\ UNCHANGED <<ringVars, lock, lockOf, due, current, last, sect, pend, crashed, passed>>

CreateLoadLate(p) ==            \* mutation: link of the creator set before it is copied
    /\ At(p, "create1")
    /\ next' = [next EXCEPT ![fresh[p]] = fresh[p]]
    /\ Goto(p, "create2")
    /\ UNCHANGED <<state, lock, lockOf, due, current, last, sect, fresh, pend,
                   stale, raced, crashed, passed>>

CreateLoad(p) ==
    /\ At(p, "create1")
    /\ next' = [next EXCEPT ![fresh[p]] = next[p]]
    /\ stale' = IF p \in stale THEN stale \cup {fresh[p]} ELSE stale
    /\ Goto(p, "create2")
    /\ UNCHANGED <<state, lock, lockOf, due, current, last, sect, fresh, pend,
                   raced, crashed, passed>>

(* Process 0 starts one process, as the last thing exec_init does.           *)
CreateLink(p) ==
    /\ At(p, "create2")
    /\ next' = [next EXCEPT ![p] = fresh[p]]
    /\ stale' = stale \ {p}
    /\ fresh' = [fresh EXCEPT ![p] = NoProc]
    /\ Goto(p, IF p = Idle THEN "idle" ELSE "run")
    /\ UNCHANGED <<state, lock, lockOf, due, current, last, sect, pend, raced, crashed, passed>>

(* exec_init found no init program: process 0 idles alone.                   *)
BootDone ==
    /\ At(Idle, "run")
    /\ Goto(Idle, "idle")
    /\ UNCHANGED <<ringVars, state, lock, lockOf, due, current, last, sect, fresh, pend, crashed, passed>>

-----------------------------------------------------------------------------
Timer == Enabled /\ EnterScan /\ UNCHANGED <<ringVars, procVars, state, lock, current, pend, crashed, passed>>

(* One iteration of switch_to looks at q.                                    *)
Looking(q) == last # NoProc /\ ~crashed /\ last \notin stale /\ q = next[last]

ScanRun(q) ==
    /\ Looking(q) /\ state[q] = "RUN"
    /\ current' = q
    /\ last' = NoProc
    /\ UNCHANGED <<ringVars, procVars, state, lock, due, pend, crashed, passed>>

ScanLockUnset(q) ==                             \* mutation: granted, but not set
    /\ Looking(q) /\ state[q] = "LOCK"
    /\ state' = IF lock[lockOf[q]] = 0 THEN [state EXCEPT ![q] = "RUN"] ELSE state
    /\ last' = q
    /\ UNCHANGED <<ringVars, procVars, lock, due, current, pend, crashed, passed>>

ScanLock(q) ==
    /\ Looking(q) /\ state[q] = "LOCK"
    /\ IF lock[lockOf[q]] = 0
       THEN /\ lock' = [lock EXCEPT ![lockOf[q]] = 1]
            /\ state' = [state EXCEPT ![q] = "RUN"]
            /\ passed' = [p \in Slots |->
                    IF p = q THEN {}
                    ELSE IF state[p] = "LOCK" /\ lockOf[p] = lockOf[q]
                    THEN passed[p] \cup {q} ELSE passed[p]]
       ELSE UNCHANGED <<lock, state, passed>>
    /\ last' = q
    /\ UNCHANGED <<ringVars, procVars, due, current, pend, crashed>>

ScanWaitStuck(q) ==                             \* mutation: last is not advanced
    /\ Looking(q) /\ state[q] = "WAIT"
    /\ state' = IF due[q] = 0 THEN [state EXCEPT ![q] = "RUN"] ELSE state
    /\ UNCHANGED <<ringVars, procVars, lock, due, current, last, pend, crashed, passed>>

ScanWait(q) ==
    /\ Looking(q) /\ state[q] = "WAIT"
    /\ state' = IF due[q] = 0 THEN [state EXCEPT ![q] = "RUN"] ELSE state
    /\ last' = q
    /\ UNCHANGED <<ringVars, procVars, lock, due, current, pend, crashed, passed>>

(* The stack goes back to vmm_free_page; links to it become stale.           *)
ScanExit(q) ==
    /\ Looking(q) /\ state[q] = "EXIT"
    /\ next' = [next EXCEPT ![last] = next[q], ![q] = NoProc]
    /\ state' = [state EXCEPT ![q] = "FREE"]
    /\ stale' = (stale \cup {s \in Slots \ {last} : next[s] = q}
                       \cup {s \in {last} : q \in stale}) \ {q}
    /\ raced' = (raced \/ pc[last] = "create2")
    /\ passed' = [p \in Slots |-> passed[p] \ {q}]
    /\ UNCHANGED <<procVars, lock, due, current, last, pend, crashed>>

(* The scan follows a link into a freed stack: a page fault in the kernel,   *)
(* or whatever the memory holds by now.  Nothing is said of what follows.    *)
ScanStale ==
    /\ last # NoProc /\ ~crashed /\ last \in stale
    /\ crashed' = TRUE
    /\ UNCHANGED <<ringVars, procVars, state, lock, due, current, last, pend, passed>>

Halted == crashed /\ UNCHANGED vars

-----------------------------------------------------------------------------
(* What a process may begin, and what it then goes on with.                  *)
Begin(p) ==
    \/ \E l \in Locks : LockStore(p, l)
    \/ \E ticks \in WaitTicks : WaitStore(p, ticks)
    \/ IntrArm(p)
    \/ Exit(p)
    \/ CreateAlloc(p)

Continue(p) ==
    \/ LockSleep(p) \/ LockInt(p)
    \/ IntrStore(p) \/ IntrOpen(p) \/ IntrShut(p) \/ IntrSleep(p) \/ IntrInt(p)
    \/ WaitSleep(p) \/ WaitInt(p)
    \/ CreateLoad(p) \/ CreateLink(p)

Scan ==
    \/ \E q \in Slots : ScanRun(q) \/ ScanLock(q) \/ ScanWait(q) \/ ScanExit(q)
    \/ ScanStale

Next ==
    \/ \E p \in Slots : Begin(p) \/ Continue(p) \/ Unlock(p)
    \/ BootDone
    \/ Timer
    \/ \E l \in Locks : Irq(l)
    \/ Scan
    \/ Halted

Spec == Init /\ [][Next]_vars

(* A process gets to execute its next step: a time slice lasts ten million   *)
(* cycles, so a process switched to again and again is not interrupted       *)
(* before that step for ever.  A pending interrupt stays latched in the      *)
(* 8259 until interrupts are enabled; the scan runs to its end.              *)
Fairness ==
    /\ \A p \in Slots : SF_vars(Continue(p)) /\ SF_vars(Unlock(p))
    /\ \A l \in Locks : SF_vars(Irq(l))
    /\ WF_vars(BootDone)
    /\ SF_vars(Timer)
    /\ WF_vars(Scan)

FairSpec == Spec /\ Fairness

-----------------------------------------------------------------------------
States == {"RUN", "LOCK", "WAIT", "EXIT", "FREE"}
Sections == {"lock2", "crit", "armed", "wait1", "wait2", "wait3"}
Places == Sections \cup {"run", "lock1", "sleep1", "sleep2", "create1", "create2",
                        "dead", "idle"}

(* current_process is always a process, a tick that is past stays past (no   *)
(* wait is negative) and the byte of a lock holds 0 or 1.                    *)
TypeOK ==
    /\ next \in [Slots -> Slots \cup {NoProc}]
    /\ state \in [Slots -> States]
    /\ lock \in [Words -> {0, 1}]
    /\ lockOf \in [Slots -> Words \cup {NoLock}]
    /\ due \in [Slots -> Nat]
    /\ current \in Slots
    /\ last \in Slots \cup {NoProc}
    /\ pc \in [Slots -> Places]
    /\ sect \in [Slots -> Locks \cup {NoLock}]
    /\ fresh \in [Slots -> Slots \cup {NoProc}]
    /\ pend \in [Locks -> BOOLEAN]
    /\ stale \in SUBSET Slots
    /\ raced \in BOOLEAN /\ crashed \in BOOLEAN
    /\ passed \in [Slots -> SUBSET Slots]

Sleeps(p, w) == state[p] = "LOCK" /\ lockOf[p] = w

(* p has been granted the process lock of bus l and has not released it.     *)
Owns(p, l) == sect[p] = l /\ pc[p] \in Sections /\ ~Sleeps(p, Mutex(l))

(* Two processes are never inside ata_io_lock .. ata_io_unlock of one bus,   *)
(* wherever the timer interrupts process_lock and whoever the scan serves.   *)
MutualExclusion ==
    \A l \in Locks : \A p, q \in Slots : Owns(p, l) /\ Owns(q, l) => p = q

(* The byte of a process lock tells the truth: it is set exactly while some  *)
(* process owns the lock, so none is left locked by nobody.                  *)
LockTold == \A l \in Locks : lock[Mutex(l)] = 1 <=> \E p \in Slots : Owns(p, l)

(* ata_read_data: a process back from intr_lock finds the data of the command *)
(* it gave; no interrupt is outstanding on the bus it goes on to use.        *)
DataReady ==
    \A p \in Slots : \A l \in Locks :
        Owns(p, l) /\ pc[p] = "crit" /\ pend[l] => Sleeps(p, IrqWord(l))

(* Steps of the scan from Idle; all of the ring after as many as there are slots. *)
Visited == LET v[n \in 0 .. Cardinality(Slots)] ==
                   IF n = 0 THEN {Idle} ELSE v[n - 1] \cup {next[p] : p \in v[n - 1]}
           IN  v[Cardinality(Slots)]

(* The processes linked by process_create and not reaped yet.                *)
Linked == {p \in Slots : state[p] # "FREE"} \ {fresh[p] : p \in Slots}

(* Unless the reaping of an exited successor fell between the two links of   *)
(* process_create, the ring is one cycle through exactly the live processes: *)
(* nobody is lost by an insertion or a removal, and the scheduler never      *)
(* leaves the ring for freed memory.                                         *)
RingIntact ==
    ~raced => /\ Visited = Linked
              /\ \A p, q \in Linked : next[p] = next[q] => p = q
              /\ ~crashed

(* process_switch never frees the stack it runs on, nor one it returns to.   *)
StackAlive ==
    /\ state[current] # "FREE"
    /\ last # NoProc => state[last] # "FREE"

(* With interrupts disabled the scan loops until it finds a runnable         *)
(* process: there is one in the ring whenever it looks.                      *)
ScanEnds == last # NoProc ~> last = NoProc \/ crashed

(* A process that asks for a process lock gets it.                           *)
LockServed == \A p \in Slots : \A l \in Locks :
    sect[p] = l ~> Owns(p, l) \/ crashed

(* The ring is also the queue of every process lock: while a process sleeps  *)
(* on a lock, no other is granted that lock twice.                           *)
BypassedOnce == [][\A p, q \in Slots :
    /\ p # q /\ state[q] = "LOCK" /\ state'[q] = "RUN"
    /\ Sleeps(p, lockOf[q])
    => q \notin passed[p]]_vars

(* A process that waits for its drive's interrupt goes on: no interrupt is   *)
(* lost between the test of the word and the sleep.                          *)
IrqServed == \A p \in Slots : pc[p] = "armed" ~> pc[p] = "run" \/ crashed

(* A sleeper wakes.                                                          *)
WaitOver == \A p \in Slots : state[p] = "WAIT" ~> state[p] = "RUN" \/ crashed

(* A runnable process gets the CPU.                                          *)
TurnComes == \A p \in Slots : state[p] = "RUN" ~> current = p \/ crashed
=============================================================================
