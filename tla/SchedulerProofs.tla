--------------------------- MODULE SchedulerProofs ---------------------------
(***************************************************************************)
(* The process locks and the interrupt locks of Scheduler, the ring of     *)
(* processes and the queues the locks make of it, for any number of        *)
(* processes and of buses.                                                 *)
(*                                                                         *)
(* MutualExclusion and LockTold are not inductive by themselves.  The      *)
(* strengthening LockInv says where in the code a process can be when it   *)
(* sleeps (Placed), that the CPU only returns to a process that does not   *)
(* sleep (AwakeOnCpu) and that an outstanding interrupt has an owner of    *)
(* the bus waiting for it (Answered).                                      *)
(*                                                                         *)
(* Nor is RingIntact.  RingInv says what the two links process_create sets *)
(* have in common until it is done (Creating), that a set of processes     *)
(* closed under next is empty or the ring (OneRing), and that the scan     *)
(* leaves no exiting process between the one it began at and the one it    *)
(* looks from (ScanPath), so that it never frees the stack it runs on.     *)
(*                                                                         *)
(* BypassedOnce needs the way along the links (Way): the owner of a lock   *)
(* comes, on the way to a sleeper, after everybody granted since (Queue).  *)
(***************************************************************************)
EXTENDS Scheduler, FiniteSetTheorems, WellFoundedInduction, TLAPS

Placed == \A p \in Slots :
    /\ sect[p] \in Locks <=> pc[p] \in Sections \cup {"lock1"}
    /\ pc[p] \in {"lock1", "lock2"} => lockOf[p] = Mutex(sect[p])
    /\ pc[p] \in {"wait1", "wait2", "wait3"} => lockOf[p] = IrqWord(sect[p])
    /\ state[p] = "LOCK" => /\ pc[p] \in {"lock2", "wait3", "crit"}
                            /\ lockOf[p] \in {Mutex(sect[p]), IrqWord(sect[p])}
    /\ pc[p] \in {"create1", "create2"} => fresh[p] \in Slots
    /\ state[p] = "EXIT" => pc[p] = "dead"
    /\ state[p] = "FREE" => pc[p] = "dead" \/ (pc[p] = "run" /\ p # current)

AwakeOnCpu ==
    last = NoProc /\ state[current] = "LOCK" => pc[current] \in {"lock2", "wait3"}

Answered == \A l \in Locks : pend[l] =>
    /\ lock[IrqWord(l)] = 1
    /\ \E p \in Slots : /\ Owns(p, l)
                        /\ pc[p] \in {"armed", "wait1", "wait2"} \/ Sleeps(p, IrqWord(l))

LockInv == Placed /\ AwakeOnCpu /\ MutualExclusion /\ LockTold /\ Answered
-----------------------------------------------------------------------------
(* The lock words of the buses are distinct. *)
LEMMA WordFacts ==
    ASSUME NEW l \in Locks, NEW m \in Locks
    PROVE  /\ Mutex(l) \in Words /\ IrqWord(l) \in Words
           /\ Mutex(l) # IrqWord(m)
           /\ Mutex(l) = Mutex(m) => l = m
           /\ IrqWord(l) = IrqWord(m) => l = m
BY DEF Mutex, IrqWord, Words

LEMMA TypeInit == Init => TypeOK
<1> SUFFICES ASSUME Init PROVE TypeOK
  OBVIOUS
<1> USE SchedulerAssumption DEF Init
<1>1. next \in [Slots -> Slots \cup {NoProc}] /\ state \in [Slots -> States]
  BY DEF States
<1>2. lock \in [Words -> {0, 1}] /\ lockOf \in [Slots -> Words \cup {NoLock}]
  OBVIOUS
<1>3. pc \in [Slots -> Places] /\ due \in [Slots -> Nat]
  BY DEF Places
<1>4. sect \in [Slots -> Locks \cup {NoLock}] /\ fresh \in [Slots -> Slots \cup {NoProc}]
  OBVIOUS
<1>5. QED
  BY <1>1, <1>2, <1>3, <1>4 DEF TypeOK

LEMMA TypeNext == TypeOK /\ Placed /\ [Next]_vars => TypeOK'
<1> SUFFICES ASSUME TypeOK, Placed, [Next]_vars PROVE TypeOK'
  OBVIOUS
<1> USE DEF TypeOK, States, Places, Sections, ringVars, procVars, At, Goto, Enabled, Looking
<1>1. ASSUME EnterScan PROVE due' \in [Slots -> Nat] /\ last' \in Slots
  BY <1>1 DEF EnterScan
<1>2. ASSUME NEW p \in Slots, Begin(p) PROVE TypeOK'
  <2>1. ASSUME NEW l \in Locks, LockStore(p, l) PROVE TypeOK'
    BY <2>1, WordFacts DEF LockStore
  <2>2. ASSUME NEW ticks \in WaitTicks, WaitStore(p, ticks) PROVE TypeOK'
    BY <2>2, SchedulerAssumption DEF WaitStore
  <2>3. CASE IntrArm(p)
    BY <2>3 DEF IntrArm
  <2>4. CASE Exit(p)
    BY <2>4 DEF Exit
  <2>5. CASE CreateAlloc(p)
    BY <2>5 DEF CreateAlloc
  <2>6. QED
    BY <1>2, <2>1, <2>2, <2>3, <2>4, <2>5 DEF Begin
<1>3. ASSUME NEW p \in Slots, Continue(p) PROVE TypeOK'
  <2>1. CASE LockSleep(p)
    BY <2>1 DEF LockSleep
  <2>2. CASE LockInt(p)
    BY <1>1, <2>2 DEF LockInt
  <2>3. CASE IntrStore(p)
    <3>1. IrqWord(sect[p]) \in Words
      BY <2>3, WordFacts DEF IntrStore, Placed
    <3>2. QED
      BY <2>3, <3>1 DEF IntrStore
  <2>4. CASE IntrOpen(p)
    BY <2>4 DEF IntrOpen
  <2>5. CASE IntrShut(p)
    BY <2>5 DEF IntrShut
  <2>6. CASE IntrSleep(p)
    BY <2>6 DEF IntrSleep
  <2>7. CASE IntrInt(p)
    BY <1>1, <2>7 DEF IntrInt
  <2>8. CASE WaitSleep(p)
    BY <2>8 DEF WaitSleep
  <2>9. CASE WaitInt(p)
    BY <1>1, <2>9 DEF WaitInt
  <2>10. CASE CreateLoad(p)
    BY <2>10 DEF CreateLoad, Placed
  <2>11. CASE CreateLink(p)
    BY <2>11 DEF CreateLink
  <2>12. QED
    BY <1>3, <2>1, <2>2, <2>3, <2>4, <2>5, <2>6, <2>7, <2>8, <2>9, <2>10, <2>11 DEF Continue
<1>4. ASSUME NEW p \in Slots, Unlock(p) PROVE TypeOK'
  BY <1>4 DEF Unlock
<1>5. CASE BootDone
  BY <1>5 DEF BootDone
<1>6. CASE Timer
  BY <1>1, <1>6 DEF Timer
<1>7. ASSUME NEW l \in Locks, Irq(l) PROVE TypeOK'
  BY <1>7 DEF Irq
<1>8. CASE Scan
  <2>1. ASSUME NEW q \in Slots, ScanRun(q) PROVE TypeOK'
    BY <2>1 DEF ScanRun
  <2>2. ASSUME NEW q \in Slots, ScanLock(q) PROVE TypeOK'
    BY <2>2 DEF ScanLock
  <2>3. ASSUME NEW q \in Slots, ScanWait(q) PROVE TypeOK'
    BY <2>3 DEF ScanWait
  <2>4. ASSUME NEW q \in Slots, ScanExit(q) PROVE TypeOK'
    BY <2>4 DEF ScanExit
  <2>5. CASE ScanStale
    BY <2>5 DEF ScanStale
  <2>6. QED
    BY <1>8, <2>1, <2>2, <2>3, <2>4, <2>5 DEF Scan
<1>9. CASE Halted \/ UNCHANGED vars
  BY <1>9 DEF Halted, vars
<1>10. QED
  BY <1>2, <1>3, <1>4, <1>5, <1>6, <1>7, <1>8, <1>9 DEF Next

-----------------------------------------------------------------------------
LEMMA LockInvInit == Init => LockInv
<1> SUFFICES ASSUME Init PROVE LockInv
  OBVIOUS
<1> USE SchedulerAssumption DEF Init
<1>1. Placed
  BY DEF Placed, Sections
<1>2. AwakeOnCpu /\ Answered
  BY DEF AwakeOnCpu, Answered
<1>3. \A p \in Slots : \A l \in Locks : ~Owns(p, l)
  BY DEF Owns, Sections
<1>4. MutualExclusion /\ LockTold
  BY <1>3, WordFacts DEF MutualExclusion, LockTold
<1>5. QED
  BY <1>1, <1>2, <1>4 DEF LockInv

LEMMA PlacedNext == TypeOK /\ LockInv /\ [Next]_vars => Placed'
<1> SUFFICES ASSUME TypeOK, LockInv, [Next]_vars PROVE Placed'
  OBVIOUS
<1> USE DEF LockInv, Placed, TypeOK, Sections, ringVars, procVars, At, Goto, Enabled, Looking
<1> USE SchedulerAssumption
<1>1. ASSUME NEW p \in Slots, NEW l \in Locks, LockStore(p, l) PROVE Placed'
  BY <1>1 DEF LockStore
<1>2. ASSUME NEW p \in Slots, NEW ticks \in WaitTicks, WaitStore(p, ticks) PROVE Placed'
  BY <1>2 DEF WaitStore
<1>3. ASSUME NEW p \in Slots, IntrArm(p) PROVE Placed'
  BY <1>3 DEF IntrArm, AwakeOnCpu
<1>4. ASSUME NEW p \in Slots, Exit(p) PROVE Placed'
  BY <1>4 DEF Exit
<1>5. ASSUME NEW p \in Slots, CreateAlloc(p) PROVE Placed'
  BY <1>5 DEF CreateAlloc
<1>6. ASSUME NEW p \in Slots, LockSleep(p) \/ LockInt(p) PROVE Placed'
  BY <1>6 DEF LockSleep, LockInt, EnterScan
<1>7. ASSUME NEW p \in Slots, IntrStore(p) \/ IntrOpen(p) \/ IntrShut(p) PROVE Placed'
  BY <1>7 DEF IntrStore, IntrOpen, IntrShut
<1>8. ASSUME NEW p \in Slots, IntrSleep(p) \/ IntrInt(p) PROVE Placed'
  BY <1>8 DEF IntrSleep, IntrInt, EnterScan
<1>9. ASSUME NEW p \in Slots, WaitSleep(p) \/ WaitInt(p) PROVE Placed'
  BY <1>9 DEF WaitSleep, WaitInt, EnterScan
<1>10. ASSUME NEW p \in Slots, CreateLoad(p) \/ CreateLink(p) PROVE Placed'
  BY <1>10 DEF CreateLoad, CreateLink
<1>11. ASSUME NEW p \in Slots, Unlock(p) PROVE Placed'
  BY <1>11 DEF Unlock, AwakeOnCpu
<1>12. ASSUME BootDone \/ Timer PROVE Placed'
  BY <1>12 DEF BootDone, Timer, EnterScan
<1>13. ASSUME NEW l \in Locks, Irq(l) PROVE Placed'
  BY <1>13 DEF Irq
<1>14. ASSUME NEW q \in Slots, ScanRun(q) \/ ScanWait(q) PROVE Placed'
  BY <1>14 DEF ScanRun, ScanWait
<1>15. ASSUME NEW q \in Slots, ScanLock(q) \/ ScanExit(q) PROVE Placed'
  BY <1>15 DEF ScanLock, ScanExit
<1>16. ASSUME ScanStale \/ Halted \/ UNCHANGED vars PROVE Placed'
  BY <1>16 DEF ScanStale, Halted, vars
<1>17. QED
  BY <1>1, <1>2, <1>3, <1>4, <1>5, <1>6, <1>7, <1>8, <1>9, <1>10, <1>11, <1>12,
     <1>13, <1>14, <1>15, <1>16 DEF Next, Begin, Continue, Scan

LEMMA AwakeNext == TypeOK /\ LockInv /\ [Next]_vars => AwakeOnCpu'
<1> SUFFICES ASSUME TypeOK, LockInv, [Next]_vars PROVE AwakeOnCpu'
  OBVIOUS
<1> USE SchedulerAssumption
        DEF LockInv, Placed, AwakeOnCpu, TypeOK, Sections, ringVars, procVars,
            At, Goto, Enabled, Looking
<1>1. ASSUME NEW p \in Slots, Begin(p) PROVE AwakeOnCpu'
  BY <1>1 DEF Begin, LockStore, WaitStore, IntrArm, Exit, CreateAlloc
<1>2. ASSUME NEW p \in Slots, Continue(p) PROVE AwakeOnCpu'
  <2>1. ASSUME LockSleep(p) \/ LockInt(p) \/ IntrSleep(p) \/ IntrInt(p) PROVE AwakeOnCpu'
    BY <2>1 DEF LockSleep, LockInt, IntrSleep, IntrInt, EnterScan
  <2>2. ASSUME IntrStore(p) \/ IntrOpen(p) \/ IntrShut(p) PROVE AwakeOnCpu'
    BY <2>2 DEF IntrStore, IntrOpen, IntrShut
  <2>3. ASSUME WaitSleep(p) \/ WaitInt(p) \/ CreateLoad(p) \/ CreateLink(p) PROVE AwakeOnCpu'
    BY <2>3 DEF WaitSleep, WaitInt, CreateLoad, CreateLink, EnterScan
  <2>4. QED
    BY <1>2, <2>1, <2>2, <2>3 DEF Continue
<1>3. ASSUME NEW p \in Slots, Unlock(p) PROVE AwakeOnCpu'
  BY <1>3 DEF Unlock
<1>4. ASSUME BootDone \/ Timer PROVE AwakeOnCpu'
  BY <1>4 DEF BootDone, Timer, EnterScan
<1>5. ASSUME NEW l \in Locks, Irq(l) PROVE AwakeOnCpu'
  BY <1>5 DEF Irq
<1>6. ASSUME NEW q \in Slots, ScanRun(q) \/ ScanLock(q) \/ ScanWait(q) \/ ScanExit(q)
      PROVE  AwakeOnCpu'
  BY <1>6 DEF ScanRun, ScanLock, ScanWait, ScanExit
<1>7. ASSUME ScanStale \/ Halted \/ UNCHANGED vars PROVE AwakeOnCpu'
  BY <1>7 DEF ScanStale, Halted, vars
<1>8. QED
  BY <1>1, <1>2, <1>3, <1>4, <1>5, <1>6, <1>7 DEF Next, Scan

-----------------------------------------------------------------------------
(* Only the scan's grant and process_unlock change who owns a process lock   *)
(* or the byte of one.                                                       *)
Releases == \E p \in Slots : Unlock(p)
Grants == \E q \in Slots : ScanLock(q)

LEMMA OwnersKept ==
    ASSUME TypeOK, LockInv, [Next]_vars, ~Releases, ~Grants, NEW l \in Locks
    PROVE  /\ lock'[Mutex(l)] = lock[Mutex(l)]
           /\ \A p \in Slots : Owns(p, l)' <=> Owns(p, l)
<1> DEFINE Kept == /\ lock'[Mutex(l)] = lock[Mutex(l)]
                   /\ \A p \in Slots : Owns(p, l)' <=> Owns(p, l)
<1> USE SchedulerAssumption, WordFacts
        DEF LockInv, Placed, TypeOK, Sections, ringVars, procVars,
            At, Goto, Enabled, Looking, Owns, Sleeps
<1>1. ASSUME NEW p \in Slots, Begin(p) PROVE Kept
  <2>1. ASSUME NEW m \in Locks, LockStore(p, m) PROVE Kept
    BY <2>1 DEF LockStore
  <2>2. ASSUME NEW ticks \in WaitTicks, WaitStore(p, ticks) PROVE Kept
    BY <2>2 DEF WaitStore
  <2>3. CASE IntrArm(p)
    <3>1. sect[p] \in Locks
      BY <2>3 DEF IntrArm
    <3>2. lock'[Mutex(l)] = lock[Mutex(l)]
      BY <2>3, <3>1 DEF IntrArm
    <3>3. QED
      BY <2>3, <3>2 DEF IntrArm
  <2>4. CASE Exit(p)
    BY <2>4 DEF Exit
  <2>5. CASE CreateAlloc(p)
    BY <2>5 DEF CreateAlloc
  <2>6. QED
    BY <1>1, <2>1, <2>2, <2>3, <2>4, <2>5 DEF Begin
<1>2. ASSUME NEW p \in Slots, Continue(p) PROVE Kept
  <2>1. CASE LockSleep(p) \/ LockInt(p)
    BY <2>1 DEF LockSleep, LockInt, EnterScan
  <2>2. CASE IntrStore(p)
    BY <2>2 DEF IntrStore
  <2>3. CASE IntrOpen(p) \/ IntrShut(p)
    BY <2>3 DEF IntrOpen, IntrShut
  <2>4. CASE IntrSleep(p) \/ IntrInt(p)
    BY <2>4 DEF IntrSleep, IntrInt, EnterScan
  <2>5. CASE WaitSleep(p) \/ WaitInt(p)
    BY <2>5 DEF WaitSleep, WaitInt, EnterScan
  <2>6. CASE CreateLoad(p) \/ CreateLink(p)
    BY <2>6 DEF CreateLoad, CreateLink
  <2>7. QED
    BY <1>2, <2>1, <2>2, <2>3, <2>4, <2>5, <2>6 DEF Continue
<1>3. CASE BootDone \/ Timer
  BY <1>3 DEF BootDone, Timer, EnterScan
<1>4. ASSUME NEW m \in Locks, Irq(m) PROVE Kept
  BY <1>4 DEF Irq
<1>5. ASSUME NEW q \in Slots, ScanRun(q) \/ ScanWait(q) \/ ScanExit(q) PROVE Kept
  BY <1>5 DEF ScanRun, ScanWait, ScanExit
<1>6. CASE ScanStale \/ Halted \/ UNCHANGED vars
  BY <1>6 DEF ScanStale, Halted, vars
<1>7. QED
  BY <1>1, <1>2, <1>3, <1>4, <1>5, <1>6 DEF Next, Scan, Releases, Grants

(* process_unlock: the caller was the owner, and is no more.                 *)
LEMMA UnlockOwner ==
    ASSUME TypeOK, LockInv, NEW p \in Slots, Unlock(p)
    PROVE  /\ sect[p] \in Locks
           /\ Owns(p, sect[p])
           /\ \A q \in Slots, l \in Locks : Owns(q, l)' <=> Owns(q, l) /\ q # p
           /\ lock' = [lock EXCEPT ![Mutex(sect[p])] = 0]
<1> USE DEF Unlock, LockInv, Placed, TypeOK, Sections, ringVars, At, Goto, Enabled, Owns, Sleeps
<1>1. sect[p] \in Locks
  OBVIOUS
<1>2. Owns(p, sect[p])
  BY DEF AwakeOnCpu
<1>3. \A q \in Slots, l \in Locks : Owns(q, l)' <=> Owns(q, l) /\ q # p
  BY SchedulerAssumption
<1>4. QED
  BY <1>1, <1>2, <1>3

(* The scan's grant: a sleeper on a clear process lock becomes its owner; an *)
(* interrupt lock changes no owner.                                          *)
LEMMA GrantOwner ==
    ASSUME TypeOK, LockInv, NEW q \in Slots, ScanLock(q)
    PROVE  \/ UNCHANGED <<lock, state, lockOf, pc, sect>>
           \/ /\ sect[q] \in Locks
              /\ lockOf[q] = Mutex(sect[q]) /\ lock[Mutex(sect[q])] = 0
              /\ lock' = [lock EXCEPT ![Mutex(sect[q])] = 1]
              /\ \A p \in Slots, l \in Locks :
                    Owns(p, l)' <=> Owns(p, l) \/ (p = q /\ l = sect[q])
           \/ /\ sect[q] \in Locks
              /\ lockOf[q] = IrqWord(sect[q]) /\ lock[IrqWord(sect[q])] = 0
              /\ lock' = [lock EXCEPT ![IrqWord(sect[q])] = 1]
              /\ \A p \in Slots, l \in Locks : Owns(p, l)' <=> Owns(p, l)
<1> USE DEF LockInv, Placed, TypeOK, Sections, ringVars, procVars, Looking, Owns, Sleeps
<1>1. CASE lock[lockOf[q]] # 0
  BY <1>1 DEF ScanLock
<1>2. CASE lock[lockOf[q]] = 0
  <2>1. /\ state[q] = "LOCK" /\ state' = [state EXCEPT ![q] = "RUN"]
        /\ lock' = [lock EXCEPT ![lockOf[q]] = 1]
        /\ UNCHANGED <<lockOf, pc, sect>>
    BY <1>2 DEF ScanLock
  <2>2. sect[q] \in Locks /\ pc[q] \in Sections
    BY <2>1
  <2>3. CASE lockOf[q] = Mutex(sect[q])
    <3>1. \A p \in Slots, l \in Locks :
            Owns(p, l)' <=> Owns(p, l) \/ (p = q /\ l = sect[q])
      BY <2>1, <2>2, <2>3, WordFacts
    <3>2. QED
      BY <1>2, <2>1, <2>2, <2>3, <3>1
  <2>4. CASE lockOf[q] = IrqWord(sect[q])
    <3>1. \A p \in Slots, l \in Locks : Owns(p, l)' <=> Owns(p, l)
      BY <2>1, <2>2, <2>4, WordFacts
    <3>2. QED
      BY <1>2, <2>1, <2>2, <2>4, <3>1
  <2>5. QED
    BY <2>1, <2>3, <2>4
<1>3. QED
  BY <1>1, <1>2

LEMMA LocksNext ==
    TypeOK /\ LockInv /\ [Next]_vars => MutualExclusion' /\ LockTold'
<1> SUFFICES ASSUME TypeOK, LockInv, [Next]_vars
             PROVE  MutualExclusion' /\ LockTold'
  OBVIOUS
<1> USE DEF MutualExclusion, LockTold
<1>1. CASE ~Releases /\ ~Grants
  BY <1>1, OwnersKept DEF LockInv
<1>2. ASSUME NEW p \in Slots, Unlock(p) PROVE MutualExclusion' /\ LockTold'
  <2>1. \A l \in Locks : lock'[Mutex(l)] = IF l = sect[p] THEN 0 ELSE lock[Mutex(l)]
    BY <1>2, UnlockOwner, WordFacts DEF TypeOK
  <2>2. QED
    BY <1>2, <2>1, UnlockOwner DEF LockInv, Owns
<1>3. ASSUME NEW q \in Slots, ScanLock(q) PROVE MutualExclusion' /\ LockTold'
  <2>1. CASE UNCHANGED <<lock, state, lockOf, pc, sect>>
    BY <2>1 DEF LockInv, Owns, Sleeps
  <2>2. CASE /\ sect[q] \in Locks
             /\ lock[Mutex(sect[q])] = 0
             /\ lock' = [lock EXCEPT ![Mutex(sect[q])] = 1]
             /\ \A p \in Slots, l \in Locks :
                   Owns(p, l)' <=> Owns(p, l) \/ (p = q /\ l = sect[q])
    <3>1. \A l \in Locks : lock'[Mutex(l)] = IF l = sect[q] THEN 1 ELSE lock[Mutex(l)]
      BY <2>2, WordFacts DEF TypeOK
    <3>2. \A p \in Slots : ~Owns(p, sect[q])
      BY <2>2 DEF LockInv
    <3>3. QED
      BY <2>2, <3>1, <3>2 DEF LockInv
  <2>3. CASE /\ sect[q] \in Locks
             /\ lock' = [lock EXCEPT ![IrqWord(sect[q])] = 1]
             /\ \A p \in Slots, l \in Locks : Owns(p, l)' <=> Owns(p, l)
    <3>1. \A l \in Locks : lock'[Mutex(l)] = lock[Mutex(l)]
      BY <2>3, WordFacts DEF TypeOK
    <3>2. QED
      BY <2>3, <3>1 DEF LockInv
  <2>4. QED
    BY <1>3, <2>1, <2>2, <2>3, GrantOwner
<1>4. QED
  BY <1>1, <1>2, <1>3 DEF Releases, Grants

-----------------------------------------------------------------------------
(* Expecting(p, l): p, owner of l, has given a command and not yet seen the  *)
(* interrupt.                                                                *)
Expecting(p, l) == Owns(p, l) /\ (\/ pc[p] \in {"armed", "wait1", "wait2"}
                                  \/ Sleeps(p, IrqWord(l)))

LEMMA AnsweredNext == TypeOK /\ LockInv /\ [Next]_vars => Answered'
<1> SUFFICES ASSUME TypeOK, LockInv, [Next]_vars, NEW l \in Locks, pend'[l]
             PROVE  lock'[IrqWord(l)] = 1 /\ \E p \in Slots : Expecting(p, l)'
  BY DEF Answered, Expecting
<1> DEFINE Goal == lock'[IrqWord(l)] = 1 /\ \E p \in Slots : Expecting(p, l)'
<1> USE SchedulerAssumption, WordFacts
        DEF LockInv, Placed, TypeOK, Sections, ringVars, procVars, At, Goto, Enabled, Looking
<1>1. ASSUME pend[l]
      PROVE  lock[IrqWord(l)] = 1 /\ \E p \in Slots : Expecting(p, l)
  BY <1>1 DEF Answered, Expecting
<1>2. ASSUME NEW p \in Slots, IntrArm(p) PROVE Goal
  <2>1. CASE l = sect[p]
    <3>1. lock'[IrqWord(l)] = 1 /\ pc'[p] = "armed"
      BY <1>2, <2>1 DEF IntrArm
    <3>2. Owns(p, l)'
      BY <1>2, <2>1 DEF IntrArm, Owns, Sleeps, AwakeOnCpu
    <3>3. QED
      BY <3>1, <3>2 DEF Expecting
  <2>2. CASE l # sect[p]
    <3>1. pend[l] /\ sect[p] \in Locks
      BY <1>2, <2>2 DEF IntrArm
    <3>2. lock'[IrqWord(l)] = lock[IrqWord(l)]
      BY <1>2, <2>2, <3>1 DEF IntrArm
    <3>3. ASSUME NEW w \in Slots, Expecting(w, l) PROVE Expecting(w, l)'
      BY <1>2, <2>2, <3>3 DEF IntrArm, Expecting, Owns, Sleeps
    <3>4. QED
      BY <1>1, <3>1, <3>2, <3>3
  <2>3. QED
    BY <2>1, <2>2
<1>3. ASSUME NEW p \in Slots, IntrStore(p) \/ IntrShut(p) \/ IntrSleep(p) \/ IntrInt(p)
      PROVE  Goal
  <2>1. pend[l] /\ lock' = lock
    BY <1>3 DEF IntrStore, IntrShut, IntrSleep, IntrInt
  <2>2. ASSUME NEW w \in Slots, Expecting(w, l) PROVE Expecting(w, l)'
    <3>1. CASE IntrStore(p)
      BY <2>2, <3>1 DEF IntrStore, Expecting, Owns, Sleeps
    <3>2. CASE IntrShut(p)
      BY <2>2, <3>2 DEF IntrShut, Expecting, Owns, Sleeps
    <3>3. CASE IntrSleep(p)
      BY <2>2, <3>3 DEF IntrSleep, Expecting, Owns, Sleeps
    <3>4. CASE IntrInt(p)
      BY <2>2, <3>4 DEF IntrInt, EnterScan, Expecting, Owns, Sleeps
    <3>5. QED
      BY <1>3, <3>1, <3>2, <3>3, <3>4
  <2>3. QED
    BY <1>1, <2>1, <2>2
<1>4. ASSUME NEW p \in Slots, IntrOpen(p) PROVE Goal
  <2>1. pend[l] /\ lock' = lock
    BY <1>4 DEF IntrOpen
  <2>2. sect[p] \in Locks /\ lock[IrqWord(sect[p])] = 0
    BY <1>4 DEF IntrOpen
  <2>3. l # sect[p]
    BY <1>1, <2>1, <2>2
  <2>4. ASSUME NEW w \in Slots, Expecting(w, l) PROVE Expecting(w, l)'
    BY <1>4, <2>3, <2>4 DEF IntrOpen, Expecting, Owns, Sleeps
  <2>5. QED
    BY <1>1, <2>1, <2>4
<1>5. ASSUME NEW m \in Locks, Irq(m) PROVE Goal
  <2>1. l # m /\ pend[l]
    BY <1>5 DEF Irq
  <2>2. lock'[IrqWord(l)] = lock[IrqWord(l)]
    BY <1>5, <2>1 DEF Irq
  <2>3. ASSUME NEW w \in Slots, Expecting(w, l) PROVE Expecting(w, l)'
    BY <1>5, <2>3 DEF Irq, Expecting, Owns, Sleeps
  <2>4. QED
    BY <1>1, <2>1, <2>2, <2>3
<1>6. ASSUME NEW p \in Slots, Unlock(p) PROVE Goal
  <2>1. pend[l] /\ sect[p] \in Locks /\ Owns(p, sect[p]) /\ state[p] # "LOCK"
    BY <1>6, UnlockOwner DEF Unlock, AwakeOnCpu
  <2>2. lock'[IrqWord(l)] = lock[IrqWord(l)]
    BY <1>6, <2>1 DEF Unlock
  <2>3. ASSUME NEW w \in Slots, Expecting(w, l) PROVE w # p /\ Expecting(w, l)'
    BY <1>6, <2>1, <2>3 DEF Unlock, Expecting, Owns, Sleeps
  <2>4. QED
    BY <1>1, <2>1, <2>2, <2>3
<1>7. ASSUME NEW q \in Slots, ScanLock(q) PROVE Goal
  <2>1. pend[l]
    BY <1>7 DEF ScanLock
  <2>2. lock[lockOf[q]] = 0 => lockOf[q] # IrqWord(l)
    BY <1>1, <2>1
  <2>3. lock'[IrqWord(l)] = lock[IrqWord(l)]
    BY <1>7, <2>2 DEF ScanLock
  <2>4. ASSUME NEW w \in Slots, Expecting(w, l) PROVE Expecting(w, l)'
    BY <1>7, <2>2, <2>4 DEF ScanLock, Expecting, Owns, Sleeps
  <2>5. QED
    BY <1>1, <2>1, <2>3, <2>4
<1>8. ASSUME NEW p \in Slots,
             \/ \E m \in Locks : LockStore(p, m)
             \/ \E ticks \in WaitTicks : WaitStore(p, ticks)
             \/ Exit(p) \/ CreateAlloc(p)
      PROVE  Goal
  <2>1. pend[l] /\ lock' = lock
    BY <1>8 DEF LockStore, WaitStore, Exit, CreateAlloc
  <2>2. ASSUME NEW w \in Slots, Expecting(w, l) PROVE Expecting(w, l)'
    <3>1. CASE \E m \in Locks : LockStore(p, m)
      BY <2>2, <3>1 DEF LockStore, Expecting, Owns, Sleeps
    <3>2. CASE \E ticks \in WaitTicks : WaitStore(p, ticks)
      BY <2>2, <3>2 DEF WaitStore, Expecting, Owns, Sleeps
    <3>3. CASE Exit(p)
      BY <2>2, <3>3 DEF Exit, Expecting, Owns, Sleeps
    <3>4. CASE CreateAlloc(p)
      BY <2>2, <3>4 DEF CreateAlloc, Expecting, Owns, Sleeps
    <3>5. QED
      BY <1>8, <3>1, <3>2, <3>3, <3>4
  <2>3. QED
    BY <1>1, <2>1, <2>2
<1>9. ASSUME NEW p \in Slots,
             \/ LockSleep(p) \/ LockInt(p) \/ WaitSleep(p) \/ WaitInt(p)
             \/ CreateLoad(p) \/ CreateLink(p)
      PROVE  Goal
  <2>1. pend[l] /\ lock' = lock
    BY <1>9 DEF LockSleep, LockInt, WaitSleep, WaitInt, CreateLoad, CreateLink
  <2>2. ASSUME NEW w \in Slots, Expecting(w, l) PROVE Expecting(w, l)'
    <3>1. CASE LockSleep(p)
      BY <2>2, <3>1 DEF LockSleep, Expecting, Owns, Sleeps
    <3>2. CASE LockInt(p)
      BY <2>2, <3>2 DEF LockInt, EnterScan, Expecting, Owns, Sleeps
    <3>3. CASE WaitSleep(p) \/ WaitInt(p)
      BY <2>2, <3>3 DEF WaitSleep, WaitInt, EnterScan, Expecting, Owns, Sleeps
    <3>4. CASE CreateLoad(p) \/ CreateLink(p)
      BY <2>2, <3>4 DEF CreateLoad, CreateLink, Expecting, Owns, Sleeps
    <3>5. QED
      BY <1>9, <3>1, <3>2, <3>3, <3>4
  <2>3. QED
    BY <1>1, <2>1, <2>2
<1>10. ASSUME \/ BootDone \/ Timer \/ ScanStale \/ Halted \/ UNCHANGED vars
              \/ \E q \in Slots : ScanRun(q) \/ ScanWait(q) \/ ScanExit(q)
       PROVE  Goal
  <2>1. pend[l] /\ lock' = lock
    BY <1>10 DEF BootDone, Timer, ScanStale, Halted, vars, ScanRun, ScanWait, ScanExit
  <2>2. ASSUME NEW w \in Slots, Expecting(w, l) PROVE Expecting(w, l)'
    <3>1. CASE BootDone \/ Timer \/ ScanStale \/ Halted \/ UNCHANGED vars
      BY <2>2, <3>1 DEF BootDone, Timer, EnterScan, ScanStale, Halted, vars,
                        Expecting, Owns, Sleeps
    <3>2. ASSUME NEW q \in Slots, ScanRun(q) \/ ScanWait(q) \/ ScanExit(q)
          PROVE  Expecting(w, l)'
      BY <2>2, <3>2 DEF ScanRun, ScanWait, ScanExit, Expecting, Owns, Sleeps
    <3>3. QED
      BY <1>10, <3>1, <3>2
  <2>3. QED
    BY <1>1, <2>1, <2>2
<1>11. QED
  BY <1>2, <1>3, <1>4, <1>5, <1>6, <1>7, <1>8, <1>9, <1>10
  DEF Next, Begin, Continue, Scan

-----------------------------------------------------------------------------
(* process.c, lock.c: the strengthened invariant holds in every state.       *)
THEOREM LockInvariant == Spec => [](TypeOK /\ LockInv)
<1>1. Init => TypeOK /\ LockInv
  BY TypeInit, LockInvInit
<1>2. TypeOK /\ LockInv /\ [Next]_vars => TypeOK' /\ LockInv'
  BY TypeNext, PlacedNext, AwakeNext, LocksNext, AnsweredNext DEF LockInv
<1>3. QED
  BY <1>1, <1>2, PTL DEF Spec

(* Two processes never use one ATA bus at a time.                            *)
THEOREM MutexHolds == Spec => []MutualExclusion
<1>1. LockInv => MutualExclusion
  BY DEF LockInv
<1>2. QED
  BY <1>1, LockInvariant, PTL

(* The byte of a process lock is set exactly while a process owns the lock.  *)
THEOREM LockByteTrue == Spec => []LockTold
<1>1. LockInv => LockTold
  BY DEF LockInv
<1>2. QED
  BY <1>1, LockInvariant, PTL

(* A process that returns from intr_lock finds its drive's answer.           *)
THEOREM AnswerReady == Spec => []DataReady
<1>1. LockInv => DataReady
  BY DEF LockInv, Answered, MutualExclusion, DataReady
<1>2. QED
  BY <1>1, LockInvariant, PTL

-----------------------------------------------------------------------------
(* A process on its way through process_create is in the ring and runs; the  *)
(* one it has begun to make is not and does not.  Between the two links both *)
(* point to the same successor, unless that has been reaped.                 *)
Creating == \A p \in Slots :
    /\ fresh[p] # NoProc <=> pc[p] \in {"create1", "create2"}
    /\ pc[p] \in {"create1", "create2"} =>
        /\ p \in Linked /\ state[p] = "RUN"
        /\ state[fresh[p]] = "RUN" /\ pc[fresh[p]] = "run"
        /\ \A q \in Slots : fresh[q] = fresh[p] => q = p
    /\ pc[p] = "create2" =>
        fresh[p] \in stale \/ (p \notin stale /\ next[fresh[p]] = next[p])
    /\ p \notin Linked => \/ next[p] = NoProc
                          \/ \E r \in Slots : pc[r] = "create2" /\ fresh[r] = p

(* The CPU returns to a process that runs, or is about to give it up.        *)
OnCpu ==
    /\ last = NoProc => \/ state[current] = "RUN"
                        \/ pc[current] \in {"lock2", "wait3", "sleep2", "dead"}
    /\ \A p \in Slots : state[p] = "WAIT" => pc[p] \in {"sleep2", "run"}

(* Process 0 is alone until it has made its process, and idles from then on. *)
Boot ==
    /\ state[Idle] \in {"RUN", "LOCK"} /\ pc[Idle] \notin {"sleep1", "sleep2", "dead"}
    /\ pc[Idle] # "idle" => Linked = {Idle} /\ next[Idle] = Idle /\ stale = {}

Links ==
    /\ {Idle, current} \subseteq Linked /\ last \in Linked \cup {NoProc}
    /\ \A p \in Linked \ stale : next[p] \in Linked
    /\ \A p, q \in Linked \ stale : next[p] = next[q] => p = q

(* There is one ring: whoever follows links that are not stale and comes     *)
(* back has met every process.                                               *)
OneRing == \A S \in SUBSET Linked :
    S = {} \/ S = Linked \/ \E x \in S : x \in stale \/ next[x] \notin S

(* The scan has passed no process that exits, and not process 0: it idles.   *)
ScanPath == last # NoProc =>
    /\ last # current => state[last] # "EXIT"
    /\ current # Idle => \E P \in SUBSET (Linked \ {Idle}) :
        /\ {current, last} \subseteq P
        /\ \A x \in P \ {last} : x \notin stale /\ next[x] \in P
        /\ \A x \in P \ {current} : state[x] # "EXIT"

Sound == ~raced => stale = {} /\ ~crashed

RingInv == Creating /\ OnCpu /\ Boot /\ Links /\ OneRing /\ ScanPath /\ Sound

-----------------------------------------------------------------------------
LEMMA RingInit == Init => RingInv
<1> SUFFICES ASSUME Init PROVE RingInv
  OBVIOUS
<1> USE SchedulerAssumption DEF Init
<1>1. Linked = {Idle}
  BY DEF Linked
<1>2. Creating /\ OnCpu /\ Boot /\ Links /\ Sound /\ ScanPath
  BY <1>1 DEF Creating, OnCpu, Boot, Links, Sound, ScanPath
<1>3. OneRing
  BY <1>1 DEF OneRing
<1>4. QED
  BY <1>2, <1>3 DEF RingInv

(* Steps that leave the ring, the makers of processes and the scan alone.    *)
Plain ==
    /\ UNCHANGED <<next, stale, raced, crashed, fresh, current>>
    /\ last' = last \/ (last = NoProc /\ last' = current)
    /\ last # NoProc => state' = state
    /\ state' \in [Slots -> States] /\ \A p \in Slots : state'[p] = "FREE" <=> state[p] = "FREE"
    /\ \A p \in Slots : pc[p] \in {"create1", "create2"} =>
            pc'[p] = pc[p] /\ pc'[fresh[p]] = pc[fresh[p]]
            /\ state'[p] = state[p] /\ state'[fresh[p]] = state[fresh[p]]
    /\ \A p \in Slots : pc'[p] \in {"create1", "create2"} => pc[p] = pc'[p]

(* The scan passes over q.                                                   *)
Pass(q) ==
    /\ Looking(q) /\ state[q] \in {"LOCK", "WAIT"} /\ last' = q
    /\ state' = state \/ state' = [state EXCEPT ![q] = "RUN"]
    /\ UNCHANGED <<next, stale, raced, crashed, fresh, current, pc>>

Making(p) == CreateAlloc(p) \/ CreateLoad(p) \/ CreateLink(p)

LEMMA StepKinds ==
    ASSUME TypeOK, LockInv, RingInv, [Next]_vars
    PROVE  \/ Plain
           \/ \E p \in Slots : Making(p)
           \/ \E q \in Slots : Pass(q) \/ ScanRun(q) \/ ScanExit(q)
           \/ ScanStale
<1> USE DEF TypeOK, LockInv, Placed, RingInv, ringVars, procVars, At, Goto, Enabled, States
<1> DEFINE Kinds == \/ Plain
                    \/ \E p \in Slots : Making(p)
                    \/ \E q \in Slots : Pass(q) \/ ScanRun(q) \/ ScanExit(q)
                    \/ ScanStale
<1>0. \A p \in Slots : pc[p] \in {"create1", "create2"} =>
          fresh[p] \in Slots /\ fresh[p] # current
  BY DEF Creating, Links, Linked
<1>1. ASSUME NEW p \in Slots, Begin(p) PROVE Kinds
  <2>1. ASSUME NEW l \in Locks, LockStore(p, l) PROVE Plain
    BY <1>0, <2>1 DEF LockStore, Plain
  <2>2. ASSUME NEW ticks \in WaitTicks, WaitStore(p, ticks) PROVE Plain
    BY <1>0, <2>2 DEF WaitStore, Plain
  <2>3. CASE IntrArm(p)
    BY <1>0, <2>3 DEF IntrArm, Plain
  <2>4. CASE Exit(p)
    BY <1>0, <2>4 DEF Exit, Plain, OnCpu
  <2>5. QED
    BY <1>1, <2>1, <2>2, <2>3, <2>4 DEF Begin, Making
<1>2. ASSUME NEW p \in Slots, Continue(p) PROVE Kinds
  <2>1. CASE LockSleep(p) \/ LockInt(p)
    BY <1>0, <2>1 DEF LockSleep, LockInt, EnterScan, Plain, OnCpu
  <2>2. CASE IntrStore(p) \/ IntrOpen(p) \/ IntrShut(p)
    BY <1>0, <2>2 DEF IntrStore, IntrOpen, IntrShut, Plain
  <2>3. CASE IntrSleep(p) \/ IntrInt(p)
    BY <1>0, <2>3 DEF IntrSleep, IntrInt, EnterScan, Plain, OnCpu
  <2>4. CASE WaitSleep(p) \/ WaitInt(p)
    BY <1>0, <2>4 DEF WaitSleep, WaitInt, EnterScan, Plain, OnCpu
  <2>5. QED
    BY <1>2, <2>1, <2>2, <2>3, <2>4 DEF Continue, Making
<1>3. ASSUME NEW p \in Slots, Unlock(p) PROVE Plain
  BY <1>0, <1>3 DEF Unlock, Plain
<1>4. CASE BootDone \/ Timer
  BY <1>0, <1>4, SchedulerAssumption DEF BootDone, Timer, EnterScan, Plain
<1>5. ASSUME NEW l \in Locks, Irq(l) PROVE Plain
  BY <1>5 DEF Irq, Plain
<1>6. ASSUME NEW q \in Slots, ScanLock(q) \/ ScanWait(q) PROVE Pass(q)
  BY <1>6 DEF ScanLock, ScanWait, Pass
<1>7. CASE Halted \/ UNCHANGED vars
  BY <1>7 DEF Halted, vars, Plain
<1>8. QED
  BY <1>1, <1>2, <1>3, <1>4, <1>5, <1>6, <1>7 DEF Next, Scan

-----------------------------------------------------------------------------
(* Who is in the ring after a step.                                          *)
LEMMA LinkedNext ==
    ASSUME TypeOK, LockInv, RingInv
    PROVE  /\ Plain => Linked' = Linked
           /\ \A p \in Slots :
                /\ CreateAlloc(p) \/ CreateLoad(p) => Linked' = Linked
                /\ CreateLink(p) => /\ fresh[p] \in Slots \ Linked /\ p \in Linked
                                    /\ Linked' = Linked \cup {fresh[p]}
           /\ \A q \in Slots :
                /\ Pass(q) \/ ScanRun(q) => Linked' = Linked
                /\ ScanExit(q) => Linked' = Linked \ {q}
           /\ ScanStale => Linked' = Linked
<1> USE DEF Linked, RingInv, TypeOK, States, ringVars, procVars, At, Goto, Enabled, Looking
<1>1. Plain => Linked' = Linked
  BY DEF Plain
<1>2. ASSUME NEW p \in Slots, CreateAlloc(p) \/ CreateLoad(p) PROVE Linked' = Linked
  <2>1. CASE CreateAlloc(p)
    <3>1. PICK new \in Slots : /\ state[new] = "FREE" /\ state' = [state EXCEPT ![new] = "RUN"]
                               /\ fresh' = [fresh EXCEPT ![p] = new]
      BY <2>1 DEF CreateAlloc
    <3>2. fresh[p] = NoProc
      BY <2>1 DEF CreateAlloc, Creating
    <3>3. QED
      BY <3>1, <3>2, SchedulerAssumption
  <2>2. CASE CreateLoad(p)
    BY <2>2 DEF CreateLoad
  <2>3. QED
    BY <1>2, <2>1, <2>2
<1>3. ASSUME NEW p \in Slots, CreateLink(p)
      PROVE  /\ fresh[p] \in Slots \ Linked /\ p \in Linked
             /\ Linked' = Linked \cup {fresh[p]}
  <2>1. pc[p] = "create2" /\ fresh' = [fresh EXCEPT ![p] = NoProc] /\ state' = state
    BY <1>3 DEF CreateLink
  <2>2. fresh[p] \in Slots \ Linked /\ p \in Linked /\ state[fresh[p]] = "RUN"
        /\ \A q \in Slots : fresh[q] = fresh[p] => q = p
    BY <2>1, SchedulerAssumption DEF Creating
  <2>3. QED
    BY <2>1, <2>2, SchedulerAssumption
<1>4. ASSUME NEW q \in Slots, Pass(q) \/ ScanRun(q) PROVE Linked' = Linked
  BY <1>4 DEF Pass, ScanRun
<1>5. ASSUME NEW q \in Slots, ScanExit(q) PROVE Linked' = Linked \ {q}
  BY <1>5 DEF ScanExit
<1>6. ScanStale => Linked' = Linked
  BY DEF ScanStale
<1>7. QED
  BY <1>1, <1>2, <1>3, <1>4, <1>5, <1>6

(* The process the scan frees is linked, exits, and neither began the scan   *)
(* nor is the one the scan stands at.                                        *)
LEMMA ExitShape ==
    ASSUME TypeOK, LockInv, RingInv, NEW q \in Slots, ScanExit(q)
    PROVE  /\ last \in Linked \ stale /\ q \in Linked /\ q = next[last] /\ state[q] = "EXIT"
           /\ q \notin {Idle, current, last}
<1>1. /\ last \in Linked \ stale /\ q \in Linked /\ q = next[last] /\ state[q] = "EXIT"
      /\ q # Idle /\ last # NoProc
  BY SchedulerAssumption DEF RingInv, Links, Boot, ScanExit, Looking
<1>2. q = last => q = current
  BY <1>1 DEF RingInv, ScanPath
<1>3. ASSUME q = current PROVE FALSE
  <2>1. PICK P \in SUBSET (Linked \ {Idle}) :
          /\ {current, last} \subseteq P
          /\ \A x \in P \ {last} : x \notin stale /\ next[x] \in P
    BY <1>1, <1>3 DEF RingInv, ScanPath
  <2>2. \A x \in P : x \notin stale /\ next[x] \in P
    BY <1>1, <1>3, <2>1
  <2>3. P \in SUBSET Linked /\ P # {} /\ P # Linked
    BY <2>1 DEF RingInv, Links
  <2>4. QED
    BY <2>2, <2>3 DEF RingInv, OneRing
<1>4. QED
  BY <1>1, <1>2, <1>3

LEMMA LinksNext == TypeOK /\ LockInv /\ RingInv /\ [Next]_vars => Links'
<1> SUFFICES ASSUME TypeOK, LockInv, RingInv, [Next]_vars PROVE Links'
  OBVIOUS
<1> USE SchedulerAssumption DEF RingInv, Links, TypeOK
<1>1. CASE Plain \/ ScanStale
  <2>1. Linked' = Linked
    BY <1>1, LinkedNext
  <2>2. UNCHANGED <<next, stale, current>> /\ last' \in {last, current}
    BY <1>1 DEF Plain, ScanStale, ringVars
  <2>3. QED
    BY <2>1, <2>2
<1>2. ASSUME NEW p \in Slots, CreateAlloc(p) PROVE Links'
  BY <1>2, LinkedNext DEF CreateAlloc, ringVars
<1>3. ASSUME NEW p \in Slots, CreateLoad(p) PROVE Links'
  <2>1. fresh[p] \in Slots \ Linked /\ Linked' = Linked
    BY <1>3, LinkedNext DEF CreateLoad, Creating, Linked, At
  <2>2. UNCHANGED <<current, last>> /\ \A x \in Linked : next'[x] = next[x] /\ (x \in stale' <=> x \in stale)
    BY <1>3, <2>1 DEF CreateLoad, Linked
  <2>3. QED
    BY <2>1, <2>2 DEF Linked
<1>4. ASSUME NEW p \in Slots, CreateLink(p) PROVE Links'
  <2> DEFINE new == fresh[p]
  <2>1. new \in Slots \ Linked /\ p \in Linked /\ Linked' = Linked \cup {new}
    BY <1>4, LinkedNext
  <2>2. new \in stale \/ (p \notin stale /\ next[new] = next[p])
    BY <1>4 DEF CreateLink, At, Creating
  <2>3. next' = [next EXCEPT ![p] = new] /\ stale' = stale \ {p} /\ UNCHANGED <<current, last>>
    BY <1>4 DEF CreateLink
  <2>4. p \in Slots /\ Linked \subseteq Slots
    BY DEF Linked
  <2> HIDE DEF new
  <2>5. next'[p] = new /\ \A x \in Slots \ {p} : next'[x] = next[x]
    BY <2>3, <2>4
  <2>6. \A x \in Linked' \ stale' : next'[x] \in Linked'
    BY <2>1, <2>2, <2>3, <2>4, <2>5
  <2>7. \A x, y \in Linked' \ stale' : next'[x] = next'[y] => x = y
    BY <2>1, <2>2, <2>3, <2>4, <2>5
  <2>8. QED
    BY <2>1, <2>3, <2>6, <2>7
<1>5. ASSUME NEW q \in Slots, Pass(q) \/ ScanRun(q) PROVE Links'
  <2>1. Linked' = Linked /\ q \in Linked
    BY <1>5, LinkedNext DEF Pass, ScanRun, Looking
  <2>2. QED
    BY <1>5, <2>1 DEF Pass, ScanRun, ringVars, procVars
<1>6. ASSUME NEW q \in Slots, ScanExit(q) PROVE Links'
  <2>1. /\ last \in Linked \ stale /\ q \in Linked /\ q = next[last]
        /\ q \notin {Idle, current, last} /\ Linked' = Linked \ {q}
    BY <1>6, LinkedNext, ExitShape
  <2>2. /\ next' = [next EXCEPT ![last] = next[q], ![q] = NoProc]
        /\ stale' = (stale \cup {s \in Slots \ {last} : next[s] = q}
                            \cup {s \in {last} : q \in stale}) \ {q}
        /\ UNCHANGED <<current, last>>
    BY <1>6 DEF ScanExit
  <2>3. Linked \subseteq Slots
    BY DEF Linked
  <2>4. next'[last] = next[q] /\ \A x \in Slots \ {last, q} : next'[x] = next[x]
    BY <2>1, <2>2, <2>3
  <2>5. \A x \in Linked' \ stale' : next'[x] \in Linked'
    BY <2>1, <2>2, <2>3, <2>4
  <2>6. \A x, y \in Linked' \ stale' : next'[x] = next'[y] => x = y
    BY <2>1, <2>2, <2>3, <2>4
  <2>7. QED
    BY <2>1, <2>2, <2>5, <2>6
<1>7. QED
  BY <1>1, <1>2, <1>3, <1>4, <1>5, <1>6, StepKinds DEF Making

(* What a new link and a reaped process do to the links.                     *)
LEMMA LinkShape ==
    ASSUME TypeOK, LockInv, RingInv, NEW p \in Slots, CreateLink(p)
    PROVE  /\ p = current /\ last = NoProc /\ last' = NoProc /\ current' = current
           /\ fresh[p] \in Slots \ Linked /\ p \in Linked
           /\ Linked' = Linked \cup {fresh[p]}
           /\ next'[p] = fresh[p] /\ \A x \in Slots \ {p} : next'[x] = next[x]
           /\ stale' = stale \ {p}
           /\ fresh[p] \in stale \/ (p \notin stale /\ next[fresh[p]] = next[p])
BY LinkedNext DEF TypeOK, RingInv, CreateLink, At, Enabled, Creating

LEMMA ReapShape ==
    ASSUME TypeOK, LockInv, RingInv, NEW q \in Slots, ScanExit(q)
    PROVE  /\ Linked' = Linked \ {q} /\ Linked \subseteq Slots
           /\ next'[last] = next[q] /\ \A x \in Slots \ {last, q} : next'[x] = next[x]
           /\ last \in stale' <=> q \in stale
           /\ \A x \in Slots \ {last, q} : x \in stale' <=> x \in stale \/ next[x] = q
           /\ UNCHANGED <<current, last>>
<1>1. last \in Linked /\ last \notin stale /\ last # q /\ Linked \subseteq Slots
  BY ExitShape DEF Linked
<1>2. QED
  BY <1>1, LinkedNext DEF TypeOK, ScanExit

LEMMA OneRingNext == TypeOK /\ LockInv /\ RingInv /\ [Next]_vars => OneRing'
<1> SUFFICES ASSUME TypeOK, LockInv, RingInv, [Next]_vars,
                    NEW S \in SUBSET Linked', S # {},
                    \A x \in S : x \notin stale' /\ next'[x] \in S
             PROVE  S = Linked'
  BY DEF OneRing
<1>1. ASSUME NEW T \in SUBSET Linked, T # {}, \A x \in T : x \notin stale /\ next[x] \in T
      PROVE  T = Linked
  BY <1>1 DEF RingInv, OneRing
<1>2. CASE Linked' = Linked /\ UNCHANGED <<next, stale>>
  BY <1>1, <1>2
<1>3. ASSUME NEW p \in Slots, CreateLoad(p) PROVE S = Linked'
  <2>1. fresh[p] \in Slots \ Linked /\ Linked' = Linked
    BY <1>3, LinkedNext, SchedulerAssumption DEF TypeOK, RingInv, CreateLoad, Creating, Linked, At
  <2>2. \A x \in Linked : next'[x] = next[x] /\ (x \in stale' <=> x \in stale)
    BY <1>3, <2>1 DEF TypeOK, CreateLoad, Linked
  <2>3. QED
    BY <1>1, <2>1, <2>2
<1>4. ASSUME NEW p \in Slots, CreateLink(p) PROVE S = Linked'
  <2> DEFINE new == fresh[p]
             T == S \ {new}
  <2>1. /\ new \in Slots \ Linked /\ p \in Linked /\ Linked' = Linked \cup {new}
        /\ next'[p] = new /\ \A x \in Slots \ {p} : next'[x] = next[x]
        /\ stale' = stale \ {p}
        /\ new \in stale \/ (p \notin stale /\ next[new] = next[p])
    BY <1>4, LinkShape
  <2>2. /\ \A x \in Linked \ stale : next[x] \in Linked
        /\ Linked \subseteq Slots
    BY DEF RingInv, Links, Linked
  <2> HIDE DEF new
  <2>3. CASE new \notin S
    <3>1. p \notin S
      BY <2>1, <2>3
    <3>2. S = Linked
      BY <1>1, <2>1, <2>2, <2>3, <3>1
    <3>3. QED
      BY <2>1, <3>1, <3>2
  <2>4. CASE new \in S
    <3>1. p \notin stale /\ next[new] = next[p] /\ next[p] \in T
      BY <2>1, <2>2, <2>4
    <3>2. \A x \in T : x \notin stale /\ next[x] \in T
      BY <2>1, <2>2, <3>1
    <3>3. T = Linked
      BY <1>1, <2>1, <3>1, <3>2
    <3>4. QED
      BY <2>1, <2>4, <3>3
  <2>5. QED
    BY <2>3, <2>4
<1>5. ASSUME NEW q \in Slots, ScanExit(q) PROVE S = Linked'
  <2>1. /\ last \in Linked \ stale /\ q \in Linked /\ q = next[last]
        /\ q # last /\ Linked' = Linked \ {q} /\ Linked \subseteq Slots
        /\ next'[last] = next[q] /\ \A x \in Slots \ {last, q} : next'[x] = next[x]
        /\ last \in stale' <=> q \in stale
        /\ \A x \in Slots \ {last, q} : x \in stale' <=> x \in stale \/ next[x] = q
    BY <1>5, ExitShape, ReapShape
  <2>2. CASE last \notin S
    <3>1. S = Linked
      BY <1>1, <2>1, <2>2
    <3>2. QED
      BY <2>1, <2>2, <3>1
  <2>3. CASE last \in S
    <3> DEFINE T == S \cup {q}
    <3>1. \A x \in T : x \notin stale /\ next[x] \in T
      BY <2>1, <2>3
    <3>2. T \in SUBSET Linked /\ T # {}
      BY <2>1, <2>3
    <3>3. q \notin S
      BY <2>1
    <3> HIDE DEF T
    <3>4. T = Linked
      BY <1>1, <3>1, <3>2
    <3>5. QED
      BY <2>1, <3>3, <3>4 DEF T
  <2>4. QED
    BY <2>2, <2>3
<1>6. CASE Plain \/ ScanStale
  BY <1>2, <1>6, LinkedNext DEF Plain, ScanStale, ringVars
<1>7. ASSUME NEW p \in Slots, CreateAlloc(p) PROVE S = Linked'
  BY <1>2, <1>7, LinkedNext DEF CreateAlloc, ringVars
<1>8. ASSUME NEW q \in Slots, Pass(q) \/ ScanRun(q) PROVE S = Linked'
  BY <1>2, <1>8, LinkedNext DEF Pass, ScanRun, ringVars
<1>9. QED
  BY <1>3, <1>4, <1>5, <1>6, <1>7, <1>8, StepKinds DEF Making

(* Whoever the scan passes while another process began it is not process 0.  *)
LEMMA ScanPathNext == TypeOK /\ LockInv /\ RingInv /\ [Next]_vars => ScanPath'
<1> SUFFICES ASSUME TypeOK, LockInv, RingInv, [Next]_vars, last' # NoProc PROVE ScanPath'
  BY DEF ScanPath
<1> USE SchedulerAssumption
<1>1. CASE last' = current /\ current' = current /\ Linked' = Linked
  <2>1. current' # Idle => {current} \in SUBSET (Linked' \ {Idle})
    BY <1>1 DEF RingInv, Links
  <2>2. QED
    BY <1>1, <2>1 DEF ScanPath
<1>2. CASE last' = last /\ current' = current /\ Linked' = Linked /\ UNCHANGED <<state, next, stale>>
  BY <1>2 DEF RingInv, ScanPath
<1>3. ASSUME NEW q \in Slots, Pass(q) PROVE ScanPath'
  <2>1. /\ last # NoProc /\ last \notin stale /\ q = next[last] /\ q \in Linked /\ Linked' = Linked
        /\ last' = q /\ UNCHANGED <<next, stale, current>>
        /\ state[q] \in {"LOCK", "WAIT"}
        /\ state'[q] # "EXIT" /\ \A x \in Slots \ {q} : state'[x] = state[x]
    BY <1>3, LinkedNext DEF Pass, Looking, RingInv, Links, TypeOK
  <2>2. CASE current = Idle
    BY <2>1, <2>2 DEF ScanPath
  <2>3. CASE current # Idle
    <3>1. pc[Idle] = "idle"
      BY <2>3 DEF RingInv, Boot, Links
    <3>2. q # Idle
      BY <2>1, <3>1 DEF LockInv, Placed, RingInv, Boot
    <3>3. PICK P \in SUBSET (Linked \ {Idle}) :
            /\ {current, last} \subseteq P
            /\ \A x \in P \ {last} : x \notin stale /\ next[x] \in P
            /\ \A x \in P \ {current} : state[x] # "EXIT"
      BY <2>1, <2>3 DEF RingInv, ScanPath
    <3> DEFINE R == P \cup {q}
    <3>4. R \in SUBSET (Linked' \ {Idle})
      BY <2>1, <3>2, <3>3
    <3>5. \A x \in R \ {q} : x \notin stale' /\ next'[x] \in R
      BY <2>1, <3>3
    <3>6. \A x \in R \ {current} : state'[x] # "EXIT"
      BY <2>1, <3>3 DEF Linked
    <3>7. {current', last'} \subseteq R
      BY <2>1, <3>3
    <3> HIDE DEF R
    <3>8. QED
      BY <2>1, <3>4, <3>5, <3>6, <3>7 DEF ScanPath
  <2>4. QED
    BY <2>2, <2>3
<1>4. ASSUME NEW q \in Slots, ScanExit(q) PROVE ScanPath'
  <2>1. /\ last \in Linked \ stale /\ q \in Linked /\ q = next[last] /\ state[q] = "EXIT"
        /\ q \notin {Idle, last, current} /\ Linked' = Linked \ {q} /\ Linked \subseteq Slots
        /\ next'[last] = next[q] /\ \A x \in Slots \ {last, q} : next'[x] = next[x]
        /\ \A x \in Slots \ {last, q} : x \in stale' <=> x \in stale \/ next[x] = q
        /\ UNCHANGED <<current, last>> /\ last # NoProc
    BY <1>4, ExitShape, ReapShape
  <2>0. \A x \in Slots \ {q} : state'[x] = state[x]
    BY <1>4 DEF ScanExit, TypeOK
  <2>2. last' # current' => state'[last'] # "EXIT"
    BY <2>0, <2>1 DEF RingInv, ScanPath
  <2>3. CASE current = Idle
    BY <2>1, <2>2, <2>3 DEF ScanPath
  <2>4. CASE current # Idle
    <3>1. PICK P \in SUBSET (Linked \ {Idle}) :
            /\ {current, last} \subseteq P
            /\ \A x \in P \ {last} : x \notin stale /\ next[x] \in P
            /\ \A x \in P \ {current} : state[x] # "EXIT"
      BY <2>1, <2>4 DEF RingInv, ScanPath
    <3>2. q \notin P /\ P \in SUBSET (Linked' \ {Idle})
      BY <2>1, <3>1
    <3>3. \A x \in P \ {last} : x \notin stale' /\ next'[x] \in P
      BY <2>1, <3>1, <3>2
    <3>4. \A x \in P \ {current} : state'[x] # "EXIT"
      BY <2>0, <2>1, <3>1, <3>2
    <3>5. QED
      BY <2>1, <2>2, <3>1, <3>2, <3>3, <3>4 DEF ScanPath
  <2>5. QED
    BY <2>3, <2>4
<1>5. CASE Plain
  BY <1>1, <1>2, <1>5, LinkedNext DEF Plain
<1>6. CASE ScanStale
  BY <1>2, <1>6, LinkedNext DEF ScanStale, ringVars
<1>7. ASSUME NEW p \in Slots PROVE ~Making(p)
  BY DEF Making, CreateAlloc, CreateLoad, CreateLink, At, Enabled
<1>8. \A q \in Slots : ~ScanRun(q)
  BY DEF ScanRun
<1>9. QED
  BY <1>3, <1>4, <1>5, <1>6, <1>7, <1>8, StepKinds

LEMMA SoundNext == TypeOK /\ LockInv /\ RingInv /\ [Next]_vars => Sound'
<1> SUFFICES ASSUME TypeOK, LockInv, RingInv, [Next]_vars, ~raced' PROVE stale' = {} /\ ~crashed'
  BY DEF Sound
<1>1. CASE UNCHANGED <<stale, raced, crashed>>
  BY <1>1 DEF RingInv, Sound
<1>2. ASSUME NEW p \in Slots, CreateLoad(p) \/ CreateLink(p) PROVE stale' = {} /\ ~crashed'
  BY <1>2 DEF CreateLoad, CreateLink, RingInv, Sound
<1>3. ASSUME NEW q \in Slots, ScanExit(q) PROVE stale' = {} /\ ~crashed'
  <2>1. ~raced /\ pc[last] # "create2" /\ ~crashed' /\ stale = {}
    BY <1>3 DEF ScanExit, RingInv, Sound
  <2>2. /\ last \in Linked \ stale /\ q \in Linked /\ q = next[last] /\ q # last
        /\ last \in stale' <=> q \in stale
        /\ \A x \in Slots \ {last, q} : x \in stale' <=> x \in stale \/ next[x] = q
    BY <1>3, ExitShape, ReapShape
  <2>3. q \notin stale' /\ stale' \subseteq Slots
    BY <1>3, <2>2 DEF ScanExit, TypeOK, Linked
  <2>4. ASSUME NEW x \in Slots \ {last, q}, next[x] = q PROVE FALSE
    <3>1. x \notin Linked
      BY <2>1, <2>2, <2>4 DEF RingInv, Links
    <3>2. PICK r \in Slots : pc[r] = "create2" /\ fresh[r] = x
      BY <2>2, <2>4, <3>1, SchedulerAssumption DEF RingInv, Creating, Linked
    <3>3. r \in Linked /\ next[r] = q
      BY <2>1, <2>4, <3>2 DEF RingInv, Creating
    <3>4. r = last
      BY <2>1, <2>2, <3>3 DEF RingInv, Links
    <3>5. QED
      BY <2>1, <3>2, <3>4
  <2>5. QED
    BY <2>1, <2>2, <2>3, <2>4
<1>4. CASE ScanStale
  BY <1>4 DEF ScanStale, ringVars, RingInv, Sound
<1>5. CASE Plain
  BY <1>1, <1>5 DEF Plain
<1>6. ASSUME NEW p \in Slots, CreateAlloc(p) PROVE stale' = {} /\ ~crashed'
  BY <1>1, <1>6 DEF CreateAlloc, ringVars
<1>7. ASSUME NEW q \in Slots, Pass(q) \/ ScanRun(q) PROVE stale' = {} /\ ~crashed'
  BY <1>1, <1>7 DEF Pass, ScanRun, ringVars
<1>8. QED
  BY <1>2, <1>3, <1>4, <1>5, <1>6, <1>7, StepKinds DEF Making

-----------------------------------------------------------------------------
LEMMA OnCpuNext == TypeOK /\ LockInv /\ RingInv /\ [Next]_vars => OnCpu'
<1> SUFFICES ASSUME TypeOK, LockInv, RingInv, [Next]_vars PROVE OnCpu'
  OBVIOUS
<1> USE SchedulerAssumption
        DEF LockInv, Placed, RingInv, OnCpu, TypeOK, Sections, ringVars, procVars,
            At, Goto, Enabled, Looking
<1>1. ASSUME NEW p \in Slots, Begin(p) PROVE OnCpu'
  BY <1>1 DEF Begin, LockStore, WaitStore, IntrArm, Exit, CreateAlloc
<1>2. ASSUME NEW p \in Slots, Continue(p) PROVE OnCpu'
  <2>1. CASE LockSleep(p) \/ LockInt(p) \/ IntrSleep(p) \/ IntrInt(p)
    BY <2>1 DEF LockSleep, LockInt, IntrSleep, IntrInt, EnterScan
  <2>2. CASE IntrStore(p) \/ IntrOpen(p) \/ IntrShut(p)
    BY <2>2 DEF IntrStore, IntrOpen, IntrShut
  <2>3. CASE WaitSleep(p) \/ WaitInt(p)
    BY <2>3 DEF WaitSleep, WaitInt, EnterScan
  <2>4. CASE CreateLoad(p) \/ CreateLink(p)
    BY <2>4 DEF CreateLoad, CreateLink
  <2>5. QED
    BY <1>2, <2>1, <2>2, <2>3, <2>4 DEF Continue
<1>3. ASSUME NEW p \in Slots, Unlock(p) PROVE OnCpu'
  BY <1>3 DEF Unlock
<1>4. ASSUME BootDone \/ Timer PROVE OnCpu'
  BY <1>4 DEF BootDone, Timer, EnterScan
<1>5. ASSUME NEW l \in Locks, Irq(l) PROVE OnCpu'
  BY <1>5 DEF Irq
<1>6. ASSUME NEW q \in Slots, ScanRun(q) \/ ScanLock(q) \/ ScanWait(q) \/ ScanExit(q)
      PROVE  OnCpu'
  BY <1>6 DEF ScanRun, ScanLock, ScanWait, ScanExit
<1>7. ASSUME ScanStale \/ Halted \/ UNCHANGED vars PROVE OnCpu'
  BY <1>7 DEF ScanStale, Halted, vars
<1>8. QED
  BY <1>1, <1>2, <1>3, <1>4, <1>5, <1>6, <1>7 DEF Next, Scan

(* While process 0 boots, no other process is there to step.                 *)
LEMMA BootNext == TypeOK /\ LockInv /\ RingInv /\ [Next]_vars => Boot'
<1> SUFFICES ASSUME TypeOK, LockInv, RingInv, [Next]_vars PROVE Boot'
  OBVIOUS
<1>1. Idle \in Linked /\ current \in Linked /\ Linked \subseteq Slots
  BY DEF RingInv, Links, Linked
<1> DEFINE Stays == /\ state'[Idle] \in {"RUN", "LOCK"}
                    /\ pc'[Idle] \notin {"sleep1", "sleep2", "dead"}
                    /\ pc[Idle] = "idle" => pc'[Idle] = "idle"
<1>2. Stays
  <2> USE <1>1, SchedulerAssumption
          DEF RingInv, Boot, TypeOK, ringVars, procVars, At, Goto, Enabled, Looking
  <2>1. ASSUME NEW p \in Slots, Begin(p) PROVE Stays
    BY <2>1 DEF Begin, LockStore, WaitStore, IntrArm, Exit, CreateAlloc
  <2>2. ASSUME NEW p \in Slots, Continue(p) PROVE Stays
    <3>1. CASE LockSleep(p) \/ LockInt(p) \/ IntrSleep(p) \/ IntrInt(p)
      BY <3>1 DEF LockSleep, LockInt, IntrSleep, IntrInt, EnterScan
    <3>2. CASE IntrStore(p) \/ IntrOpen(p) \/ IntrShut(p)
      BY <3>2 DEF IntrStore, IntrOpen, IntrShut
    <3>3. CASE WaitSleep(p) \/ WaitInt(p)
      BY <3>3 DEF WaitSleep, WaitInt, EnterScan
    <3>4. CASE CreateLoad(p) \/ CreateLink(p)
      BY <3>4 DEF CreateLoad, CreateLink
    <3>5. QED
      BY <2>2, <3>1, <3>2, <3>3, <3>4 DEF Continue
  <2>3. ASSUME NEW p \in Slots, Unlock(p) PROVE Stays
    BY <2>3 DEF Unlock
  <2>4. ASSUME BootDone \/ Timer PROVE Stays
    BY <2>4 DEF BootDone, Timer, EnterScan
  <2>5. ASSUME NEW l \in Locks, Irq(l) PROVE Stays
    BY <2>5 DEF Irq
  <2>6. ASSUME NEW q \in Slots, ScanRun(q) \/ ScanLock(q) \/ ScanWait(q) \/ ScanExit(q)
        PROVE  Stays
    BY <2>6 DEF ScanRun, ScanLock, ScanWait, ScanExit
  <2>7. ASSUME ScanStale \/ Halted \/ UNCHANGED vars PROVE Stays
    BY <2>7 DEF ScanStale, Halted, vars
  <2>8. QED
    BY <2>1, <2>2, <2>3, <2>4, <2>5, <2>6, <2>7 DEF Next, Scan
<1>3. ASSUME pc'[Idle] # "idle" PROVE Linked' = {Idle} /\ next'[Idle] = Idle /\ stale' = {}
  <2>1. pc[Idle] # "idle"
    BY <1>2, <1>3
  <2>2. Linked = {Idle} /\ next[Idle] = Idle /\ stale = {} /\ current = Idle
    BY <1>1, <2>1 DEF RingInv, Boot
  <2>3. CASE Linked' = Linked /\ UNCHANGED <<next, stale>>
    BY <2>2, <2>3
  <2>4. CASE Plain \/ ScanStale
    BY <2>3, <2>4, LinkedNext DEF Plain, ScanStale, ringVars
  <2>5. ASSUME NEW p \in Slots, CreateAlloc(p) PROVE Linked' = Linked /\ UNCHANGED <<next, stale>>
    BY <2>5, LinkedNext DEF CreateAlloc, ringVars
  <2>6. ASSUME NEW p \in Slots, CreateLoad(p) PROVE Linked' = Linked /\ UNCHANGED stale /\ next'[Idle] = next[Idle]
    BY <1>1, <2>2, <2>6, LinkedNext DEF CreateLoad, TypeOK, RingInv, Creating, At, Linked
  <2>7. ASSUME NEW p \in Slots PROVE ~CreateLink(p)
    BY <1>1, <1>3, <2>2 DEF CreateLink, At, Goto, TypeOK
  <2>8. ASSUME NEW q \in Slots, Pass(q) \/ ScanRun(q) PROVE Linked' = Linked /\ UNCHANGED <<next, stale>>
    BY <2>8, LinkedNext DEF Pass, ScanRun, ringVars
  <2>9. \A q \in Slots : ~ScanExit(q)
    BY <2>2, ExitShape
  <2>10. QED
    BY <2>2, <2>3, <2>4, <2>5, <2>6, <2>7, <2>8, <2>9, StepKinds DEF Making
<1>4. QED
  BY <1>2, <1>3 DEF Boot

LEMMA CreatingNext == TypeOK /\ LockInv /\ RingInv /\ [Next]_vars => Creating'
<1> SUFFICES ASSUME TypeOK, LockInv, RingInv, [Next]_vars PROVE Creating'
  OBVIOUS
<1> USE SchedulerAssumption
<1>0. Linked \subseteq Slots /\ current \in Linked
  BY DEF RingInv, Links, Linked
<1>1. CASE Plain
  <2>1. Linked' = Linked
    BY <1>1, LinkedNext
  <2>2. QED
    BY <1>1, <2>1 DEF RingInv, Creating, Plain, TypeOK
<1>2. ASSUME NEW q \in Slots, Pass(q) \/ ScanRun(q) PROVE Creating'
  <2>1. Linked' = Linked /\ UNCHANGED <<next, stale, fresh, pc>>
    BY <1>2, LinkedNext DEF Pass, ScanRun, ringVars, procVars
  <2>2. \A p \in Slots : state[p] = "RUN" => state'[p] = "RUN"
    BY <1>2 DEF Pass, ScanRun, TypeOK
  <2>3. QED
    BY <2>1, <2>2 DEF RingInv, Creating, TypeOK
<1>3. CASE ScanStale
  BY <1>3, LinkedNext DEF ScanStale, ringVars, procVars, RingInv, Creating
<1>4. ASSUME NEW q \in Slots, ScanExit(q) PROVE Creating'
  <2>1. /\ last \in Linked \ stale /\ q \in Linked /\ q = next[last] /\ state[q] = "EXIT"
        /\ q # last /\ Linked' = Linked \ {q}
        /\ next'[last] = next[q] /\ \A x \in Slots \ {last, q} : next'[x] = next[x]
        /\ last \in stale' <=> q \in stale
        /\ \A x \in Slots \ {last, q} : x \in stale' <=> x \in stale \/ next[x] = q
    BY <1>4, ExitShape, ReapShape
  <2>2. /\ UNCHANGED <<pc, fresh>> /\ next'[q] = NoProc /\ \A x \in Slots \ {q} : state'[x] = state[x]
    BY <1>4, <2>1 DEF ScanExit, TypeOK, procVars
  <2>3. ASSUME NEW p \in Slots, pc[p] \in {"create1", "create2"}
        PROVE  /\ p \in Linked /\ state[p] = "RUN" /\ p # q
               /\ fresh[p] \in Slots \ Linked /\ state[fresh[p]] = "RUN" /\ pc[fresh[p]] = "run"
               /\ fresh[p] \notin {q, last}
               /\ \A r \in Slots : fresh[r] = fresh[p] => r = p
    BY <2>1, <2>3 DEF RingInv, Creating, Linked, TypeOK
  <2>4. ASSUME NEW p \in Slots, pc[p] = "create2"
        PROVE  fresh[p] \in stale' \/ (p \notin stale' /\ next'[fresh[p]] = next'[p])
    <3>1. fresh[p] \in stale \/ (p \notin stale /\ next[fresh[p]] = next[p])
      BY <2>4 DEF RingInv, Creating
    <3>2. QED
      BY <2>1, <2>3, <2>4, <3>1
  <2>5. ASSUME NEW p \in Slots, p \notin Linked'
        PROVE  next'[p] = NoProc \/ \E r \in Slots : pc[r] = "create2" /\ fresh[r] = p
    BY <2>1, <2>2, <2>5 DEF RingInv, Creating
  <2>6. QED
    BY <2>1, <2>2, <2>3, <2>4, <2>5 DEF RingInv, Creating
<1>5. ASSUME NEW p \in Slots, CreateAlloc(p) PROVE Creating'
  <2>1. PICK new \in Slots :
          /\ state[new] = "FREE" /\ state' = [state EXCEPT ![new] = "RUN"]
          /\ fresh' = [fresh EXCEPT ![p] = new]
          /\ pc' = [pc EXCEPT ![p] = "create1", ![new] = "run"]
    BY <1>5 DEF CreateAlloc
  <2>2. /\ Linked' = Linked /\ UNCHANGED <<next, stale>> /\ p = current /\ p \in Linked
        /\ pc[p] = "run" /\ new \notin Linked /\ p # new
    BY <1>0, <1>5, <2>1, LinkedNext DEF CreateAlloc, ringVars, At, Linked
  <2>3. state[p] = "RUN"
    BY <1>5, <2>2 DEF RingInv, OnCpu, CreateAlloc, At, Enabled
  <2>4. \A r \in Slots : fresh[r] # new
    BY <2>1 DEF RingInv, Creating
  <2>5. pc'[p] = "create1" /\ pc'[new] = "run" /\ \A r \in Slots \ {p, new} : pc'[r] = pc[r]
    BY <2>1, <2>2 DEF TypeOK
  <2>6. fresh'[p] = new /\ \A r \in Slots \ {p} : fresh'[r] = fresh[r]
    BY <2>1 DEF TypeOK
  <2>7. state'[new] = "RUN" /\ \A r \in Slots \ {new} : state'[r] = state[r]
    BY <2>1 DEF TypeOK
  <2>8. pc[new] \notin {"create1", "create2"} /\ fresh[new] = NoProc /\ fresh[p] = NoProc
    BY <2>1, <2>2 DEF RingInv, Creating
  <2>9. \A r \in Slots : pc[r] \in {"create1", "create2"} =>
            fresh[r] \in Slots /\ fresh[r] # new /\ fresh[r] # p /\ r # p /\ r # new
    BY <1>0, <2>2, <2>4, <2>8 DEF RingInv, Creating, Linked, TypeOK
  <2>10. QED
    BY <2>2, <2>3, <2>4, <2>5, <2>6, <2>7, <2>8, <2>9 DEF RingInv, Creating
<1>6. ASSUME NEW p \in Slots, CreateLoad(p) PROVE Creating'
  <2> DEFINE new == fresh[p]
  <2>1. /\ Linked' = Linked /\ UNCHANGED <<state, fresh>> /\ pc[p] = "create1"
        /\ pc' = [pc EXCEPT ![p] = "create2"]
        /\ next' = [next EXCEPT ![new] = next[p]]
        /\ stale' = IF p \in stale THEN stale \cup {new} ELSE stale
    BY <1>6, LinkedNext DEF CreateLoad, At, Goto
  <2>2. /\ new \in Slots /\ new \notin Linked /\ p \in Linked /\ state[p] = "RUN" /\ pc[new] = "run"
        /\ state[new] = "RUN" /\ \A r \in Slots : fresh[r] = new => r = p
    BY <2>1 DEF RingInv, Creating, Linked, TypeOK
  <2> HIDE DEF new
  <2>3. /\ pc'[p] = "create2" /\ \A r \in Slots \ {p} : pc'[r] = pc[r]
        /\ next'[new] = next[p] /\ \A r \in Slots \ {new} : next'[r] = next[r]
    BY <2>1, <2>2 DEF TypeOK
  <2>4. ASSUME NEW r \in Slots \ {p}, pc[r] = "create2"
        PROVE  /\ fresh[r] # new /\ r # new /\ r # p /\ fresh[r] \in Slots
    BY <2>1, <2>2, <2>4 DEF RingInv, Creating, TypeOK
  <2>5. \A r \in Slots : pc'[r] = "create2" =>
            fresh[r] \in stale' \/ (r \notin stale' /\ next'[fresh[r]] = next'[r])
    <3>1. new \in stale' \/ (p \notin stale' /\ next'[new] = next'[p])
      BY <2>1, <2>2, <2>3
    <3>2. ASSUME NEW r \in Slots \ {p}, pc'[r] = "create2"
          PROVE  fresh[r] \in stale' \/ (r \notin stale' /\ next'[fresh[r]] = next'[r])
      BY <2>1, <2>3, <2>4, <3>2 DEF RingInv, Creating
    <3>3. QED
      BY <3>1, <3>2 DEF new
  <2>6. \A r \in Slots : pc'[fresh[r]] = "run" <=> pc[fresh[r]] = "run"
    BY <2>1, <2>2, <2>3 DEF RingInv, Creating, TypeOK, Linked
  <2>7. \A r \in Slots \ Linked : next'[r] = NoProc \/ \E c \in Slots : pc'[c] = "create2" /\ fresh[c] = r
    <3>1. ASSUME NEW r \in Slots \ Linked, r # new
          PROVE  next'[r] = NoProc \/ \E c \in Slots : pc'[c] = "create2" /\ fresh[c] = r
      BY <2>1, <2>3, <3>1 DEF RingInv, Creating
    <3>2. QED
      BY <2>3, <3>1 DEF new
  <2>8. QED
    BY <2>1, <2>2, <2>3, <2>5, <2>6, <2>7 DEF RingInv, Creating
<1>7. ASSUME NEW p \in Slots, CreateLink(p) PROVE Creating'
  <2> DEFINE new == fresh[p]
  <2>1. /\ new \in Slots \ Linked /\ p \in Linked /\ Linked' = Linked \cup {new}
        /\ next'[p] = new /\ \A x \in Slots \ {p} : next'[x] = next[x]
        /\ stale' = stale \ {p}
    BY <1>7, LinkShape
  <2>2. /\ fresh' = [fresh EXCEPT ![p] = NoProc] /\ state' = state /\ pc[p] = "create2"
        /\ pc' = [pc EXCEPT ![p] = IF p = Idle THEN "idle" ELSE "run"]
    BY <1>7 DEF CreateLink, At, Goto
  <2>3. /\ fresh'[p] = NoProc /\ \A x \in Slots \ {p} : fresh'[x] = fresh[x]
        /\ pc'[p] \in {"idle", "run"} /\ \A x \in Slots \ {p} : pc'[x] = pc[x]
    BY <2>2 DEF TypeOK
  <2>4. ASSUME NEW r \in Slots \ {p}, pc[r] \in {"create1", "create2"}
        PROVE  fresh[r] \in Slots /\ fresh[r] # p /\ r # new /\ fresh[r] # new
    BY <2>1, <2>2, <2>4 DEF RingInv, Creating, TypeOK, Linked
  <2> HIDE DEF new
  <2>5. \A r \in Slots \ Linked' : next'[r] = NoProc \/ \E c \in Slots : pc'[c] = "create2" /\ fresh'[c] = r
    <3>1. ASSUME NEW r \in Slots, r \notin Linked, r # new, next[r] # NoProc
          PROVE  \E c \in Slots : pc'[c] = "create2" /\ fresh'[c] = r
      <4>1. PICK c \in Slots : pc[c] = "create2" /\ fresh[c] = r
        BY <3>1 DEF RingInv, Creating
      <4>2. c # p
        BY <3>1, <4>1 DEF new
      <4>3. QED
        BY <2>3, <4>1, <4>2
    <3>2. QED
      BY <2>1, <3>1
  <2>6. QED
    BY <2>1, <2>2, <2>3, <2>4, <2>5 DEF RingInv, Creating
<1>8. QED
  BY <1>1, <1>2, <1>3, <1>4, <1>5, <1>6, <1>7, StepKinds DEF Making

-----------------------------------------------------------------------------
(* process_create, process_exit and process_switch: the strengthened         *)
(* invariant of the ring holds in every state.                               *)
THEOREM RingInvariant == Spec => [](TypeOK /\ LockInv /\ RingInv)
<1>1. TypeOK /\ LockInv /\ RingInv /\ [Next]_vars => RingInv'
  BY CreatingNext, OnCpuNext, BootNext, LinksNext, OneRingNext, ScanPathNext, SoundNext DEF RingInv
<1>2. QED
  BY <1>1, RingInit, LockInvariant, PTL DEF Spec

(* process_switch never frees the stack it runs on, nor one it returns to.   *)
THEOREM StackStaysAlive == Spec => []StackAlive
<1>1. TypeOK /\ RingInv => StackAlive
  BY SchedulerAssumption DEF RingInv, Links, Linked, StackAlive
<1>2. QED
  BY <1>1, RingInvariant, PTL

-----------------------------------------------------------------------------
(* Way(x, p, S): S holds whoever the links lead to from x, x itself left     *)
(* out, until p or a stale link.                                             *)
Way(x, p, S) ==
    /\ p \in S /\ (x \in stale \/ next[x] \in S) /\ (x \in S => x = p)
    /\ \A y \in S \ {p} : y \in stale \/ next[y] \in S

(* Where the scan stands, or will begin.                                     *)
Point == IF last = NoProc THEN current ELSE last

(* From there a way leads to every process of the ring ...                   *)
Ways == \A p \in Linked : \E S \in SUBSET Linked : Way(Point, p, S)

(* ... and nobody granted the lock l since p sleeps on it is on the way to p *)
(* from the owner of l, or from where the scan stands if nobody owns it.     *)
Ahead(p, l) == \E S \in SUBSET Linked :
    /\ S \cap passed[p] = {}
    /\ \A x \in Slots : Owns(x, l) \/ (lock[Mutex(l)] = 0 /\ x = Point) =>
            x # p /\ Way(x, p, S)

Queue ==
    /\ \A p \in Slots : /\ state[p] # "LOCK" => passed[p] = {}
                        /\ passed[p] \subseteq Linked
    /\ \A p \in Slots, l \in Locks : Sleeps(p, Mutex(l)) /\ passed[p] # {} => Ahead(p, l)

-----------------------------------------------------------------------------
(* The scan goes on from x to q.                                             *)
LEMMA WayOn ==
    ASSUME RingInv, NEW x \in Linked \ stale, NEW q, q = next[x],
           NEW p \in Linked, NEW S \in SUBSET Linked, Way(x, p, S)
    PROVE  \E R \in SUBSET Linked : Way(q, p, R) /\ (q # p => R \subseteq S)
<1> USE DEF RingInv, Links
<1>1. CASE q = p
  <2>1. Way(q, p, Linked)
    BY <1>1 DEF Way
  <2>2. QED
    BY <1>1, <2>1
<1>2. CASE q # p
  <2> DEFINE R == S \ {q}
  <2>1. q \in S /\ p \in R /\ x # q
    BY <1>2 DEF Way
  <2>2. q \in stale \/ next[q] \in R
    BY <1>2, <2>1 DEF Way
  <2>3. \A y \in R \ {p} : y \in stale \/ next[y] \in R
    BY <1>2, <2>1 DEF Way
  <2>4. Way(q, p, R) /\ R \in SUBSET Linked /\ R \subseteq S
    BY <2>1, <2>2, <2>3 DEF Way
  <2>5. QED
    BY <2>4
<1>3. QED
  BY <1>1, <1>2

(* What a step does to a way whose ends stay.                                *)
LEMMA WayKept ==
    ASSUME TypeOK, LockInv, RingInv, [Next]_vars,
           NEW x \in Linked \cap Linked', NEW p \in Linked \cap Linked',
           NEW S \in SUBSET Linked, Way(x, p, S)
    PROVE  \E R \in SUBSET Linked' : Way(x, p, R)' /\ R \subseteq S \cup (Linked' \ Linked)
<1> DEFINE Goal == \E R \in SUBSET Linked' : Way(x, p, R)' /\ R \subseteq S \cup (Linked' \ Linked)
<1>0. Linked \subseteq Slots
  BY DEF Linked
<1>1. ASSUME Linked' = Linked,
             \A y \in Linked : next'[y] = next[y] /\ (y \in stale' <=> y \in stale)
      PROVE  Goal
  <2>1. Way(x, p, S)'
    BY <1>1 DEF Way
  <2>2. QED
    BY <1>1, <2>1
<1>2. ASSUME NEW c \in Slots, CreateLoad(c) PROVE Goal
  <2>1. fresh[c] \in Slots \ Linked /\ Linked' = Linked
    BY <1>2, LinkedNext, SchedulerAssumption DEF TypeOK, RingInv, CreateLoad, Creating, Linked, At
  <2>2. \A y \in Linked : next'[y] = next[y] /\ (y \in stale' <=> y \in stale)
    BY <1>2, <2>1 DEF TypeOK, CreateLoad, Linked
  <2>3. QED
    BY <1>1, <2>1, <2>2
<1>3. ASSUME NEW c \in Slots, CreateLink(c) PROVE Goal
  <2>0. fresh[c] \in Slots
    BY <1>3, LinkShape
  <2> PICK new \in Slots : new = fresh[c]
    BY <2>0
  <2> DEFINE R == S \cup {new}
  <2>1. /\ new \in Slots \ Linked /\ c \in Linked /\ Linked' = Linked \cup {new}
        /\ next'[c] = new /\ \A y \in Slots \ {c} : next'[y] = next[y]
        /\ stale' = stale \ {c}
        /\ new \in stale \/ (c \notin stale /\ next[new] = next[c])
    BY <1>3, LinkShape
  <2>2. CASE x = c \/ (c \in S /\ c # p)
    <3>1. new \in stale' \/ next'[new] \in R
      BY <1>0, <2>1, <2>2 DEF Way
    <3>2. \A y \in S \ {p} : y \in stale' \/ next'[y] \in R
      BY <1>0, <2>1 DEF Way
    <3>3. x \in stale' \/ next'[x] \in R
      BY <1>0, <2>1 DEF Way
    <3>4. p \in R /\ (x \in R => x = p)
      BY <2>1 DEF Way
    <3>5. Way(x, p, R)'
      BY <3>1, <3>2, <3>3, <3>4 DEF Way
    <3>6. R \in SUBSET Linked' /\ R \subseteq S \cup (Linked' \ Linked)
      BY <2>1
    <3>7. QED
      BY <3>5, <3>6
  <2>3. CASE x # c /\ (c \in S => c = p)
    <3>1. Way(x, p, S)'
      BY <1>0, <2>1, <2>3 DEF Way
    <3>2. QED
      BY <2>1, <3>1
  <2>4. QED
    BY <2>2, <2>3
<1>4. ASSUME NEW q \in Slots, ScanExit(q) PROVE Goal
  <2> DEFINE R == S \ {q}
  <2>1. /\ last \in Linked \ stale /\ q \in Linked /\ q = next[last]
        /\ q # last /\ Linked' = Linked \ {q}
        /\ next'[last] = next[q] /\ \A y \in Slots \ {last, q} : next'[y] = next[y]
        /\ last \in stale' <=> q \in stale
        /\ \A y \in Slots \ {last, q} : y \in stale' <=> y \in stale \/ next[y] = q
    BY <1>4, ExitShape, ReapShape
  <2>2. p \in R /\ x # q /\ (x \in R => x = p)
    BY <2>1 DEF Way
  <2>3. q \in S => q \in stale \/ next[q] \in R
    <3>1. q \in S => q \in stale \/ next[q] \in S
      BY <2>2 DEF Way
    <3>2. q \in stale \/ next[q] # q
      BY <2>1 DEF RingInv, Links
    <3>3. QED
      BY <3>1, <3>2
  <2>4. \A y \in Linked \ {q} : y \in stale \/ next[y] \in S => y \in stale' \/ next'[y] \in R
    BY <1>0, <2>1, <2>3
  <2>5. Way(x, p, R)'
    BY <2>1, <2>2, <2>4 DEF Way
  <2>6. QED
    BY <2>1, <2>5
<1>5. CASE Plain \/ ScanStale
  BY <1>1, <1>5, LinkedNext DEF Plain, ScanStale, ringVars
<1>6. ASSUME NEW c \in Slots, CreateAlloc(c) PROVE Goal
  BY <1>1, <1>6, LinkedNext DEF CreateAlloc, ringVars
<1>7. ASSUME NEW q \in Slots, Pass(q) \/ ScanRun(q) PROVE Goal
  BY <1>1, <1>7, LinkedNext DEF Pass, ScanRun, ringVars
<1>8. QED
  BY <1>2, <1>3, <1>4, <1>5, <1>6, <1>7, StepKinds DEF Making

(* Where the scan stands moves along one link or not at all.                 *)
LEMMA PointNext ==
    ASSUME TypeOK, LockInv, RingInv, [Next]_vars
    PROVE  \/ Point' = Point
           \/ /\ last \in Linked \ stale /\ Point = last /\ Point' = next[last]
              /\ Pass(Point') \/ ScanRun(Point')
              /\ Linked' = Linked /\ UNCHANGED <<next, stale>>
<1> USE SchedulerAssumption DEF Point
<1>1. CASE Plain
  BY <1>1 DEF Plain, TypeOK
<1>2. ASSUME NEW p \in Slots, Making(p) PROVE Point' = Point
  BY <1>2 DEF Making, CreateAlloc, CreateLoad, CreateLink
<1>3. ASSUME NEW q \in Slots, Pass(q) \/ ScanRun(q)
      PROVE  /\ last \in Linked \ stale /\ Point = last /\ Point' = next[last]
             /\ Pass(Point') \/ ScanRun(Point')
             /\ Linked' = Linked /\ UNCHANGED <<next, stale>>
  <2>1. last \in Linked \ stale /\ last # NoProc /\ q = next[last]
    BY <1>3 DEF Pass, ScanRun, Looking, RingInv, Links
  <2>2. Point' = q
    BY <1>3 DEF Pass, ScanRun
  <2>3. Linked' = Linked /\ UNCHANGED <<next, stale>>
    BY <1>3, LinkedNext DEF Pass, ScanRun, ringVars
  <2>4. QED
    BY <1>3, <2>1, <2>2, <2>3
<1>4. ASSUME NEW q \in Slots, ScanExit(q) PROVE Point' = Point
  BY <1>4 DEF ScanExit
<1>5. CASE ScanStale
  BY <1>5 DEF ScanStale
<1>6. QED
  BY <1>1, <1>2, <1>3, <1>4, <1>5, StepKinds

LEMMA WaysNext == TypeOK /\ LockInv /\ RingInv /\ Ways /\ RingInv' /\ TypeOK' /\ [Next]_vars => Ways'
<1> SUFFICES ASSUME TypeOK, LockInv, RingInv, Ways, RingInv', TypeOK', [Next]_vars,
                    NEW p \in Linked'
             PROVE  \E R \in SUBSET Linked' : Way(Point, p, R)'
  BY DEF Ways
<1>1. Point \in Linked /\ Point' \in Linked'
  BY DEF RingInv, Links, Point
<1>2. CASE Point' = Point /\ p \in Linked
  <2>1. PICK S \in SUBSET Linked : Way(Point, p, S)
    BY <1>2 DEF Ways
  <2>2. \E R \in SUBSET Linked' : Way(Point, p, R)'
    BY <1>1, <1>2, <2>1, WayKept
  <2>3. QED
    BY <1>2, <2>2
<1>3. CASE Point' # Point /\ p \in Linked
  <2>1. /\ last \in Linked \ stale /\ Point = last /\ Point' = next[last]
        /\ Linked' = Linked /\ UNCHANGED <<next, stale>>
    BY <1>3, PointNext
  <2>2. PICK S \in SUBSET Linked : Way(last, p, S)
    BY <1>3, <2>1 DEF Ways
  <2>3. PICK R \in SUBSET Linked : Way(Point', p, R)
    BY <1>3, <2>1, <2>2, WayOn
  <2>4. Way(Point, p, R)'
    BY <2>1, <2>3 DEF Way
  <2>5. QED
    BY <2>1, <2>4
<1>4. CASE p \notin Linked
  <2>1. PICK c \in Slots : CreateLink(c)
    BY <1>4, StepKinds, LinkedNext DEF Making
  <2>2. /\ c = current /\ last = NoProc /\ last' = NoProc /\ current' = current
        /\ p = fresh[c] /\ next'[c] = p /\ c # p
    BY <1>4, <2>1, LinkShape
  <2>3. Point' = c
    BY <2>2 DEF Point
  <2>4. Way(c, p, {p})'
    BY <2>2 DEF Way
  <2>5. QED
    BY <2>3, <2>4
<1>5. QED
  BY <1>2, <1>3, <1>4

-----------------------------------------------------------------------------
(* What goes on with a lock of which p is not granted and nobody else either. *)
Kept(l) == /\ lock'[Mutex(l)] = lock[Mutex(l)]
           /\ \A x \in Slots : Owns(x, l)' <=> Owns(x, l)

(* Only the scan wakes a process that sleeps on a lock, and only it changes  *)
(* who has been granted what.                                                *)
LEMMA SleepKept ==
    ASSUME TypeOK, LockInv, RingInv, [Next]_vars, ~Grants
    PROVE  /\ \A p \in Slots : state[p] = "LOCK" => state'[p] = "LOCK" /\ lockOf'[p] = lockOf[p]
           /\ passed' = passed \/ \E q \in Slots : ScanExit(q) /\ passed' = [p \in Slots |-> passed[p] \ {q}]
<1> DEFINE Goal ==
       /\ \A p \in Slots : state[p] = "LOCK" => state'[p] = "LOCK" /\ lockOf'[p] = lockOf[p]
       /\ passed' = passed \/ \E q \in Slots : ScanExit(q) /\ passed' = [p \in Slots |-> passed[p] \ {q}]
<1> USE SchedulerAssumption
        DEF LockInv, Placed, RingInv, OnCpu, TypeOK, Sections, ringVars, procVars,
            At, Goto, Enabled, Looking
<1>1. ASSUME NEW p \in Slots, Begin(p) PROVE Goal
  BY <1>1 DEF Begin, LockStore, WaitStore, IntrArm, Exit, CreateAlloc
<1>2. ASSUME NEW p \in Slots, Continue(p) PROVE Goal
  <2>1. CASE LockSleep(p) \/ LockInt(p) \/ IntrSleep(p) \/ IntrInt(p)
    BY <2>1 DEF LockSleep, LockInt, IntrSleep, IntrInt, EnterScan
  <2>2. CASE IntrStore(p) \/ IntrOpen(p) \/ IntrShut(p)
    BY <2>2 DEF IntrStore, IntrOpen, IntrShut
  <2>3. CASE WaitSleep(p) \/ WaitInt(p)
    BY <2>3 DEF WaitSleep, WaitInt, EnterScan
  <2>4. CASE CreateLoad(p) \/ CreateLink(p)
    BY <2>4 DEF CreateLoad, CreateLink
  <2>5. QED
    BY <1>2, <2>1, <2>2, <2>3, <2>4 DEF Continue
<1>3. ASSUME NEW p \in Slots, Unlock(p) PROVE Goal
  BY <1>3 DEF Unlock
<1>4. ASSUME BootDone \/ Timer PROVE Goal
  BY <1>4 DEF BootDone, Timer, EnterScan
<1>5. ASSUME NEW l \in Locks, Irq(l) PROVE Goal
  BY <1>5 DEF Irq
<1>6. ASSUME NEW q \in Slots, ScanRun(q) \/ ScanWait(q) PROVE Goal
  BY <1>6 DEF ScanRun, ScanWait
<1>7. ASSUME NEW q \in Slots, ScanExit(q) PROVE Goal
  BY <1>7 DEF ScanExit
<1>8. ASSUME ScanStale \/ Halted \/ UNCHANGED vars PROVE Goal
  BY <1>8 DEF ScanStale, Halted, vars
<1>9. QED
  BY <1>1, <1>2, <1>3, <1>4, <1>5, <1>6, <1>7, <1>8 DEF Next, Scan, Grants

(* An owner of a lock is in the ring and stays there.                        *)
LEMMA OwnerLinked ==
    ASSUME TypeOK, LockInv, RingInv, NEW x \in Slots, NEW l \in Locks, Owns(x, l)
    PROVE  x \in Linked /\ state[x] # "EXIT"
<1>1. pc[x] \in Sections
  BY DEF Owns
<1>2. state[x] \notin {"EXIT", "FREE"}
  BY <1>1 DEF LockInv, Placed, Sections
<1>3. \A p \in Slots : fresh[p] # x
  BY <1>1, SchedulerAssumption DEF RingInv, Creating, Sections
<1>4. QED
  BY <1>2, <1>3 DEF Linked

LEMMA LinkedStays ==
    ASSUME TypeOK, LockInv, RingInv, [Next]_vars, NEW x \in Linked, state[x] # "EXIT"
    PROVE  x \in Linked'
BY StepKinds, LinkedNext, ExitShape DEF Making

(* As long as nothing happens to the lock, nobody gets onto the way to p.    *)
LEMMA AheadKept ==
    ASSUME TypeOK, LockInv, RingInv, [Next]_vars, RingInv', NEW p \in Slots, NEW l \in Locks,
           Ahead(p, l), state[p] = "LOCK", p \in Linked, Kept(l),
           passed'[p] \subseteq passed[p], passed[p] \subseteq Linked,
           lock[Mutex(l)] = 0 /\ Point' # Point => Point' # p
    PROVE  Ahead(p, l)'
<1>1. PICK S \in SUBSET Linked :
        /\ S \cap passed[p] = {}
        /\ \A x \in Slots : Owns(x, l) \/ (lock[Mutex(l)] = 0 /\ x = Point) =>
                x # p /\ Way(x, p, S)
  BY DEF Ahead
<1>2. p \in Linked'
  BY LinkedStays
<1>3. Point \in Linked /\ Point' \in Linked' /\ Linked \subseteq Slots /\ Linked' \subseteq Slots
  BY DEF RingInv, Links, Point, Linked
<1>4. CASE lock[Mutex(l)] = 0
  <2>1. \A x \in Slots : ~Owns(x, l)
    BY <1>4 DEF LockInv, LockTold
  <2>2. Point # p /\ Way(Point, p, S)
    BY <1>1, <1>3, <1>4
  <2>3. \E R \in SUBSET Linked' : Way(Point, p, R)' /\ R \subseteq S \cup (Linked' \ Linked) /\ Point' # p
    <3>1. CASE Point' = Point
      <4>1. \E R \in SUBSET Linked' : Way(Point, p, R)' /\ R \subseteq S \cup (Linked' \ Linked)
        <5>1. PICK x \in Linked \cap Linked' : x = Point /\ x = Point'
          BY <1>3, <3>1
        <5>2. PICK R \in SUBSET Linked' : Way(x, p, R)' /\ R \subseteq S \cup (Linked' \ Linked)
          BY <1>2, <2>2, <5>1, WayKept
        <5>3. Way(Point, p, R)'
          BY <5>1, <5>2 DEF Way
        <5>4. QED
          BY <5>2, <5>3
      <4>2. QED
        BY <2>2, <3>1, <4>1
    <3>2. CASE Point' # Point
      <4>1. /\ last \in Linked \ stale /\ Point = last /\ Point' = next[last]
            /\ Linked' = Linked /\ UNCHANGED <<next, stale>>
        BY <3>2, PointNext
      <4>2. PICK q : q = next[last]
        OBVIOUS
      <4>3. q # p /\ q = Point' /\ Way(last, p, S)
        BY <1>4, <2>2, <3>2, <4>1, <4>2
      <4>4. PICK R \in SUBSET Linked : Way(q, p, R) /\ R \subseteq S
        BY <4>1, <4>2, <4>3, WayOn
      <4>5. Way(Point, p, R)'
        BY <4>1, <4>3, <4>4 DEF Way
      <4>6. QED
        BY <4>1, <4>3, <4>4, <4>5
    <3>3. QED
      BY <3>1, <3>2
  <2>4. QED
    BY <1>1, <1>3, <1>4, <2>1, <2>3 DEF Ahead, Kept
<1>5. CASE lock[Mutex(l)] # 0
  <2>1. lock[Mutex(l)] = 1
    BY <1>5, WordFacts DEF TypeOK
  <2>2. PICK x \in Slots : Owns(x, l)
    BY <2>1 DEF LockInv, LockTold
  <2>3. x # p /\ Way(x, p, S) /\ x \in Linked \cap Linked'
    BY <1>1, <2>2, OwnerLinked, LinkedStays
  <2>4. PICK R \in SUBSET Linked' : Way(x, p, R)' /\ R \subseteq S \cup (Linked' \ Linked)
    BY <1>2, <2>3, WayKept
  <2>5. \A y \in Slots : Owns(y, l)' => y = x
    BY <2>2 DEF Kept, LockInv, MutualExclusion
  <2>6. QED
    BY <1>1, <2>1, <2>3, <2>4, <2>5 DEF Ahead, Kept
<1>6. QED
  BY <1>4, <1>5

LEMMA SleeperLinked ==
    ASSUME TypeOK, LockInv, RingInv, NEW p \in Slots, state[p] = "LOCK"
    PROVE  p \in Linked
<1>1. \A r \in Slots : fresh[r] # p
  BY SchedulerAssumption DEF RingInv, Creating
<1>2. QED
  BY <1>1 DEF Linked

(* What the scan does when it comes to a process that sleeps on a lock.      *)
LEMMA GrantShape ==
    ASSUME TypeOK, LockInv, RingInv, NEW q \in Slots, ScanLock(q)
    PROVE  /\ last \in Linked \ stale /\ q = next[last] /\ q \in Linked
           /\ Point = last /\ Point' = q /\ state[q] = "LOCK"
           /\ Linked' = Linked /\ UNCHANGED <<next, stale, lockOf>>
           /\ \A p \in Slots \ {q} : state'[p] = state[p]
           /\ lock[lockOf[q]] # 0 => UNCHANGED <<lock, state, passed>>
           /\ lock[lockOf[q]] = 0 =>
                /\ state'[q] = "RUN"
                /\ passed' = [p \in Slots |->
                        IF p = q THEN {}
                        ELSE IF state[p] = "LOCK" /\ lockOf[p] = lockOf[q]
                        THEN passed[p] \cup {q} ELSE passed[p]]
<1>1. Pass(q)
  BY DEF ScanLock, Pass, TypeOK, ringVars, procVars
<1>2. last \in Linked \ stale /\ last # NoProc /\ q = next[last] /\ q \in Linked
  BY <1>1 DEF Pass, Looking, RingInv, Links
<1>3. Point = last /\ Point' = q
  BY <1>1, <1>2, SchedulerAssumption DEF Pass, Point
<1>4. Linked' = Linked /\ UNCHANGED <<next, stale>>
  BY <1>1, LinkedNext DEF Pass
<1>5. QED
  BY <1>2, <1>3, <1>4 DEF ScanLock, TypeOK, procVars

LEMMA PassedNext ==
    ASSUME TypeOK, LockInv, RingInv, Queue, [Next]_vars, NEW p \in Slots
    PROVE  /\ state'[p] # "LOCK" => passed'[p] = {}
           /\ passed'[p] \subseteq Linked'
<1>0. (state[p] # "LOCK" => passed[p] = {}) /\ passed[p] \subseteq Linked
  BY DEF Queue
<1>1. ASSUME NEW q \in Slots, ScanLock(q)
      PROVE  /\ state'[p] # "LOCK" => passed'[p] = {}
             /\ passed'[p] \subseteq Linked'
  BY <1>0, <1>1, GrantShape
<1>2. CASE ~Grants
  <2>1. state'[p] # "LOCK" => state[p] # "LOCK" /\ passed'[p] \subseteq passed[p]
    BY <1>2, SleepKept DEF TypeOK
  <2>2. CASE \E q \in Slots : ScanExit(q)
    <3>1. PICK q \in Slots : ScanExit(q)
      BY <2>2
    <3>2. Linked' = Linked \ {q} /\ passed'[p] = passed[p] \ {q}
      BY <3>1, LinkedNext DEF ScanExit
    <3>3. QED
      BY <1>0, <2>1, <3>2
  <2>3. CASE ~\E q \in Slots : ScanExit(q)
    <3>1. Linked \subseteq Linked'
      BY <2>3, StepKinds, LinkedNext DEF Making
    <3>2. passed' = passed
      BY <1>2, <2>3, SleepKept
    <3>3. QED
      BY <1>0, <2>1, <3>1, <3>2
  <2>4. QED
    BY <2>2, <2>3
<1>3. QED
  BY <1>1, <1>2 DEF Grants

(* The scan grants a process lock to q: from there the way to whoever else   *)
(* sleeps on it passes nobody granted before, nor q.                         *)
LEMMA AheadGranted ==
    ASSUME TypeOK, LockInv, RingInv, Ways, Queue, RingInv',
           NEW q \in Slots, ScanLock(q), NEW l \in Locks, lockOf[q] = Mutex(l), lock[Mutex(l)] = 0,
           NEW p \in Slots \ {q}, Sleeps(p, Mutex(l))
    PROVE  Ahead(p, l)'
<1>1. /\ last \in Linked \ stale /\ q = next[last] /\ q \in Linked
      /\ Point = last /\ Linked' = Linked /\ UNCHANGED <<next, stale>>
      /\ passed'[p] = passed[p] \cup {q}
  BY GrantShape DEF Sleeps
<1>2. p \in Linked
  BY SleeperLinked DEF Sleeps
<1>3. PICK S \in SUBSET Linked : S \cap passed[p] = {} /\ Way(last, p, S)
  <2>1. CASE passed[p] = {}
    <3>1. PICK S \in SUBSET Linked : Way(last, p, S)
      BY <1>1, <1>2 DEF Ways
    <3>2. QED
      BY <2>1, <3>1
  <2>2. CASE passed[p] # {}
    <3>1. Ahead(p, l) /\ last \in Slots
      BY <1>1, <2>2 DEF Queue, Linked
    <3>2. QED
      BY <1>1, <3>1 DEF Ahead
  <2>3. QED
    BY <2>1, <2>2
<1>4. PICK R \in SUBSET Linked : Way(q, p, R) /\ R \subseteq S
  BY <1>1, <1>2, <1>3, WayOn
<1>5. q \notin R /\ R \cap passed'[p] = {}
  BY <1>1, <1>3, <1>4 DEF Way
<1>6. Way(q, p, R)'
  BY <1>1, <1>4 DEF Way
<1>7. lock'[Mutex(l)] = 1 /\ \A x \in Slots : Owns(x, l)' => x = q
  <2>1. sect[q] = l
    BY GrantShape, WordFacts DEF LockInv, Placed, TypeOK, Sections
  <2>2. lock' = [lock EXCEPT ![Mutex(l)] = 1]
    BY DEF ScanLock
  <2>3. \A x \in Slots : ~Owns(x, l)
    BY DEF LockInv, LockTold
  <2>4. \A x \in Slots : Owns(x, l)' <=> Owns(x, l) \/ x = q
    <3>1. lockOf[q] # IrqWord(sect[q])
      BY <2>1, WordFacts
    <3>2. lock' # lock
      BY <2>2, WordFacts DEF TypeOK
    <3>3. QED
      BY <2>1, <3>1, <3>2, GrantOwner
  <2>5. QED
    BY <2>2, <2>3, <2>4, WordFacts DEF TypeOK
<1>8. QED
  BY <1>1, <1>5, <1>6, <1>7 DEF Ahead

(* Nothing granted, nothing released.                                        *)
LEMMA AheadPassed ==
    ASSUME TypeOK, LockInv, RingInv, Queue, RingInv', [Next]_vars, ~Grants, ~Releases,
           NEW p \in Slots, NEW l \in Locks, Sleeps(p, Mutex(l)), Sleeps(p, Mutex(l))', passed'[p] # {}
    PROVE  Ahead(p, l)'
<1>1. passed'[p] \subseteq passed[p] /\ passed[p] \subseteq Linked
  BY SleepKept DEF Queue
<1>2. Ahead(p, l) /\ p \in Linked /\ state[p] = "LOCK" /\ state'[p] = "LOCK"
  BY <1>1, SleeperLinked DEF Queue, Sleeps
<1>3. Kept(l)
  BY OwnersKept DEF Kept
<1>4. Point' # Point => Point' # p
  <2>1. SUFFICES ASSUME Looking(p), last \notin stale, last' # last \/ current' # current PROVE FALSE
    BY PointNext, SchedulerAssumption DEF Pass, ScanRun, Looking, Point
  <2>2. Scan
    BY <2>1 DEF Looking, Next, Begin, Continue, LockStore, LockSleep, LockInt, Unlock, IntrArm,
                IntrStore, IntrOpen, IntrShut, IntrSleep, IntrInt, Irq, WaitStore, WaitSleep,
                WaitInt, Exit, CreateAlloc, CreateLoad, CreateLink, BootDone, Timer, Halted,
                At, Enabled, vars
  <2>3. QED
    BY <1>2, <2>1, <2>2 DEF Scan, Grants, ScanRun, ScanWait, ScanExit, ScanStale, Looking
<1>5. QED
  BY <1>1, <1>2, <1>3, <1>4, AheadKept

(* process_unlock: the owner is the process on the CPU, so the way from it   *)
(* is the way the next scan will go.                                         *)
LEMMA AheadReleased ==
    ASSUME TypeOK, LockInv, RingInv, Queue, RingInv', [Next]_vars, NEW o \in Slots, Unlock(o),
           NEW p \in Slots, NEW l \in Locks, Sleeps(p, Mutex(l)), passed[p] # {}
    PROVE  Ahead(p, l)'
<1>1. /\ sect[o] \in Locks /\ Owns(o, sect[o])
      /\ \A x \in Slots, m \in Locks : Owns(x, m)' <=> Owns(x, m) /\ x # o
      /\ lock' = [lock EXCEPT ![Mutex(sect[o])] = 0]
  BY UnlockOwner
<1>2. /\ UNCHANGED <<state, next, stale, passed, fresh>> /\ Linked' = Linked
      /\ Point = o /\ Point' = o
  BY SchedulerAssumption DEF Unlock, ringVars, At, Enabled, Linked, Point
<1>3. Ahead(p, l) /\ p \in Linked /\ state[p] = "LOCK" /\ passed[p] \subseteq Linked
  BY SleeperLinked DEF Queue, Sleeps
<1>4. CASE sect[o] = l
  <2>1. PICK S \in SUBSET Linked : S \cap passed[p] = {} /\ o # p /\ Way(o, p, S)
    BY <1>1, <1>3, <1>4 DEF Ahead
  <2>2. Way(o, p, S)'
    BY <1>2, <2>1 DEF Way
  <2>3. \A x \in Slots : ~Owns(x, l)'
    BY <1>1, <1>4 DEF LockInv, MutualExclusion
  <2>4. QED
    BY <1>2, <2>1, <2>2, <2>3 DEF Ahead
<1>5. CASE sect[o] # l
  <2>1. \A x \in Slots : Owns(x, l)' <=> Owns(x, l)
    BY <1>1, <1>5 DEF Owns
  <2>2. lock'[Mutex(l)] = lock[Mutex(l)]
    BY <1>1, <1>5, WordFacts DEF TypeOK
  <2>3. QED
    BY <1>2, <1>3, <2>1, <2>2, AheadKept DEF Kept
<1>6. QED
  BY <1>4, <1>5

LEMMA QueueNext ==
    TypeOK /\ LockInv /\ RingInv /\ Ways /\ Queue /\ RingInv' /\ [Next]_vars => Queue'
<1> SUFFICES ASSUME TypeOK, LockInv, RingInv, Ways, Queue, RingInv', [Next]_vars,
                    NEW p \in Slots, NEW l \in Locks, Sleeps(p, Mutex(l))', passed'[p] # {}
             PROVE  Ahead(p, l)'
  BY PassedNext DEF Queue
<1>1. ASSUME NEW q \in Slots, ScanLock(q) PROVE Ahead(p, l)'
  <2>1. /\ lockOf' = lockOf /\ state[q] = "LOCK"
        /\ \A x \in Slots \ {q} : state'[x] = state[x]
        /\ lock[lockOf[q]] # 0 => UNCHANGED <<lock, state, passed>>
        /\ lock[lockOf[q]] = 0 => state'[q] = "RUN"
    BY <1>1, GrantShape
  <2>2. Sleeps(p, Mutex(l)) /\ (p = q => lock[Mutex(l)] # 0)
    BY <2>1 DEF Sleeps
  <2>3. CASE lockOf[q] = Mutex(l) /\ lock[Mutex(l)] = 0
    BY <1>1, <2>2, <2>3, AheadGranted
  <2>4. CASE ~(lockOf[q] = Mutex(l) /\ lock[Mutex(l)] = 0)
    <3>1. passed'[p] = passed[p]
      <4>1. CASE lock[lockOf[q]] # 0
        BY <2>1, <4>1
      <4>2. CASE lock[lockOf[q]] = 0
        BY <1>1, <2>2, <2>4, <4>2, GrantShape DEF Sleeps
      <4>3. QED
        BY <4>1, <4>2
    <3>2. Kept(l)
      <4>1. CASE UNCHANGED <<lock, state, lockOf, pc, sect>>
        BY <4>1 DEF Kept, Owns, Sleeps
      <4>2. CASE ~UNCHANGED <<lock, state, lockOf, pc, sect>>
        <5>1. sect[q] \in Locks /\ (lockOf[q] = Mutex(sect[q]) => sect[q] # l)
          BY <1>1, <2>4, <4>2, GrantOwner
        <5>2. \A x \in Slots : Owns(x, l)' <=> Owns(x, l)
          BY <1>1, <4>2, <5>1, GrantOwner
        <5>3. lock'[Mutex(l)] = lock[Mutex(l)]
          BY <1>1, <4>2, <5>1, GrantOwner, WordFacts DEF TypeOK
        <5>4. QED
          BY <5>2, <5>3 DEF Kept
      <4>3. QED
        BY <4>1, <4>2
    <3>3. Point' = q
      BY <1>1, GrantShape
    <3>4. Ahead(p, l) /\ p \in Linked /\ state[p] = "LOCK" /\ passed[p] \subseteq Linked
      BY <2>2, <3>1, SleeperLinked DEF Queue, Sleeps
    <3>5. QED
      BY <2>2, <3>1, <3>2, <3>3, <3>4, AheadKept
  <2>5. QED
    BY <2>3, <2>4
<1>2. CASE ~Grants
  <2>1. passed'[p] \subseteq passed[p]
    BY <1>2, SleepKept DEF TypeOK
  <2>2. state[p] = "LOCK"
    BY <2>1 DEF Queue
  <2>3. Sleeps(p, Mutex(l))
    BY <1>2, <2>2, SleepKept DEF Sleeps
  <2>4. CASE Releases
    BY <2>1, <2>3, <2>4, AheadReleased DEF Releases
  <2>5. CASE ~Releases
    BY <1>2, <2>3, <2>5, AheadPassed
  <2>6. QED
    BY <2>4, <2>5
<1>3. QED
  BY <1>1, <1>2 DEF Grants

(* process_lock and process_switch: the scan takes the sleepers on a lock in *)
(* the order of the ring, from the owner on.                                 *)
THEOREM QueueInvariant == Spec => [](TypeOK /\ LockInv /\ RingInv /\ Ways /\ Queue)
<1>1. Init => Ways
  <2>1. SUFFICES ASSUME Init, NEW p \in Linked PROVE \E S \in SUBSET Linked : Way(Point, p, S)
    BY DEF Ways
  <2>2. Linked = {Idle} /\ next[Idle] = Idle /\ Point = Idle
    BY <2>1, SchedulerAssumption DEF Init, Linked, Point
  <2>3. Way(Point, p, {Idle})
    BY <2>1, <2>2 DEF Way
  <2>4. QED
    BY <2>2, <2>3
<1>2. Init => Queue
  BY DEF Init, Queue
<1>3. TypeOK /\ LockInv /\ RingInv /\ Ways /\ Queue /\ TypeOK' /\ RingInv' /\ [Next]_vars
      => Ways' /\ Queue'
  BY WaysNext, QueueNext
<1>4. QED
  BY <1>1, <1>2, <1>3, RingInvariant, PTL DEF Spec

(* While a process sleeps in process_lock, no other is granted the lock      *)
(* twice.                                                                    *)
THEOREM NobodyBypassedTwice == Spec => BypassedOnce
<1> DEFINE Twice == \A p, q \in Slots :
                /\ p # q /\ state[q] = "LOCK" /\ state'[q] = "RUN"
                /\ Sleeps(p, lockOf[q])
                => q \notin passed[p]
<1>1. ASSUME TypeOK, LockInv, RingInv, Ways, Queue, [Next]_vars PROVE Twice
  <2> SUFFICES ASSUME NEW p \in Slots, NEW q \in Slots, p # q, state[q] = "LOCK", state'[q] = "RUN",
                      Sleeps(p, lockOf[q]), q \in passed[p]
               PROVE  FALSE
    OBVIOUS
  <2>1. ScanLock(q)
    <3>1. PICK r \in Slots : ScanLock(r)
      BY <1>1, SleepKept DEF Grants
    <3>2. r = q
      BY <1>1, <3>1, GrantShape
    <3>3. QED
      BY <3>1, <3>2
  <2>2. /\ last \in Linked \ stale /\ q = next[last] /\ Point = last /\ Linked \subseteq Slots
        /\ lock[lockOf[q]] = 0
    BY <1>1, <2>1, GrantShape DEF Linked
  <2>3. /\ {sect[p], sect[q]} \subseteq Locks /\ lockOf[q] = lockOf[p]
        /\ {pc[p], pc[q]} \subseteq Sections
        /\ lockOf[q] \in {Mutex(sect[q]), IrqWord(sect[q])}
        /\ lockOf[p] \in {Mutex(sect[p]), IrqWord(sect[p])}
    BY <1>1 DEF LockInv, Placed, TypeOK, Sleeps, Sections
  <2>4. CASE lockOf[q] = IrqWord(sect[q])
    <3>1. sect[p] = sect[q] /\ lockOf[q] # Mutex(sect[q])
      BY <2>3, <2>4, WordFacts
    <3>2. Owns(p, sect[q]) /\ Owns(q, sect[q])
      BY <2>3, <3>1 DEF Owns, Sleeps
    <3>3. QED
      BY <1>1, <2>3, <3>2 DEF LockInv, MutualExclusion
  <2>5. CASE lockOf[q] = Mutex(sect[q])
    <3>1. Ahead(p, sect[q])
      BY <1>1, <2>3, <2>5 DEF Queue
    <3>2. PICK S \in SUBSET Linked : S \cap passed[p] = {} /\ last # p /\ Way(last, p, S)
      BY <2>2, <2>5, <3>1 DEF Ahead
    <3>3. QED
      BY <2>2, <3>2 DEF Way
  <2>6. QED
    BY <2>3, <2>4, <2>5
<1>2. UNCHANGED vars => Twice
  BY DEF vars
<1>3. QED
  BY <1>1, QueueInvariant, PTL DEF Spec, BypassedOnce

-----------------------------------------------------------------------------
Less == {ss \in Nat \X Nat : ss[1] < ss[2]}

(* Induction over the naturals, from the well-foundedness of their order. *)
LEMMA Inductive ==
    ASSUME NEW S, 0 \in S, \A n \in Nat : n \in S => n + 1 \in S
    PROVE  Nat \subseteq S
<1> DEFINE T == Nat \ S
<1>1. IsWellFoundedOn(Less, Nat)
  BY NatLessThanWellFounded DEF OpToRel, Less
<1>2. ASSUME T # {} PROVE FALSE
  <2>1. PICK n \in T : \A m \in T : <<m, n>> \notin Less
    BY <1>1, <1>2, WFMin, T \subseteq Nat
  <2>2. n # 0 /\ n - 1 \in Nat /\ <<n - 1, n>> \in Less
    BY <2>1 DEF Less
  <2>3. n - 1 \in S
    BY <2>1, <2>2
  <2>4. QED
    BY <2>1, <2>2, <2>3
<1>3. QED
  BY <1>2

(* v[n]: whom at most n links lead to from process 0. *)
Follows(v, N) == v = [n \in 0 .. N |->
    IF n = 0 THEN {Idle} ELSE v[n - 1] \cup {next[p] : p \in v[n - 1]}]

LEMMA FollowsSome == ASSUME NEW N \in Nat PROVE \E v : Follows(v, N)
<1> DEFINE T == {n \in Nat : \E v : Follows(v, n)}
<1>1. 0 \in T
  <2> DEFINE v == [i \in 0 .. 0 |-> {Idle}]
  <2>1. Follows(v, 0)
    BY DEF Follows
  <2>2. QED
    BY <2>1
<1>2. ASSUME NEW n \in Nat, n \in T PROVE n + 1 \in T
  <2>1. PICK v : Follows(v, n)
    BY <1>2
  <2> DEFINE h == [i \in 0 .. n + 1 |->
                     IF i = n + 1 THEN v[n] \cup {next[p] : p \in v[n]} ELSE v[i]]
  <2>2. \A i \in 0 .. n + 1 :
            h[i] = IF i = 0 THEN {Idle} ELSE h[i - 1] \cup {next[p] : p \in h[i - 1]}
    <3>1. ASSUME NEW i \in 0 .. n
          PROVE  v[i] = IF i = 0 THEN {Idle} ELSE v[i - 1] \cup {next[p] : p \in v[i - 1]}
      BY <2>1, <3>1 DEF Follows
    <3>2. h[n + 1] = v[n] \cup {next[p] : p \in v[n]} /\ \A i \in 0 .. n : h[i] = v[i]
      OBVIOUS
    <3> HIDE DEF h
    <3>3. ASSUME NEW i \in 0 .. n
          PROVE  h[i] = IF i = 0 THEN {Idle} ELSE h[i - 1] \cup {next[p] : p \in h[i - 1]}
      <4>1. i = 0 \/ i - 1 \in 0 .. n
        OBVIOUS
      <4>2. QED
        BY <3>1, <3>2, <4>1
    <3>4. h[n + 1] = h[n] \cup {next[p] : p \in h[n]} /\ n \in 0 .. n /\ (n + 1) - 1 = n
      BY <3>2
    <3>5. TAKE i \in 0 .. n + 1
    <3>6. CASE i = n + 1
      BY <3>4, <3>6
    <3>7. CASE i # n + 1
      <4>1. i \in 0 .. n
        BY <3>7
      <4>2. QED
        BY <3>3, <4>1
    <3>8. QED
      BY <3>6, <3>7
  <2>3. Follows(h, n + 1)
    BY <2>2 DEF Follows
  <2> HIDE DEF h
  <2>4. \E k : Follows(k, n + 1)
    BY <2>3
  <2>5. QED
    BY <2>4
<1> HIDE DEF T
<1>3. N \in T
  BY <1>1, <1>2, Inductive
<1>4. QED
  BY <1>3 DEF T

LEMMA VisitedFollows ==
    \E v : Follows(v, Cardinality(Slots)) /\ Visited = v[Cardinality(Slots)]
<1> DEFINE N == Cardinality(Slots)
           V == CHOOSE v : Follows(v, N)
<1>1. N \in Nat
  BY SchedulerAssumption, FS_CardinalityType
<1>2. Follows(V, N)
  BY <1>1, FollowsSome
<1>3. Visited = V[N]
  BY DEF Visited, Follows
<1>4. QED
  BY <1>2, <1>3

(* Following a ring for as many links as there are slots meets all of it.    *)
LEMMA VisitedAll == ASSUME TypeOK, RingInv, stale = {} PROVE Visited = Linked
<1> DEFINE N == Cardinality(Slots)
<1>1. N \in Nat /\ IsFiniteSet(Linked) /\ Cardinality(Linked) <= N
  BY SchedulerAssumption, FS_CardinalityType, FS_Subset DEF Linked
<1>2. PICK v : Follows(v, N) /\ Visited = v[N]
  BY VisitedFollows
<1>3. /\ v[0] = {Idle}
      /\ \A n \in Nat : n + 1 <= N => v[n + 1] = v[n] \cup {next[p] : p \in v[n]}
  <2> HIDE DEF N
  <2>1. v[0] = {Idle}
    BY <1>1, <1>2 DEF Follows
  <2>2. ASSUME NEW n \in Nat, n + 1 <= N PROVE v[n + 1] = v[n] \cup {next[p] : p \in v[n]}
    <3>1. n + 1 \in 0 .. N /\ n + 1 # 0 /\ (n + 1) - 1 = n
      BY <1>1, <2>2
    <3>2. QED
      BY <1>2, <3>1 DEF Follows
  <2>3. QED
    BY <2>1, <2>2
<1>4. Idle \in Linked /\ \A p \in Linked : next[p] \in Linked
  BY DEF RingInv, Links
<1>5. \A S \in SUBSET Linked : S = {} \/ S = Linked \/ \E x \in S : next[x] \notin S
  BY DEF RingInv, OneRing
<1> DEFINE Met(n) == Idle \in v[n] /\ v[n] \subseteq Linked
                     /\ (v[n] = Linked \/ Cardinality(v[n]) >= n + 1)
           T == {n \in Nat : n <= N => Met(n)}
<1>6. 0 \in T
  <2>1. Cardinality({Idle}) = 1
    BY FS_Singleton
  <2>2. QED
    BY <1>3, <1>4, <2>1
<1>7. ASSUME NEW n \in Nat, n \in T, n + 1 <= N PROVE Met(n + 1)
  <2>1. Met(n) /\ v[n + 1] = v[n] \cup {next[p] : p \in v[n]}
    BY <1>1, <1>3, <1>7
  <2>2. Idle \in v[n + 1] /\ v[n + 1] \subseteq Linked
    BY <1>4, <2>1
  <2>3. CASE v[n] = Linked
    BY <2>1, <2>2, <2>3
  <2>4. CASE v[n] # Linked
    <3>1. PICK x \in v[n] : next[x] \notin v[n]
      BY <1>5, <2>1, <2>4
    <3>2. /\ IsFiniteSet(v[n]) /\ IsFiniteSet(v[n + 1])
          /\ Cardinality(v[n]) \in Nat /\ Cardinality(v[n + 1]) \in Nat
      BY <1>1, <2>1, <2>2, FS_Subset, FS_CardinalityType
    <3>3. Cardinality(v[n] \cup {next[x]}) = Cardinality(v[n]) + 1
      BY <3>1, <3>2, FS_AddElement
    <3>4. v[n] \cup {next[x]} \subseteq v[n + 1]
      BY <2>1, <3>1
    <3>5. Cardinality(v[n] \cup {next[x]}) <= Cardinality(v[n + 1])
      BY <3>2, <3>4, FS_Subset
    <3>6. Cardinality(v[n]) >= n + 1
      BY <2>1, <2>4
    <3>7. Cardinality(v[n + 1]) >= n + 2
      BY <3>2, <3>3, <3>5, <3>6
    <3>8. QED
      BY <2>2, <3>7
  <2>5. QED
    BY <2>3, <2>4
<1>8. N \in T
  <2>1. \A n \in Nat : n \in T => n + 1 \in T
    BY <1>7
  <2> HIDE DEF T
  <2>2. QED
    BY <1>1, <1>6, <2>1, Inductive
<1>9. Met(N)
  BY <1>1, <1>8
<1>10. QED
  <2>1. Cardinality(v[N]) <= N /\ Cardinality(v[N]) \in Nat
    BY <1>1, <1>9, FS_Subset, FS_CardinalityType
  <2>2. QED
    BY <1>1, <1>2, <1>9, <2>1

(* Unless an exited successor was reaped between the two links of            *)
(* process_create, the ring links exactly the live processes in one cycle    *)
(* and the scan never leaves it for freed memory.                            *)
THEOREM RingStaysIntact == Spec => []RingIntact
<1>1. TypeOK /\ RingInv => RingIntact
  BY VisitedAll DEF RingInv, Sound, Links, RingIntact
<1>2. QED
  BY <1>1, RingInvariant, PTL
=============================================================================
