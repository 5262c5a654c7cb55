------------------------------ MODULE KeyInput ------------------------------
(***************************************************************************)
(* Reading the keyboard: sys_get and key_get of kernel/syscall/io.c, with   *)
(* the keyboard's interrupt (irq1_handler, keyboard_handler) that calls    *)
(* key_get.  A request lives in four variables, key_lock, key_c, key_len   *)
(* and key_callback, which sys_get sets one after the other with           *)
(* interrupts enabled; the interrupt handler consumes it in one step.      *)
(***************************************************************************)
EXTENDS Naturals

CONSTANTS Readers,      \* processes that call sys_get
          Lengths,      \* the lengths they ask for
          Nobody

ASSUME KeyInputAssumption == Lengths \subseteq Nat \ {0} /\ Nobody \notin Readers

VARIABLES keyLock,      \* key_lock: whose lock key_get opens, or Nobody
          keyC,         \* key_c: whose buffer the next key goes to, or Nobody
          keyLen,       \* key_len
          callback,     \* key_get is registered with the keyboard
          word,         \* word[r]: the byte lock on r's stack
          pc,           \* where r is in sys_get
          asked,        \* asked[r]: the length of r's request
          got,          \* got[r]: keys stored in r's buffer
          raced         \* ghost: a request was set up over one not answered yet

key == <<keyLock, keyC, keyLen, callback>>
vars == <<key, word, pc, asked, got, raced>>

(* lock is a variable of the stack, not initialised when sys_get starts.     *)
Init ==
    /\ keyLock = Nobody
    /\ keyC = Nobody
    /\ keyLen = 0
    /\ callback = FALSE
    /\ word \in [Readers -> {0, 1}]
    /\ pc = [r \in Readers |-> "out"]
    /\ asked = [r \in Readers |-> 0]
    /\ got = [r \in Readers |-> 0]
    /\ raced = FALSE

Setting == {"lock", "ptr", "len", "arm"}
Inside == Setting \cup {"test", "call", "wait", "clear1", "clear2", "unmap"}

Step(r, here, there) == pc[r] = here /\ pc' = [pc EXCEPT ![r] = there]

-----------------------------------------------------------------------------
(* sys_get maps the user's buffer ... *)
Call(r) ==
    /\ Step(r, "out", "test")
    /\ \E len \in Lengths : asked' = [asked EXCEPT ![r] = len]
    /\ got' = [got EXCEPT ![r] = 0]
    /\ UNCHANGED <<key, word, raced>>

(* ... halts until no request is open ... *)
Test(r) ==
    /\ Step(r, "test", "lock")
    /\ keyLen = 0
    /\ UNCHANGED <<key, word, asked, got, raced>>

(* ... and sets up its own.  Nothing keeps two processes from doing so at    *)
(* once; then both have a request and one set of variables describes it.     *)
Unanswered(s) ==
    \/ pc[s] \in Setting \cup {"clear2"}
    \/ pc[s] \in {"call", "wait"} /\ word[s] = 1

SetLock(r) ==
    /\ Step(r, "lock", "ptr")
    /\ keyLock' = r
    /\ raced' = (raced \/ \E s \in Readers \ {r} : Unanswered(s))
    /\ UNCHANGED <<keyC, keyLen, callback, word, asked, got>>

SetPtr(r) ==
    /\ Step(r, "ptr", "len")
    /\ keyC' = r
    /\ UNCHANGED <<keyLock, keyLen, callback, word, asked, got, raced>>

SetLen(r) ==
    /\ Step(r, "len", "arm")
    /\ keyLen' = asked[r]
    /\ UNCHANGED <<keyLock, keyC, callback, word, asked, got, raced>>

(* init_intr_lock comes last: a request the keys have answered by now waits  *)
(* for one key more.                                                         *)
Arm(r) ==
    /\ Step(r, "arm", "call")
    /\ word' = [word EXCEPT ![r] = 1]
    /\ UNCHANGED <<key, asked, got, raced>>

(* set_input_mode and reg_key_callback. *)
Register(r) ==
    /\ Step(r, "call", "wait")
    /\ callback' = TRUE
    /\ UNCHANGED <<keyLock, keyC, keyLen, word, asked, got, raced>>

(* intr_lock returns at once when the word is clear; a process that slept is *)
(* given the word by the scheduler, which sets it.                           *)
Wait(r) ==
    /\ Step(r, "wait", "clear1")
    /\ word[r] = 0
    /\ \E b \in {0, 1} : word' = [word EXCEPT ![r] = b]
    /\ UNCHANGED <<key, asked, got, raced>>

TestLockNot(r) ==                               \* mutation: key_lock is left alone
    /\ Step(r, "clear1", "unmap")
    /\ UNCHANGED <<key, word, asked, got, raced>>

TestLock(r) ==
    /\ Step(r, "clear1", IF keyLock = r THEN "clear2" ELSE "unmap")
    /\ UNCHANGED <<key, word, asked, got, raced>>

ClearLock(r) ==
    /\ Step(r, "clear2", "unmap")
    /\ keyLock' = Nobody
    /\ UNCHANGED <<keyC, keyLen, callback, word, asked, got, raced>>

Leave(r) ==
    /\ Step(r, "unmap", "out")
    /\ asked' = [asked EXCEPT ![r] = 0]
    /\ UNCHANGED <<key, word, got, raced>>

-----------------------------------------------------------------------------
Stored == keyLen > 0 /\ keyC # Nobody

KeyAlways ==                                    \* mutation: every key opens the lock
    /\ callback
    /\ got' = IF Stored THEN [got EXCEPT ![keyC] = @ + 1] ELSE got
    /\ keyLen' = IF Stored THEN keyLen - 1 ELSE keyLen
    /\ word' = IF keyLock # Nobody THEN [word EXCEPT ![keyLock] = 0] ELSE word
    /\ UNCHANGED <<keyLock, keyC, callback, pc, asked, raced>>

KeyOnce ==                                      \* mutation: only the last key opens it
    /\ callback
    /\ got' = IF Stored THEN [got EXCEPT ![keyC] = @ + 1] ELSE got
    /\ keyLen' = IF Stored THEN keyLen - 1 ELSE keyLen
    /\ word' = IF Stored /\ keyLen = 1 /\ keyLock # Nobody
               THEN [word EXCEPT ![keyLock] = 0] ELSE word
    /\ UNCHANGED <<keyLock, keyC, callback, pc, asked, raced>>

(* A key is pressed: key_get, in the interrupt.                              *)
Key ==
    /\ callback
    /\ got' = IF Stored THEN [got EXCEPT ![keyC] = @ + 1] ELSE got
    /\ keyLen' = IF Stored THEN keyLen - 1 ELSE keyLen
    /\ word' = IF keyLen' = 0 /\ keyLock # Nobody
               THEN [word EXCEPT ![keyLock] = 0] ELSE word
    /\ UNCHANGED <<keyLock, keyC, callback, pc, asked, raced>>

Proceed(r) ==
    \/ Test(r) \/ SetLock(r) \/ SetPtr(r) \/ SetLen(r) \/ Arm(r) \/ Register(r)
    \/ Wait(r) \/ TestLock(r) \/ ClearLock(r) \/ Leave(r)

Next == Key \/ \E r \in Readers : Call(r) \/ Proceed(r)

Spec == Init /\ [][Next]_vars

(* The scheduler gives every process its turn, and somebody goes on typing.  *)
FairSpec == Spec /\ WF_vars(Key) /\ \A r \in Readers : SF_vars(Proceed(r))

-----------------------------------------------------------------------------
(* While no two requests overlap, keys go to the buffer of the process that  *)
(* asked, and never beyond the length it mapped; and sys_get returns no      *)
(* sooner than all the keys it was asked for are stored.                     *)
AnswerWhole ==
    ~raced =>
        /\ keyLen > 0 => /\ keyC \in Readers
                         /\ pc[keyC] \in Inside
                         /\ got[keyC] + keyLen = asked[keyC]
        /\ \A r \in Readers :
              pc[r] \in {"clear1", "clear2", "unmap"} => got[r] = asked[r]

(* The handler never opens a lock in the stack frame of a sys_get that has   *)
(* returned.                                                                 *)
LockAlive == \A r \in Readers : keyLock = r => pc[r] \in Inside

(* A process waits for ever only if requests overlapped: one completed       *)
(* before init_intr_lock armed its lock is released by the next key.         *)
GetEnds == \A r \in Readers : pc[r] = "wait" ~> pc[r] = "out" \/ raced
=============================================================================
