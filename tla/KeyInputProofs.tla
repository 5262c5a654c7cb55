--------------------------- MODULE KeyInputProofs ---------------------------
(***************************************************************************)
(* Reading the keyboard, for any number of readers and any lengths: the    *)
(* lock the handler opens is alive, and answers are whole while requests   *)
(* do not overlap.                                                         *)
(*                                                                         *)
(* Neither property is inductive.  A request is one process's as long as   *)
(* key_lock is its own (Owner): then nobody else is between its SetLock    *)
(* and its answer, so the four variables describe one request (Answer).    *)
(***************************************************************************)
EXTENDS KeyInput, TLAPS

Places == Inside \cup {"out"}

TypeOK ==
    /\ keyLock \in Readers \cup {Nobody} /\ keyC \in Readers \cup {Nobody}
    /\ keyLen \in Nat /\ callback \in BOOLEAN
    /\ word \in [Readers -> {0, 1}]
    /\ pc \in [Readers -> Places]
    /\ asked \in [Readers -> Nat] /\ got \in [Readers -> Nat]
    /\ raced \in BOOLEAN

Waiting(r) == pc[r] \in {"call", "wait"}
Armed(r) == Waiting(r) /\ word[r] = 1

(* key_lock is a reader's from its SetLock on, and no longer when it leaves. *)
LockPlaced == \A r \in Readers :
    keyLock = r => pc[r] \in {"ptr", "len", "arm", "call", "wait", "clear1", "clear2"}

(* Whose request the four variables are.                                     *)
Owner == \A r \in Readers :
    /\ pc[r] \in {"ptr", "len", "arm", "clear2"} \/ Armed(r) => keyLock = r
    /\ pc[r] \in {"len", "arm"} \/ Armed(r) => keyC = r

Answer ==
    /\ \A r \in Readers :
        /\ pc[r] \in {"test", "lock", "ptr", "len"} => got[r] = 0
        /\ pc[r] = "arm" \/ Armed(r) => got[r] + keyLen = asked[r]
        /\ pc[r] \in {"clear1", "clear2", "unmap"} \/ (Waiting(r) /\ word[r] = 0)
                => got[r] = asked[r]
    /\ keyLen > 0 => keyC \in Readers /\ (pc[keyC] = "arm" \/ Armed(keyC))

IInv == TypeOK /\ LockPlaced /\ (~raced => Owner /\ Answer)

-----------------------------------------------------------------------------
LEMMA KeyInit == Init => IInv
<1> SUFFICES ASSUME Init PROVE IInv
  OBVIOUS
<1> USE KeyInputAssumption DEF Init
<1>1. TypeOK
  BY DEF TypeOK, Places
<1>2. LockPlaced /\ Owner /\ Answer
  BY DEF LockPlaced, Owner, Answer, Armed, Waiting
<1> QED
  BY <1>1, <1>2 DEF IInv

LEMMA KeyStep == IInv /\ [Next]_vars => IInv'
<1> SUFFICES ASSUME IInv, [Next]_vars PROVE IInv'
  OBVIOUS
<1> USE KeyInputAssumption DEF IInv, TypeOK, LockPlaced, Owner, Answer, Armed, Waiting,
        Places, Inside, Setting, Step, key
<1>1. CASE Key
  <2>1. keyC \in Readers \/ ~Stored
    BY DEF Stored
  <2>2. TypeOK'
    BY <1>1, <2>1 DEF Key, Stored
  <2>3. LockPlaced'
    BY <1>1 DEF Key
  <2>4. ASSUME ~raced PROVE Owner' /\ Answer'
    <3>1. CASE Stored
      BY <1>1, <2>4, <3>1, <2>2 DEF Key, Stored
    <3>2. CASE ~Stored
      BY <1>1, <2>4, <3>2, <2>2 DEF Key, Stored
    <3> QED
      BY <3>1, <3>2
  <2> QED
    BY <1>1, <2>2, <2>3, <2>4 DEF Key
<1>2. ASSUME NEW r \in Readers, Call(r) PROVE IInv'
  <2>1. PICK len \in Lengths : asked' = [asked EXCEPT ![r] = len]
    BY <1>2 DEF Call
  <2> QED
    BY <1>2, <2>1 DEF Call
<1>3. ASSUME NEW r \in Readers, Proceed(r) PROVE IInv'
  <2>1. CASE Test(r)
    BY <2>1 DEF Test
  <2>2. CASE SetLock(r)
    BY <2>2 DEF SetLock, Unanswered
  <2>3. CASE SetPtr(r)
    BY <2>3 DEF SetPtr
  <2>4. CASE SetLen(r)
    BY <2>4 DEF SetLen
  <2>5. CASE Arm(r)
    BY <2>5 DEF Arm
  <2>6. CASE Register(r)
    BY <2>6 DEF Register
  <2>7. CASE Wait(r)
    BY <2>7 DEF Wait
  <2>8. CASE TestLock(r)
    BY <2>8 DEF TestLock
  <2>9. CASE ClearLock(r)
    BY <2>9 DEF ClearLock
  <2>10. CASE Leave(r)
    BY <2>10 DEF Leave
  <2> QED
    BY <1>3, <2>1, <2>2, <2>3, <2>4, <2>5, <2>6, <2>7, <2>8, <2>9, <2>10 DEF Proceed
<1>4. CASE UNCHANGED vars
  BY <1>4 DEF vars
<1> QED
  BY <1>1, <1>2, <1>3, <1>4 DEF Next

-----------------------------------------------------------------------------
(* The inductive invariant: whose lock, buffer and length the handler of the *)
(* keyboard finds, for any number of processes in sys_get.                   *)
THEOREM KeyInvariant == Spec => []IInv
BY KeyInit, KeyStep, PTL DEF Spec

(* key_get never opens a lock in the stack frame of a sys_get that has       *)
(* returned, overlapping requests or not.                                    *)
THEOREM LockStaysAlive == Spec => []LockAlive
<1>1. IInv => LockAlive
  BY DEF IInv, LockPlaced, LockAlive, Inside, Setting
<1> QED
  BY <1>1, KeyInvariant, PTL

(* While requests do not overlap, keys go to the buffer of the process that  *)
(* asked, no more than it asked for, and sys_get returns with all of them.   *)
THEOREM AnswersWhole == Spec => []AnswerWhole
<1>1. IInv => AnswerWhole
  BY DEF IInv, TypeOK, Answer, Owner, Armed, Waiting, AnswerWhole, Inside, Setting
<1> QED
  BY <1>1, KeyInvariant, PTL
=============================================================================
