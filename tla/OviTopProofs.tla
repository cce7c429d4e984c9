---------------------------- MODULE OviTopProofs ----------------------------
(*************************************************************************)
(* Theorems about the OVI bridge in its harness, for every value of the  *)
(* constants of OviTop: types and lockstep, the count of the petitions   *)
(* and the abstract transfer it implements, and the data of stores and   *)
(* loads.  Most of them rest on one assumption or more:                  *)
(*                                                                       *)
(*  - CounterHolds: no program is so long that the drift of the credit   *)
(*    counter could take it past its 4 bits;                             *)
(*  - WholePackets: every vector has a packet; one without has no last   *)
(*    packet, and the bridge never leaves its memory state;              *)
(*  - no delay of the VPU is zero: the harness answers a store too, nine *)
(*    cycles after it, and with delays of zero the petition of a load    *)
(*    that follows turns that answer into one of its own.                *)
(*************************************************************************)
EXTENDS OviTop, OviProofs

-----------------------------------------------------------------------------
(* Type correctness, machine by machine.                                     *)

(* The instruction on the core bus is one the bridge can save. *)
LEMMA CoreBusType ==
  ASSUME AutomataTypeOK PROVE CORE_ISSUE_instr \in Instructions
<1>1. MEM[mem_ptr] \in Kinds \/ at_end
  BY AutomataAssumption DEF AutomataTypeOK, at_end, Kinds
<1> QED
  BY <1>1 DEF AutomataTypeOK, CORE_ISSUE_instr, Instructions, Sews, Kinds

LEMMA AutomataTypeStep ==
  ASSUME AutomataTypeOK, AutomataEdge(CORE_HALT, vpu_completed, load_valid, store_valid)
  PROVE  AutomataTypeOK'
<1>1. ASSUME NEW l, NEW s, Memory(l, s)
      PROVE  /\ reg_memready' \in 0..6 /\ reg_memvalid' \in 0..5 /\ delay' \in 0..15
             /\ LMEM' \in Nat /\ is_load' \in BOOLEAN
             /\ UNCHANGED <<MEM, vl, sew>>
  <2>1. reg_memready' \in 0..6 /\ reg_memvalid' \in 0..5
    BY <1>1 DEF Memory, AutomataTypeOK
  <2>2. delay' \in 0..15 /\ LMEM' \in Nat
    BY <1>1 DEF Memory, AutomataTypeOK
  <2>3. is_load' \in BOOLEAN /\ UNCHANGED <<MEM, vl, sew>>
    BY <1>1 DEF Memory, AutomataTypeOK
  <2> QED
    BY <2>1, <2>2, <2>3
<1>2. aut_state' \in {"REST", "READ_AND_ISSUE", "WAIT_ANSWER"}
  BY DEF AutomataEdge, Rest, ReadAndIssue, WaitAnswer, AutomataTypeOK
<1>5. mem_ptr' \in 0..63
  <2>1. mem_ptr' = mem_ptr \/ mem_ptr' = (mem_ptr + 1) % 64
    BY DEF AutomataEdge, Rest, ReadAndIssue, WaitAnswer
  <2> QED
    BY <2>1 DEF AutomataTypeOK
<1>3. Memory(FALSE, FALSE) \/ Memory(load_valid, store_valid)
  BY DEF AutomataEdge, Rest, ReadAndIssue, WaitAnswer
<1>4. /\ reg_memready' \in 0..6 /\ reg_memvalid' \in 0..5 /\ delay' \in 0..15
      /\ LMEM' \in Nat /\ is_load' \in BOOLEAN
      /\ UNCHANGED <<MEM, vl, sew>>
  BY <1>1, <1>3
<1> QED
  BY <1>2, <1>4, <1>5 DEF AutomataTypeOK

VpuStep == VpuEdge(issuing, CORE_ISSUE_instr, sbid_counter, ChunkElements(vpu_instr.sew),
                   vpu_send_store_credit, sync_end)

(* Every register keeps the range its width gives it (automata.sv, ovi.sv). *)
THEOREM TypeCorrect == Spec => []TypeOK
<1>1. Init => TypeOK
  <2> SUFFICES ASSUME Init PROVE TypeOK
    OBVIOUS
  <2>1. OviTypeOK
    <3>1. instr \in Instructions
      BY DEF Init, OviInit, Instructions, Kinds, Sews
    <3>2. issue_credits \in 0..15 /\ sbid_counter \in 0..SbIds - 1
      BY OviAssumption DEF Init, OviInit
    <3>3. /\ curr_state \in OviStates
          /\ n_packets \in Nat /\ sent_packets \in Nat /\ load_packets \in Nat
          /\ addr_offset \in Nat /\ el_id \in Nat /\ el_count \in Nat
          /\ buffer_store_index \in 0..63
      BY DEF Init, OviInit, OviStates
    <3>4. /\ DOMAIN BUFFER_LOAD = 0..SubPackets - 1
          /\ DOMAIN BUFFER_STORE = 0..StoreDepth - 1
      BY DEF Init, OviInit
    <3>5. /\ send_load_petition \in BOOLEAN /\ send_store_petition \in BOOLEAN
          /\ vpu_send_store_credit \in BOOLEAN
          /\ sync_end \in BOOLEAN /\ buffer_load_ready \in BOOLEAN
      BY DEF Init, OviInit
    <3> QED
      BY <3>1, <3>2, <3>3, <3>4, <3>5 DEF OviTypeOK
  <2>2. AutomataTypeOK
    <3>1. vl \in Nat /\ sew \in 0..3
      BY AutomataAssumption DEF Init, AutomataInit
    <3>2. /\ MEM \in Programs /\ mem_ptr \in 0..63 /\ delay \in 0..15 /\ LMEM \in Nat
          /\ reg_memready \in 0..6 /\ reg_memvalid \in 0..5
      BY DEF Init, AutomataInit
    <3>3. aut_state \in {"REST", "READ_AND_ISSUE", "WAIT_ANSWER"} /\ is_load \in BOOLEAN
      BY DEF Init, AutomataInit
    <3> QED
      BY <3>1, <3>2, <3>3 DEF AutomataTypeOK
  <2>3. VpuTypeOK /\ vpu_instr \in Instructions /\ served \in Nat /\ collided \in Nat
    <3>1. vpu_instr \in Instructions
      BY DEF Init, VpuInit, Instructions, Kinds, Sews
    <3>2. vpu_store_credits \in Int
      BY VpuAssumption DEF Init, VpuInit
    <3> QED
      BY <3>1, <3>2 DEF Init, VpuInit, VpuTypeOK
  <2> QED
    BY <2>1, <2>2, <2>3 DEF TypeOK
<1>2. TypeOK /\ [Next]_vars => TypeOK'
  <2> SUFFICES ASSUME TypeOK, [Next]_vars PROVE TypeOK'
    OBVIOUS
  <2>1. CASE Next
    <3>1. CORE_ISSUE_instr \in Instructions
      BY CoreBusType DEF TypeOK
    <3>2. OviTypeOK' /\ AutomataTypeOK' /\ VpuTypeOK'
      <4>1. core_bus.issue \in Instructions /\ VpuBus.credit \in BOOLEAN
        BY <3>1 DEF TypeOK, VpuTypeOK, core_bus, VpuBus
      <4> QED
        BY <2>1, <4>1, OviTypeStep, AutomataTypeStep, VpuTypeStep DEF Next, TypeOK
    <3>3. vpu_instr' \in Instructions
      BY <2>1, <3>1
      DEF Next, TypeOK, VpuEdge, VpuAccept, VpuIdle, VpuWait, VpuComplete, VpuStartMemory,
          VpuMemory
    <3>4. served' \in Nat /\ collided' \in Nat
      BY <2>1 DEF Next, History, TypeOK
    <3> QED
      BY <3>2, <3>3, <3>4 DEF TypeOK
  <2>2. CASE UNCHANGED vars
    <3>1. UNCHANGED <<oviVars, autVars, vpuVars, served, collided>>
      BY <2>2 DEF vars, history
    <3>2. OviTypeOK' /\ UNCHANGED vpu_instr
      BY <3>1 DEF oviVars, control, counters, pulses, buffers, vpuVars, TypeOK, OviTypeOK
    <3>3. AutomataTypeOK'
      BY <3>1 DEF autVars, TypeOK, AutomataTypeOK
    <3>4. VpuTypeOK'
      BY <3>1 DEF vpuVars, TypeOK, VpuTypeOK
    <3> QED
      BY <3>1, <3>2, <3>3, <3>4 DEF TypeOK
  <2> QED
    BY <2>1, <2>2
<1> QED
  BY <1>1, <1>2, PTL DEF Spec

-----------------------------------------------------------------------------
(* The three machines in lockstep.                                           *)

(* No program is so long that its collisions take the counter past 15 while an
   instruction is still to come: 13 instructions with the 4 credits of the code,
   whose programs have 7 and 5 (memfiles/arith.mem, memarith.mem). *)
CounterHolds == \A p \in Programs : \A i \in DOMAIN p : MaxCredits + i <= 16

(* The first issue meets no credit, and each later one meets one at most. *)
CollisionsBounded ==
  /\ mem_ptr = 0 => vpu_owed = 0 /\ ~vpu_credit
  /\ collided > 0 => collided < mem_ptr

(* What the automata saw of the bridge when it left REST still holds in
   READ_AND_ISSUE. *)
ReadyToIssue ==
  aut_state = "READ_AND_ISSUE" =>
    curr_state = "WAIT_ISSUE" /\ issue_credits > 0 /\ delay = 0 /\ ~at_end

(* The inductive invariant. *)
IInv == TypeOK /\ Lockstep /\ CreditsAccounted /\ CollisionsBounded /\ ReadyToIssue

(* The actions of Next, one name per machine. *)
BridgeStep == OviEdge(core_bus, MemBus(petition), VpuBus)
AutomataStep == AutomataEdge(CORE_HALT, vpu_completed, load_valid, store_valid)

LEMMA IssuingIsReadAndIssue ==
  ASSUME ReadyToIssue PROVE issuing <=> aut_state = "READ_AND_ISSUE"
BY DEF ReadyToIssue, issuing, VPU_ISSUE, issue_valid, CORE_ISSUE_valid, halt, CORE_HALT

(* The bridge in WAIT_ISSUE and in WAIT_ANSWER, seen from outside. *)
LEMMA BridgeWaitIssue ==
  ASSUME BridgeStep, curr_state = "WAIT_ISSUE"
  PROVE  IF issuing THEN Issue(issue_valid, CORE_ISSUE_instr, vpu_credit)
                    ELSE Idle(issue_valid, vpu_credit)
BY DEF BridgeStep, OviEdge, core_bus, VpuBus, MemBus, Idle, Issue, Answer, ReceiveData, SendData,
       issuing

LEMMA BridgeWaitAnswer ==
  ASSUME BridgeStep, curr_state = "WAIT_ANSWER"
  PROVE  Answer(vpu_completed, vpu_sync_start, vpu_credit)
BY DEF BridgeStep, OviEdge, core_bus, VpuBus, MemBus, Idle, Issue, Answer, ReceiveData, SendData,
       VPU_ISSUE

(* In a memory state the bridge raises sync_end exactly when it leaves. *)
LEMMA BridgeMemory ==
  ASSUME BridgeStep, curr_state \in {"RECEIVE_DATA", "SEND_DATA"}, TypeOK
  PROVE  /\ sync_end' \in BOOLEAN
         /\ curr_state' = IF sync_end' THEN "WAIT_ANSWER" ELSE curr_state
         /\ Credits(FALSE, vpu_credit)
         /\ UNCHANGED instr
<1>1. \/ ReceiveData(memready /\ ~petition, vpu_store_valid, vpu_store_data, vpu_credit)
      \/ SendData(memready /\ ~petition, datavalid /\ is_load, LMEM, vpu_credit)
  BY DEF BridgeStep, OviEdge, core_bus, VpuBus, MemBus, Idle, Issue, Answer, VPU_ISSUE
<1> QED
  BY <1>1 DEF ReceiveData, SendData

(* An automata that waits goes to REST when it sees completed: the bridge still
   halts it in that cycle. *)
LEMMA AutomataWaits ==
  ASSUME AutomataStep, aut_state = "WAIT_ANSWER", curr_state # "WAIT_ISSUE"
  PROVE  aut_state' = IF vpu_completed THEN "REST" ELSE "WAIT_ANSWER"
BY DEF AutomataStep, AutomataEdge, Rest, ReadAndIssue, WaitAnswer, halt, CORE_HALT

(* The VPU's side of the credits, in every step. *)
LEMMA VpuCredits ==
  ASSUME VpuStep PROVE GiveCredit(issuing)
BY DEF VpuStep, VpuEdge, VpuAccept, VpuIdle, VpuWait, VpuComplete, VpuStartMemory, VpuMemory,
       GiveCredit

(* The counter follows the credits that are left, modulo its width. *)
LEMMA CreditStep ==
  ASSUME TypeOK, CreditsAccounted, VpuStep, BridgeStep, History
  PROVE  CreditsAccounted'
<1> DEFINE pulse == IF vpu_credit THEN 1 ELSE 0
           left == credits_left
<1>1. Credits(issuing, vpu_credit)
  BY DEF BridgeStep, OviEdge, core_bus, VpuBus, MemBus, Idle, Issue, Answer, ReceiveData, SendData,
         issuing, VPU_ISSUE
<1>2. GiveCredit(issuing) /\ vpu_credit' \in BOOLEAN
  BY VpuCredits DEF GiveCredit
<1>3. /\ issue_credits \in 0..15 /\ vpu_owed \in Nat /\ vpu_credit \in BOOLEAN
      /\ collided \in Nat /\ MaxCredits \in 1..15
  BY OviAssumption DEF TypeOK, OviTypeOK, VpuTypeOK
<1>4. issuing \in BOOLEAN /\ (issuing => issue_credits > 0)
  BY DEF issuing, VPU_ISSUE
<1>5. left \in Nat /\ issue_credits = left % 16
  BY <1>3 DEF credits_left, CreditsAccounted
<1>6. /\ vpu_owed' = vpu_owed + (IF issuing THEN 1 ELSE 0) - (IF vpu_credit' THEN 1 ELSE 0)
      /\ collided' = IF issuing /\ vpu_credit THEN collided + 1 ELSE collided
  BY <1>2 DEF GiveCredit, History
<1>7. left' = IF vpu_credit THEN left + 1 ELSE IF issuing THEN left - 1 ELSE left
  BY <1>2, <1>3, <1>4, <1>6 DEF credits_left
<1> HIDE DEF left
<1>8. CASE vpu_credit
  <2>1. issue_credits' = (issue_credits + 1) % 16 /\ left' = left + 1
    BY <1>1, <1>7, <1>8 DEF Credits
  <2>2. issue_credits' = left' % 16 /\ left' >= 0
    BY <1>5, <2>1
  <2> QED
    BY <2>2 DEF CreditsAccounted, left
<1>9. CASE ~vpu_credit /\ issuing
  <2>1. issue_credits' = issue_credits - 1 /\ left' = left - 1
    BY <1>1, <1>7, <1>9 DEF Credits
  <2>2. issue_credits' = left' % 16 /\ left' >= 0
    BY <1>4, <1>5, <1>9, <2>1
  <2> QED
    BY <2>2 DEF CreditsAccounted, left
<1>10. CASE ~vpu_credit /\ ~issuing
  <2>1. issue_credits' = issue_credits /\ left' = left
    BY <1>1, <1>7, <1>10 DEF Credits
  <2>2. issue_credits' = left' % 16 /\ left' >= 0
    BY <1>5, <2>1
  <2> QED
    BY <2>2 DEF CreditsAccounted, left
<1> QED
  BY <1>3, <1>4, <1>8, <1>9, <1>10

(* However late the VPU returns its credits, and however many at a time are on
   their way, the counter of the bridge is off by the credits that came back in
   the cycle of an issue and by nothing else, modulo 16; and the VPU is never
   sent more instructions than its credits and those (issue_credits, ovi.sv). *)
THEOREM CreditsAreAccounted == Spec => []CreditsAccounted
<1>1. Init => CreditsAccounted
  <2> SUFFICES ASSUME Init PROVE CreditsAccounted
    OBVIOUS
  <2>1. credits_left = MaxCredits /\ issue_credits = MaxCredits /\ MaxCredits \in 1..15
    BY OviAssumption DEF Init, OviInit, VpuInit, credits_left
  <2> QED
    BY <2>1 DEF CreditsAccounted
<1>2. TypeOK /\ CreditsAccounted /\ Next => CreditsAccounted'
  BY CreditStep DEF Next, BridgeStep, VpuStep
<1>3. CreditsAccounted /\ UNCHANGED vars => CreditsAccounted'
  BY DEF vars, oviVars, control, vpuVars, history, CreditsAccounted, credits_left
<1>4. TypeOK /\ CreditsAccounted /\ [Next]_vars => CreditsAccounted'
  BY <1>2, <1>3
<1> QED
  BY <1>1, <1>4, TypeCorrect, PTL DEF Spec

LEMMA CollisionStep ==
  ASSUME CounterHolds, IInv, AutomataStep, VpuStep, History
  PROVE  CollisionsBounded'
<1>1. /\ vpu_owed \in Nat /\ vpu_credit \in BOOLEAN /\ collided \in Nat /\ mem_ptr \in 0..63
      /\ MEM \in Programs /\ CollisionsBounded /\ ReadyToIssue
  BY DEF IInv, TypeOK, VpuTypeOK, AutomataTypeOK
<1>2. CASE issuing
  <2>1. aut_state = "READ_AND_ISSUE" /\ mem_ptr \in DOMAIN MEM
    BY <1>1, <1>2, IssuingIsReadAndIssue DEF ReadyToIssue, at_end
  <2>2. mem_ptr <= 15
    BY <1>1, <2>1, OviAssumption DEF CounterHolds
  <2>3. mem_ptr' = mem_ptr + 1
    <3>1. mem_ptr' = (mem_ptr + 1) % 64
      BY <2>1 DEF AutomataStep, AutomataEdge, Rest, ReadAndIssue, WaitAnswer
    <3> QED
      BY <1>1, <2>2, <3>1
  <2>4. collided' = IF vpu_credit THEN collided + 1 ELSE collided
    BY <1>2 DEF History
  <2>5. vpu_credit => mem_ptr > 0
    BY <1>1 DEF CollisionsBounded
  <2> QED
    BY <1>1, <2>3, <2>4, <2>5 DEF CollisionsBounded
<1>3. CASE ~issuing
  <2>1. mem_ptr' = mem_ptr
    BY <1>1, <1>3, IssuingIsReadAndIssue
    DEF AutomataStep, AutomataEdge, Rest, ReadAndIssue, WaitAnswer
  <2>2. collided' = collided
    BY <1>3 DEF History
  <2>3. mem_ptr = 0 => vpu_owed' = 0 /\ ~vpu_credit'
    <3> SUFFICES ASSUME mem_ptr = 0 PROVE vpu_owed' = 0 /\ ~vpu_credit'
      OBVIOUS
    <3>1. vpu_owed = 0
      BY <1>1 DEF CollisionsBounded
    <3>2. ~vpu_credit'
      BY <3>1, VpuCredits DEF GiveCredit
    <3>3. vpu_owed' = vpu_owed + 0 - 0
      BY <1>3, <3>2, VpuCredits DEF GiveCredit
    <3> QED
      BY <3>1, <3>2, <3>3
  <2> QED
    BY <1>1, <2>1, <2>2, <2>3 DEF CollisionsBounded
<1> QED
  BY <1>2, <1>3

(* With an instruction still to come, a credit that arrives does not take the
   counter past its width. *)
LEMMA RoomInTheCounter ==
  ASSUME CounterHolds, TypeOK, CreditsAccounted, CollisionsBounded, ~at_end, vpu_credit
  PROVE  issue_credits < 15
<1>1. /\ vpu_owed \in Nat /\ collided \in Nat /\ mem_ptr \in 0..63 /\ MaxCredits \in 1..15
      /\ MEM \in Programs
  BY OviAssumption DEF TypeOK, VpuTypeOK, AutomataTypeOK
<1>2. MaxCredits + mem_ptr <= 16
  BY <1>1 DEF CounterHolds, at_end
<1>3. mem_ptr > 0
  BY <1>1 DEF CollisionsBounded
<1>4. MaxCredits + collided <= 15
  BY <1>1, <1>2, <1>3 DEF CollisionsBounded
<1>5. credits_left \in 0..14
  BY <1>1, <1>4 DEF CreditsAccounted, credits_left
<1> HIDE DEF credits_left
<1> QED
  BY <1>5 DEF CreditsAccounted

LEMMA LockstepStep ==
  ASSUME IInv, BridgeStep, AutomataStep, VpuStep
  PROVE  Lockstep'
<1>0. TypeOK /\ Lockstep /\ ReadyToIssue
  BY DEF IInv
<1>1. CASE issuing
  <2>1. /\ curr_state = "WAIT_ISSUE" /\ aut_state = "READ_AND_ISSUE"
        /\ Issue(issue_valid, CORE_ISSUE_instr, vpu_credit)
    BY <1>0, <1>1, IssuingIsReadAndIssue, BridgeWaitIssue DEF issuing, VPU_ISSUE
  <2>2. VpuAccept(issuing, CORE_ISSUE_instr, sbid_counter)
    BY <1>1 DEF VpuStep, VpuEdge, VpuIdle, VpuWait, VpuComplete, VpuStartMemory, VpuMemory
  <2>3. aut_state' = "WAIT_ANSWER"
    BY <2>1 DEF AutomataStep, AutomataEdge, Rest, ReadAndIssue, WaitAnswer
  <2>4. curr_state' = "WAIT_ANSWER" /\ ~sync_end' /\ instr' = vpu_instr'
    BY <2>1, <2>2 DEF Issue, NoPulses, VpuAccept
  <2>5. vpu_state' = "BUSY" /\ ~vpu_completed' /\ ~vpu_sync_start'
    BY <2>2 DEF VpuAccept, Silent
  <2> QED
    BY <2>3, <2>4, <2>5 DEF Lockstep
<1>2. CASE ~issuing /\ vpu_state = "IDLE" /\ ~vpu_completed
  <2>1. curr_state = "WAIT_ISSUE" /\ aut_state # "WAIT_ANSWER" /\ aut_state # "READ_AND_ISSUE"
    BY <1>0, <1>2, IssuingIsReadAndIssue DEF Lockstep
  <2>2. Idle(issue_valid, vpu_credit)
    BY <1>2, <2>1, BridgeWaitIssue
  <2>3. VpuIdle(issuing)
    BY <1>2 DEF VpuStep, VpuEdge, VpuAccept, VpuWait, VpuComplete, VpuStartMemory, VpuMemory
  <2>4. aut_state' # "WAIT_ANSWER"
    BY <2>1 DEF AutomataStep, AutomataEdge, Rest, ReadAndIssue, WaitAnswer
  <2>5. curr_state' = "WAIT_ISSUE" /\ ~sync_end'
    BY <2>1, <2>2 DEF Idle, NoPulses
  <2>6. vpu_state' = "IDLE" /\ ~vpu_completed' /\ ~vpu_sync_start'
    BY <1>2, <2>3 DEF VpuIdle, Silent
  <2> QED
    BY <2>4, <2>5, <2>6 DEF Lockstep
<1>3. CASE ~issuing /\ vpu_state = "IDLE" /\ vpu_completed
  <2>1. curr_state = "WAIT_ANSWER" /\ aut_state = "WAIT_ANSWER"
    BY <1>0, <1>3 DEF Lockstep
  <2>2. Answer(vpu_completed, vpu_sync_start, vpu_credit)
    BY <2>1, BridgeWaitAnswer
  <2>3. VpuIdle(issuing)
    BY <1>3 DEF VpuStep, VpuEdge, VpuAccept, VpuWait, VpuComplete, VpuStartMemory, VpuMemory
  <2>4. aut_state' = "REST"
    BY <1>3, <2>1, AutomataWaits
  <2>5. curr_state' = "WAIT_ISSUE" /\ ~sync_end'
    BY <1>3, <2>2 DEF Answer, NoPulses
  <2>6. vpu_state' = "IDLE" /\ ~vpu_completed' /\ ~vpu_sync_start'
    BY <1>3, <2>3 DEF VpuIdle, Silent
  <2> QED
    BY <2>4, <2>5, <2>6 DEF Lockstep
<1>4. CASE ~issuing /\ vpu_state \in {"BUSY", "DRAIN"}
  <2>1. /\ curr_state = "WAIT_ANSWER" /\ aut_state = "WAIT_ANSWER"
        /\ ~vpu_completed /\ ~vpu_sync_start /\ vpu_instr = instr
    BY <1>0, <1>4 DEF Lockstep
  <2>2. Answer(vpu_completed, vpu_sync_start, vpu_credit)
    BY <2>1, BridgeWaitAnswer
  <2>3. aut_state' = "WAIT_ANSWER"
    BY <2>1, AutomataWaits
  <2>4. curr_state' = "WAIT_ANSWER" /\ ~sync_end' /\ instr' = instr
    BY <2>1, <2>2 DEF Answer, NoPulses
  <2>5. VpuWait(issuing) \/ VpuComplete(issuing) \/ VpuStartMemory(issuing)
    BY <1>4 DEF VpuStep, VpuEdge, VpuAccept, VpuIdle, VpuMemory
  <2>6. CASE VpuWait(issuing)
    <3>1. /\ vpu_state' = vpu_state /\ vpu_instr' = vpu_instr
          /\ ~vpu_completed' /\ ~vpu_sync_start'
      BY <2>6 DEF VpuWait, Silent
    <3> QED
      BY <1>4, <2>1, <2>3, <2>4, <3>1 DEF Lockstep
  <2>7. CASE VpuComplete(issuing)
    <3>1. /\ vpu_state' = "IDLE" /\ vpu_instr' = vpu_instr
          /\ vpu_completed' /\ ~vpu_sync_start'
      BY <2>7 DEF VpuComplete
    <3> QED
      BY <2>1, <2>3, <2>4, <3>1 DEF Lockstep
  <2>8. CASE VpuStartMemory(issuing)
    <3>1. /\ vpu_state' = "MEMORY" /\ vpu_instr' = vpu_instr
          /\ ~vpu_completed' /\ vpu_sync_start' /\ vpu_instr.kind # "arith"
      BY <2>8 DEF VpuStartMemory
    <3>2. memory_op'
      BY <1>0, <2>1, <2>4, <3>1 DEF memory_op, TypeOK, Instructions, Kinds
    <3> QED
      BY <2>1, <2>3, <2>4, <3>1, <3>2 DEF Lockstep
  <2> QED
    BY <2>5, <2>6, <2>7, <2>8
<1>5. CASE ~issuing /\ vpu_state = "MEMORY"
  <2>0. /\ curr_state # "WAIT_ISSUE" /\ aut_state = "WAIT_ANSWER" /\ vpu_instr = instr
        /\ memory_op /\ ~vpu_completed /\ ~(vpu_sync_start /\ sync_end)
        /\ curr_state = IF vpu_sync_start \/ sync_end THEN "WAIT_ANSWER" ELSE memory_state
        /\ memory_state \in {"RECEIVE_DATA", "SEND_DATA"}
    BY <1>0, <1>5 DEF Lockstep, memory_op, memory_state
  <2>1. VpuMemory(issuing, ChunkElements(vpu_instr.sew), vpu_send_store_credit, sync_end)
    BY <1>5 DEF VpuStep, VpuEdge, VpuAccept, VpuIdle, VpuWait, VpuComplete, VpuStartMemory
  <2>2. /\ vpu_state' = (IF sync_end THEN "DRAIN" ELSE "MEMORY") /\ vpu_instr' = vpu_instr
        /\ ~vpu_completed' /\ ~vpu_sync_start'
    BY <1>5, <2>1 DEF VpuMemory
  <2>3. aut_state' = "WAIT_ANSWER"
    BY <2>0, AutomataWaits
  <2>4. CASE sync_end
    <3>1. Answer(vpu_completed, vpu_sync_start, vpu_credit)
      BY <2>0, <2>4, BridgeWaitAnswer
    <3>2. curr_state' = "WAIT_ANSWER" /\ ~sync_end' /\ instr' = instr
      BY <2>0, <2>4, <3>1 DEF Answer, NoPulses
    <3> QED
      BY <2>0, <2>2, <2>3, <2>4, <3>2 DEF Lockstep
  <2>5. CASE vpu_sync_start
    <3>1. Answer(vpu_completed, vpu_sync_start, vpu_credit)
      BY <2>0, <2>5, BridgeWaitAnswer
    <3>2. curr_state' = memory_state /\ ~sync_end' /\ instr' = instr
      BY <2>0, <2>5, <3>1 DEF Answer, NoPulses, StartMemory
    <3>3. memory_op' /\ memory_state' = memory_state
      BY <2>0, <3>2 DEF memory_op, memory_state
    <3> QED
      BY <2>0, <2>2, <2>3, <2>5, <3>2, <3>3 DEF Lockstep
  <2>6. CASE ~sync_end /\ ~vpu_sync_start
    <3>1. /\ sync_end' \in BOOLEAN
          /\ curr_state' = (IF sync_end' THEN "WAIT_ANSWER" ELSE memory_state)
          /\ instr' = instr
      BY <1>0, <2>0, <2>6, BridgeMemory
    <3>2. memory_op' /\ memory_state' = memory_state
      BY <2>0, <3>1 DEF memory_op, memory_state
    <3> QED
      BY <2>0, <2>2, <2>3, <2>6, <3>1, <3>2 DEF Lockstep
  <2> QED
    BY <2>4, <2>5, <2>6
<1> QED
  BY <1>0, <1>1, <1>2, <1>3, <1>4, <1>5 DEF TypeOK, VpuTypeOK

LEMMA ReadyStep ==
  ASSUME CounterHolds, IInv, BridgeStep, AutomataStep, VpuStep
  PROVE  ReadyToIssue'
<1>0. TypeOK /\ Lockstep /\ ReadyToIssue /\ CreditsAccounted /\ CollisionsBounded
  BY DEF IInv
<1> SUFFICES ASSUME aut_state' = "READ_AND_ISSUE"
             PROVE  (curr_state = "WAIT_ISSUE" /\ issue_credits > 0 /\ delay = 0 /\ ~at_end)'
  BY DEF ReadyToIssue
<1>1. Rest(CORE_HALT) /\ ~halt(CORE_HALT)
  <2>1. Rest(CORE_HALT) \/ WaitAnswer(CORE_HALT, vpu_completed, load_valid, store_valid)
    BY DEF AutomataStep, AutomataEdge, ReadAndIssue
  <2>2. ~WaitAnswer(CORE_HALT, vpu_completed, load_valid, store_valid)
    BY <1>0, AutomataWaits DEF Lockstep, WaitAnswer
  <2> QED
    BY <2>1, <2>2 DEF Rest
<1>2. curr_state = "WAIT_ISSUE" /\ issue_credits # 0 /\ delay = 0 /\ ~at_end
  BY <1>1 DEF halt, CORE_HALT
<1>3. Idle(issue_valid, vpu_credit)
  <2>1. ~issuing
    BY <1>0, <1>1, IssuingIsReadAndIssue DEF Rest
  <2> QED
    BY <1>2, <2>1, BridgeWaitIssue
<1>4. curr_state' = "WAIT_ISSUE"
  BY <1>2, <1>3 DEF Idle
<1>5. issue_credits' > 0
  <2>1. issue_credits \in 1..15 /\ vpu_owed \in Nat
    BY <1>0, <1>2 DEF TypeOK, OviTypeOK, VpuTypeOK
  <2>2. vpu_credit => issue_credits < 15
    BY <1>0, <1>2, RoomInTheCounter
  <2> QED
    BY <1>3, <2>1, <2>2 DEF Idle, Credits
<1>6. delay' = 0 /\ ~at_end'
  BY <1>1, <1>2 DEF Rest, Memory, at_end
<1> QED
  BY <1>4, <1>5, <1>6

(* The inductive invariant, for programs with which the counter holds; in a
   longer one it may wrap to 0 in the cycle in which the automata has already
   seen it above 0, and ReadyToIssue fails. *)
LEMMA InductiveInvariant ==
  ASSUME CounterHolds PROVE Spec => []IInv
<1> DEFINE J == Lockstep /\ CollisionsBounded /\ ReadyToIssue
           K == TypeOK /\ CreditsAccounted
<1>1. Init => J
  BY DEF Init, OviInit, AutomataInit, VpuInit, Lockstep, ReadyToIssue, CollisionsBounded
<1>2. K /\ J /\ Next => J'
  <2> SUFFICES ASSUME K, J, Next PROVE J'
    OBVIOUS
  <2>1. BridgeStep /\ AutomataStep /\ VpuStep /\ History
    BY DEF Next, BridgeStep, AutomataStep, VpuStep
  <2>2. IInv
    BY DEF IInv
  <2> QED
    BY <2>1, <2>2, LockstepStep, ReadyStep, CollisionStep
<1>3. K /\ J /\ UNCHANGED vars => J'
  BY DEF vars, oviVars, control, counters, pulses, buffers, autVars, vpuVars, history,
         Lockstep, CollisionsBounded, ReadyToIssue, memory_op, memory_state, at_end
<1>4. Spec => []K
  BY TypeCorrect, CreditsAreAccounted, PTL
<1>5. K /\ J /\ [Next]_vars => J'
  BY <1>2, <1>3
<1>6. K /\ J => IInv
  BY DEF IInv
<1> HIDE DEF J, K
<1>7. Spec => []J
  BY <1>1, <1>4, <1>5, PTL DEF Spec
<1> QED
  BY <1>4, <1>6, <1>7, PTL

(* No pulse between the three machines is missed (Lockstep). *)
THEOREM StaysInLockstep == ASSUME CounterHolds PROVE Spec => []Lockstep
<1>1. IInv => Lockstep
  BY DEF IInv
<1> QED
  BY <1>1, InductiveInvariant, PTL

(* The automata never moves its pointer past an instruction the bridge did not
   take. *)
THEOREM NoneSkipped == ASSUME CounterHolds PROVE Spec => []NoInstructionSkipped
<1>1. IInv => NoInstructionSkipped
  BY IssuingIsReadAndIssue DEF IInv, NoInstructionSkipped
<1> QED
  BY <1>1, InductiveInvariant, PTL

(* Every vector of the harness has a packet. *)
WholePackets ==
  \A i \in Instructions : <<i.vl, i.sew>> \in VectorConfigs => PacketsOf(i) > 0

-----------------------------------------------------------------------------
(* The petitions are counted.                                                *)

(* Packets the instruction has to move. *)
due == IF memory_op THEN n_packets ELSE 0
on_core_bus == IF petition THEN 1 ELSE 0

(* Where the count of petitions stands in every phase of an instruction. *)
PetitionsCounted ==
  /\ <<vl, sew>> \in VectorConfigs
  /\ curr_state # "WAIT_ISSUE" => n_packets > 0
  /\ curr_state = "WAIT_ISSUE" => served = due
  /\ vpu_state = "BUSY" \/ vpu_sync_start =>
       served = 0 /\ sent_packets = 0 /\ load_packets = 0
  /\ curr_state \in {"RECEIVE_DATA", "SEND_DATA"} => sent_packets = served
  /\ curr_state = "RECEIVE_DATA" => served + on_core_bus < n_packets
  /\ curr_state = "SEND_DATA" => served + on_core_bus <= n_packets
  /\ vpu_state = "MEMORY" /\ sync_end => served + on_core_bus = n_packets
  /\ vpu_state = "DRAIN" => memory_op
  /\ vpu_state = "DRAIN" \/ vpu_completed => served = due
  /\ store_valid => curr_state = "RECEIVE_DATA" \/ (vpu_state = "MEMORY" /\ sync_end)

(* Answers the memory still owes: the count to the answer starts when the count
   to the next petition passes 3. *)
answers_owed == (IF reg_memready >= 3 THEN 1 ELSE 0) + (IF reg_memvalid >= 1 THEN 1 ELSE 0)
AnswersCounted ==
  /\ curr_state # "SEND_DATA" /\ is_load => reg_memready < 3 /\ reg_memvalid = 0
  /\ curr_state = "SEND_DATA" =>
       IF is_load THEN load_packets + answers_owed <= served ELSE load_packets = 0

(* Cycles until the last answer is over.  The way from the last petition of a
   store to the first one of a load is longer. *)
late == IF reg_memready >= 3 THEN reg_memready + 3 ELSE reg_memvalid
StoreAnswersOver ==
  /\ vpu_state = "DRAIN" => late <= 8 + vpu_timer
  /\ vpu_state = "IDLE" /\ vpu_completed => late <= 7
  /\ curr_state = "WAIT_ISSUE" => late <= 6
  /\ aut_state = "READ_AND_ISSUE" => late <= 5
  /\ vpu_state = "BUSY" => late <= 4
  /\ vpu_sync_start => late <= 3
  /\ curr_state = "SEND_DATA" /\ ~is_load => late <= IF petition THEN 1 ELSE 2

Counted == PetitionsCounted /\ AnswersCounted /\ StoreAnswersOver

-----------------------------------------------------------------------------
(* What the machines do in a step, whatever the phase. *)

(* The countdowns of the memory: a petition is on the bus only while the
   automata waits, so it is never overlooked. *)
LEMMA MemoryCounts ==
  ASSUME IInv, PetitionsCounted, AutomataStep
  PROVE  /\ reg_memready' = IF petition THEN 6
                            ELSE IF reg_memready # 0 THEN reg_memready - 1 ELSE 0
         /\ reg_memvalid' = IF reg_memvalid # 0 THEN reg_memvalid - 1
                            ELSE IF reg_memready = 3 THEN 5 ELSE 0
         /\ is_load' = IF store_valid THEN FALSE ELSE IF load_valid THEN TRUE ELSE is_load
         /\ UNCHANGED <<vl, sew>>
<1>1. petition => aut_state = "WAIT_ANSWER"
  BY DEF IInv, Lockstep, PetitionsCounted, petition, load_valid
<1>2. CASE petition
  <2>1. Memory(load_valid, store_valid)
    BY <1>1, <1>2 DEF AutomataStep, AutomataEdge, Rest, ReadAndIssue, WaitAnswer
  <2> QED
    BY <1>2, <2>1 DEF Memory, petition
<1>3. CASE ~petition
  <2>1. ~load_valid /\ ~store_valid
    BY <1>3 DEF petition
  <2>2. Memory(FALSE, FALSE) \/ Memory(load_valid, store_valid)
    BY DEF AutomataStep, AutomataEdge, Rest, ReadAndIssue, WaitAnswer
  <2> QED
    BY <1>3, <2>1, <2>2 DEF Memory
<1> QED
  BY <1>2, <1>3

(* Without a petition the last answer comes a cycle nearer, and none appears. *)
LEMMA LateStep ==
  ASSUME IInv, PetitionsCounted, AutomataStep
  PROVE  /\ late \in 0..9 /\ late' \in 0..9
         /\ ~petition => late' <= IF late = 0 THEN 0 ELSE late - 1
<1>1. reg_memready \in 0..6 /\ reg_memvalid \in 0..5
  BY DEF IInv, TypeOK, AutomataTypeOK
<1> QED
  BY <1>1, MemoryCounts DEF late

(* Without a petition a memory that owes nothing goes on owing nothing. *)
LEMMA MemoryQuiet ==
  ASSUME IInv, PetitionsCounted, AutomataStep, ~petition
  PROVE  /\ is_load' = is_load
         /\ reg_memready < 3 /\ reg_memvalid = 0 => reg_memready' < 3 /\ reg_memvalid' = 0
<1>1. reg_memready \in 0..6 /\ reg_memvalid \in 0..5
  BY DEF IInv, TypeOK, AutomataTypeOK
<1>2. ~load_valid /\ ~store_valid
  BY DEF petition
<1>3. is_load' = is_load
  BY <1>2, MemoryCounts
<1>4. reg_memready < 3 /\ reg_memvalid = 0 => reg_memready' < 3 /\ reg_memvalid' = 0
  BY <1>1, MemoryCounts
<1> QED
  BY <1>3, <1>4

(* WAIT_ANSWER: the bridge keeps its counters and sends nothing. *)
LEMMA BridgeKeeps ==
  ASSUME BridgeStep, curr_state = "WAIT_ANSWER"
  PROVE  /\ UNCHANGED <<instr, n_packets, sent_packets, load_packets>>
         /\ ~send_load_petition' /\ ~send_store_petition' /\ ~sync_end'
         /\ curr_state' = IF vpu_completed THEN "WAIT_ISSUE"
                          ELSE IF vpu_sync_start THEN memory_state ELSE "WAIT_ANSWER"
BY BridgeWaitAnswer DEF Answer, NoPulses, StartMemory, counters

LEMMA BridgeReceives ==
  ASSUME BridgeStep, curr_state = "RECEIVE_DATA"
  PROVE  ReceiveData(memready /\ ~petition, vpu_store_valid, vpu_store_data, vpu_credit)
BY DEF BridgeStep, OviEdge, core_bus, VpuBus, MemBus, Idle, Issue, Answer, SendData, VPU_ISSUE

LEMMA BridgeSends ==
  ASSUME BridgeStep, curr_state = "SEND_DATA"
  PROVE  SendData(memready /\ ~petition, datavalid /\ is_load, LMEM, vpu_credit)
BY DEF BridgeStep, OviEdge, core_bus, VpuBus, MemBus, Idle, Issue, Answer, ReceiveData, VPU_ISSUE

-----------------------------------------------------------------------------
(* A step, phase by phase. *)

Steps == BridgeStep /\ AutomataStep /\ VpuStep /\ History

LEMMA CountTypes ==
  ASSUME TypeOK
  PROVE  /\ served \in Nat /\ n_packets \in Nat /\ sent_packets \in Nat /\ load_packets \in Nat
         /\ reg_memready \in 0..6 /\ reg_memvalid \in 0..5 /\ vpu_timer \in Nat
         /\ vpu_completed \in BOOLEAN /\ vpu_sync_start \in BOOLEAN /\ sync_end \in BOOLEAN
         /\ send_load_petition \in BOOLEAN /\ send_store_petition \in BOOLEAN
         /\ is_load \in BOOLEAN
BY DEF TypeOK, OviTypeOK, AutomataTypeOK, VpuTypeOK

(* WAIT_ISSUE, and the instruction is issued. *)
LEMMA IssuePhase ==
  ASSUME WholePackets, IInv, IInv', Counted, Steps, issuing
  PROVE  Counted'
<1>1. /\ curr_state = "WAIT_ISSUE" /\ aut_state = "READ_AND_ISSUE"
      /\ Issue(issue_valid, CORE_ISSUE_instr, vpu_credit)
  BY IssuingIsReadAndIssue, BridgeWaitIssue DEF IInv, issuing, VPU_ISSUE, Steps
<1>2. VpuAccept(issuing, CORE_ISSUE_instr, sbid_counter)
  BY DEF Steps, VpuStep, VpuEdge, VpuIdle, VpuWait, VpuComplete, VpuStartMemory, VpuMemory
<1>3. /\ vpu_state' = "BUSY" /\ ~vpu_completed' /\ ~vpu_sync_start'
  BY <1>2 DEF VpuAccept, Silent
<1>4. /\ curr_state' = "WAIT_ANSWER" /\ n_packets' = PacketsOf(CORE_ISSUE_instr)
      /\ sent_packets' = 0 /\ load_packets' = 0
      /\ ~send_load_petition' /\ ~send_store_petition' /\ ~sync_end'
  BY <1>1 DEF Issue, NoPulses
<1>5. served' = 0 /\ ~petition
  BY <1>1 DEF Steps, History, Counted, PetitionsCounted, petition, load_valid, IInv, Lockstep
<1>6. n_packets' > 0
  <2>1. CORE_ISSUE_instr \in Instructions
    BY CoreBusType DEF IInv, TypeOK
  <2>2. CORE_ISSUE_instr.vl = vl /\ CORE_ISSUE_instr.sew = sew
    BY DEF CORE_ISSUE_instr
  <2> QED
    BY <1>4, <2>1, <2>2 DEF WholePackets, Counted, PetitionsCounted
<1>7. aut_state' = "WAIT_ANSWER"
  BY <1>3, <1>4 DEF IInv, Lockstep
<1>8. PetitionsCounted'
  BY <1>3, <1>4, <1>5, <1>6, MemoryCounts
  DEF Steps, Counted, PetitionsCounted, store_valid
<1>9. AnswersCounted'
  BY <1>1, <1>4, <1>5, MemoryQuiet DEF Steps, Counted, AnswersCounted
<1>10. StoreAnswersOver'
  BY <1>1, <1>3, <1>4, <1>5, <1>7, LateStep DEF Steps, Counted, StoreAnswersOver
<1> QED
  BY <1>8, <1>9, <1>10 DEF Counted

(* WAIT_ISSUE, and nothing is issued. *)
LEMMA IdlePhase ==
  ASSUME IInv, IInv', Counted, Steps, curr_state = "WAIT_ISSUE", ~issuing
  PROVE  Counted'
<1>1. vpu_state = "IDLE" /\ ~vpu_completed /\ ~vpu_sync_start
  BY DEF IInv, Lockstep, TypeOK, VpuTypeOK, memory_op, memory_state
<1>2. Idle(issue_valid, vpu_credit)
  BY BridgeWaitIssue DEF Steps
<1>3. /\ curr_state' = "WAIT_ISSUE" /\ UNCHANGED <<instr, n_packets>>
      /\ ~send_load_petition' /\ ~send_store_petition' /\ ~sync_end'
  BY <1>2 DEF Idle, NoPulses, counters
<1>4. VpuIdle(issuing)
  BY <1>1 DEF Steps, VpuStep, VpuEdge, VpuAccept, VpuWait, VpuComplete, VpuStartMemory, VpuMemory
<1>5. vpu_state' = "IDLE" /\ ~vpu_completed' /\ ~vpu_sync_start'
  BY <1>1, <1>4 DEF VpuIdle, Silent
<1>6. ~petition /\ served' = served
  BY <1>1 DEF Steps, History, Counted, PetitionsCounted, petition, load_valid
<1>7. PetitionsCounted'
  BY <1>1, <1>3, <1>5, <1>6, MemoryCounts
  DEF Steps, Counted, PetitionsCounted, store_valid, due, memory_op
<1>8. AnswersCounted'
  BY <1>3, <1>6, MemoryQuiet DEF Steps, Counted, AnswersCounted
<1>9. StoreAnswersOver'
  BY <1>1, <1>3, <1>5, <1>6, LateStep DEF Steps, Counted, StoreAnswersOver
<1> QED
  BY <1>7, <1>8, <1>9 DEF Counted

(* WAIT_ANSWER with the VPU at work on its own: no petition is on the bus. *)
LEMMA QuietPhase ==
  ASSUME IInv, IInv', Counted, Steps, curr_state = "WAIT_ANSWER",
         ~(vpu_state = "MEMORY" /\ sync_end)
  PROVE  Counted'
<1>0. ~petition /\ ~issuing
  BY DEF Counted, PetitionsCounted, petition, load_valid, issuing, VPU_ISSUE
<1>1. served' = served
  BY <1>0 DEF Steps, History
<1>2. /\ UNCHANGED <<instr, n_packets, sent_packets, load_packets>>
      /\ ~send_load_petition' /\ ~send_store_petition' /\ ~sync_end'
      /\ curr_state' = IF vpu_completed THEN "WAIT_ISSUE"
                       ELSE IF vpu_sync_start THEN memory_state ELSE "WAIT_ANSWER"
  BY BridgeKeeps DEF Steps
<1>3. ~petition' /\ due' = due
  BY <1>2 DEF petition, load_valid, store_valid, due, memory_op
<1>4. /\ is_load' => reg_memready' < 3 /\ reg_memvalid' = 0
      /\ <<vl, sew>>' \in VectorConfigs
  <2>1. is_load' => reg_memready' < 3 /\ reg_memvalid' = 0
    BY <1>0, MemoryQuiet DEF Steps, Counted, AnswersCounted
  <2>2. UNCHANGED <<vl, sew>>
    BY MemoryCounts DEF Steps, Counted
  <2> QED
    BY <2>1, <2>2 DEF Counted, PetitionsCounted
<1>5. late' <= (IF late = 0 THEN 0 ELSE late - 1) /\ late \in 0..9 /\ late' \in 0..9
  BY <1>0, LateStep DEF Steps, Counted
<1>6. aut_state' # "READ_AND_ISSUE"
  BY AutomataWaits DEF Steps, IInv, Lockstep
<1>7. n_packets \in Nat /\ n_packets > 0
  BY DEF Counted, PetitionsCounted, IInv, TypeOK, OviTypeOK
<1>8. CASE vpu_state = "IDLE"
  <2>1. vpu_completed /\ served = due /\ late <= 7
    BY <1>8 DEF IInv, Lockstep, Counted, PetitionsCounted, StoreAnswersOver
  <2>2. VpuIdle(issuing)
    BY <1>8, <1>0
    DEF Steps, VpuStep, VpuEdge, VpuAccept, VpuWait, VpuComplete, VpuStartMemory, VpuMemory
  <2>3. vpu_state' = "IDLE" /\ ~vpu_completed' /\ ~vpu_sync_start' /\ curr_state' = "WAIT_ISSUE"
    BY <1>2, <1>8, <2>1, <2>2 DEF VpuIdle, Silent
  <2>4. PetitionsCounted' /\ AnswersCounted'
    BY <1>1, <1>2, <1>3, <1>4, <2>1, <2>3 DEF PetitionsCounted, AnswersCounted, store_valid
  <2>5. StoreAnswersOver'
    BY <1>5, <1>6, <2>1, <2>3 DEF StoreAnswersOver
  <2> QED
    BY <2>4, <2>5 DEF Counted
<1>9. CASE vpu_state = "BUSY"
  <2>1. /\ ~vpu_completed /\ ~vpu_sync_start /\ vpu_instr = instr /\ late <= 4
        /\ served = 0 /\ sent_packets = 0 /\ load_packets = 0
    BY <1>9 DEF IInv, Lockstep, Counted, PetitionsCounted, StoreAnswersOver
  <2>2. VpuWait(issuing) \/ VpuComplete(issuing) \/ VpuStartMemory(issuing)
    BY <1>0, <1>9 DEF Steps, VpuStep, VpuEdge, VpuAccept, VpuIdle, VpuMemory
  <2>3. /\ curr_state' = "WAIT_ANSWER"
        /\ vpu_state' \in {"BUSY", "IDLE", "MEMORY"}
        /\ vpu_completed' => vpu_instr.kind = "arith"
    BY <1>2, <1>9, <2>1, <2>2 DEF VpuWait, Silent, VpuComplete, VpuStartMemory
  <2>4. vpu_completed' => due = 0
    BY <2>1, <2>3 DEF due, memory_op
  <2>5. PetitionsCounted' /\ AnswersCounted'
    BY <1>1, <1>2, <1>3, <1>4, <1>7, <2>1, <2>3, <2>4
    DEF PetitionsCounted, AnswersCounted, store_valid
  <2>6. StoreAnswersOver'
    BY <1>5, <1>6, <2>1, <2>3 DEF StoreAnswersOver
  <2> QED
    BY <2>5, <2>6 DEF Counted
<1>10. CASE vpu_state = "DRAIN"
  <2>1. /\ ~vpu_completed /\ ~vpu_sync_start /\ memory_op /\ served = due
        /\ late <= 8 + vpu_timer
    BY <1>10 DEF IInv, Lockstep, Counted, PetitionsCounted, StoreAnswersOver
  <2>2. VpuWait(issuing) \/ VpuComplete(issuing)
    BY <1>0, <1>10 DEF Steps, VpuStep, VpuEdge, VpuAccept, VpuIdle, VpuStartMemory, VpuMemory
  <2>3. /\ curr_state' = "WAIT_ANSWER" /\ ~vpu_sync_start' /\ memory_op'
        /\ \/ vpu_state' = "DRAIN" /\ vpu_timer' = vpu_timer - 1 /\ ~vpu_completed'
           \/ vpu_state' = "IDLE" /\ vpu_timer = 0
    BY <1>2, <1>10, <2>1, <2>2 DEF VpuWait, Silent, VpuComplete, memory_op
  <2>4. PetitionsCounted' /\ AnswersCounted'
    BY <1>1, <1>2, <1>3, <1>4, <1>7, <2>1, <2>3
    DEF PetitionsCounted, AnswersCounted, store_valid
  <2>5. vpu_timer \in Nat
    BY DEF IInv, TypeOK, VpuTypeOK
  <2>6. StoreAnswersOver'
    BY <1>5, <1>6, <2>1, <2>3, <2>5 DEF StoreAnswersOver
  <2> QED
    BY <2>4, <2>6 DEF Counted
<1>11. CASE vpu_state = "MEMORY"
  <2>1. /\ vpu_sync_start /\ ~sync_end /\ ~vpu_completed /\ memory_op /\ late <= 3
        /\ served = 0 /\ sent_packets = 0 /\ load_packets = 0
        /\ memory_state \in {"RECEIVE_DATA", "SEND_DATA"}
    BY <1>11 DEF IInv, Lockstep, Counted, PetitionsCounted, StoreAnswersOver, memory_op,
                 memory_state
  <2>2. VpuMemory(issuing, ChunkElements(vpu_instr.sew), vpu_send_store_credit, sync_end)
    BY <1>0, <1>11
    DEF Steps, VpuStep, VpuEdge, VpuAccept, VpuIdle, VpuWait, VpuComplete, VpuStartMemory
  <2>3. /\ vpu_state' = "MEMORY" /\ ~vpu_completed' /\ ~vpu_sync_start'
        /\ curr_state' \in {"RECEIVE_DATA", "SEND_DATA"}
    BY <1>2, <1>11, <2>1, <2>2 DEF VpuMemory
  <2>4. on_core_bus' = 0
    BY <1>3 DEF on_core_bus
  <2>5. PetitionsCounted'
    BY <1>1, <1>2, <1>3, <1>4, <1>7, <2>1, <2>3, <2>4 DEF PetitionsCounted, store_valid
  <2>6. AnswersCounted'
    <3>1. is_load' => answers_owed' = 0
      <4>1. reg_memready' \in 0..6 /\ reg_memvalid' \in 0..5
        BY DEF IInv, TypeOK, AutomataTypeOK
      <4> QED
        BY <1>4, <4>1 DEF answers_owed
    <3> QED
      BY <1>1, <1>2, <1>4, <2>1, <2>3, <3>1 DEF AnswersCounted
  <2>7. StoreAnswersOver'
    BY <1>3, <1>5, <1>6, <2>1, <2>3 DEF StoreAnswersOver
  <2> QED
    BY <2>5, <2>6, <2>7 DEF Counted
<1> QED
  BY <1>8, <1>9, <1>10, <1>11 DEF IInv, TypeOK, VpuTypeOK

(* WAIT_ANSWER in the cycle of sync_end: the last petition of a store is on the
   bus only now. *)
LEMMA EndPhase ==
  ASSUME 0 \notin VpuLatencies, IInv, IInv', Counted, Steps,
         curr_state = "WAIT_ANSWER", vpu_state = "MEMORY", sync_end
  PROVE  Counted'
<1>0. ~vpu_completed /\ ~vpu_sync_start /\ memory_op /\ ~issuing /\ ~load_valid
  BY DEF IInv, Lockstep, TypeOK, VpuTypeOK, issuing, VPU_ISSUE, load_valid
<1>1. served' = n_packets
  BY <1>0, CountTypes DEF Steps, History, Counted, PetitionsCounted, on_core_bus, IInv
<1>2. /\ UNCHANGED <<instr, n_packets>> /\ curr_state' = "WAIT_ANSWER"
      /\ ~send_store_petition' /\ ~sync_end'
  BY <1>0, BridgeKeeps DEF Steps
<1>3. /\ vpu_state' = "DRAIN" /\ ~vpu_completed' /\ ~vpu_sync_start'
      /\ vpu_timer' \in VpuLatencies
  <2>1. VpuMemory(issuing, ChunkElements(vpu_instr.sew), vpu_send_store_credit, sync_end)
    BY <1>0 DEF Steps, VpuStep, VpuEdge, VpuAccept, VpuIdle, VpuWait, VpuComplete, VpuStartMemory
  <2> QED
    BY <2>1 DEF VpuMemory
<1>4. vpu_timer' \in Nat /\ vpu_timer' >= 1
  BY <1>3, VpuAssumption
<1>5. PetitionsCounted'
  <2>1. UNCHANGED <<vl, sew>>
    BY MemoryCounts DEF Steps, Counted
  <2>2. due' = n_packets' /\ memory_op' /\ n_packets' > 0 /\ <<vl, sew>> \in VectorConfigs
    BY <1>0, <1>2 DEF due, memory_op, Counted, PetitionsCounted
  <2> QED
    BY <1>1, <1>2, <1>3, <2>1, <2>2 DEF PetitionsCounted, store_valid
<1>6. AnswersCounted'
  <2>1. CASE petition
    <3>1. ~is_load'
      BY <1>0, <2>1, MemoryCounts DEF Steps, Counted, petition
    <3> QED
      BY <1>2, <3>1 DEF AnswersCounted
  <2>2. CASE ~petition
    BY <1>2, <2>2, MemoryQuiet DEF Steps, Counted, AnswersCounted
  <2> QED
    BY <2>1, <2>2
<1>7. StoreAnswersOver'
  <2>1. aut_state' # "READ_AND_ISSUE"
    BY AutomataWaits DEF Steps, IInv, Lockstep
  <2>2. late' \in 0..9
    BY LateStep DEF Steps, Counted
  <2>3. late' <= 8 + vpu_timer'
    <3>1. \A a \in 0..9, b \in Nat : b >= 1 => a <= 8 + b
      OBVIOUS
    <3> QED
      BY <1>4, <2>2, <3>1
  <2> QED
    BY <1>2, <1>3, <2>1, <2>3 DEF StoreAnswersOver
<1> QED
  BY <1>5, <1>6, <1>7 DEF Counted

(* In a memory state the VPU waits for sync_end. *)
LEMMA MovingPhase ==
  ASSUME IInv, Counted, Steps, curr_state \in {"RECEIVE_DATA", "SEND_DATA"}
  PROVE  /\ ~issuing /\ memory_op
         /\ instr.kind = IF curr_state = "RECEIVE_DATA" THEN "store" ELSE "load"
         /\ vpu_state' = "MEMORY" /\ ~vpu_completed' /\ ~vpu_sync_start'
         /\ aut_state' # "READ_AND_ISSUE"
         /\ UNCHANGED <<vl, sew>>
         /\ <<vl, sew>> \in VectorConfigs /\ n_packets > 0 /\ sent_packets = served
<1>1. vpu_state = "MEMORY" /\ ~sync_end /\ ~vpu_completed /\ aut_state = "WAIT_ANSWER"
  BY DEF IInv, Lockstep, TypeOK, VpuTypeOK
<1>2. memory_op /\ curr_state = memory_state /\ ~issuing
  BY <1>1 DEF IInv, Lockstep, issuing, VPU_ISSUE
<1>3. instr.kind = IF curr_state = "RECEIVE_DATA" THEN "store" ELSE "load"
  BY <1>2 DEF memory_op, memory_state
<1>4. VpuMemory(issuing, ChunkElements(vpu_instr.sew), vpu_send_store_credit, sync_end)
  BY <1>1, <1>2 DEF Steps, VpuStep, VpuEdge, VpuAccept, VpuIdle, VpuWait, VpuComplete,
                    VpuStartMemory
<1>5. vpu_state' = "MEMORY" /\ ~vpu_completed' /\ ~vpu_sync_start'
  BY <1>1, <1>4 DEF VpuMemory
<1>6. aut_state' # "READ_AND_ISSUE"
  BY <1>1, AutomataWaits DEF Steps
<1>7. UNCHANGED <<vl, sew>>
  BY MemoryCounts DEF Steps, Counted
<1>8. <<vl, sew>> \in VectorConfigs /\ n_packets > 0 /\ sent_packets = served
  BY DEF Counted, PetitionsCounted
<1> QED
  BY <1>2, <1>3, <1>5, <1>6, <1>7, <1>8

LEMMA ReceivePhase ==
  ASSUME IInv, IInv', Counted, Steps, curr_state = "RECEIVE_DATA"
  PROVE  Counted'
<1> DEFINE send == memready /\ ~petition /\ chunk_received
           last == send /\ last_packet
<1>0. /\ ~issuing /\ vpu_state' = "MEMORY" /\ ~vpu_completed' /\ ~vpu_sync_start'
      /\ aut_state' # "READ_AND_ISSUE"
      /\ UNCHANGED <<vl, sew>>
      /\ <<vl, sew>> \in VectorConfigs /\ n_packets > 0 /\ sent_packets = served
  BY MovingPhase
<1>1. ~load_valid /\ petition = send_store_petition
  BY CountTypes DEF load_valid, petition, store_valid, IInv
<1>2. /\ send_store_petition' = send /\ sync_end' = last /\ UNCHANGED n_packets
      /\ curr_state' = IF last THEN "WAIT_ANSWER" ELSE "RECEIVE_DATA"
      /\ sent_packets' = IF petition THEN sent_packets + 1 ELSE sent_packets
  BY <1>1, BridgeReceives DEF Steps, ReceiveData, CountPetition
<1>3. served' = IF petition THEN served + 1 ELSE served
  BY <1>0 DEF Steps, History
<1>4. served + on_core_bus < n_packets /\ served \in Nat /\ n_packets \in Nat
  BY CountTypes DEF Counted, PetitionsCounted, IInv
<1>5. petition' <=> send
  BY <1>2 DEF petition, load_valid, store_valid
<1>6. PetitionsCounted'
  <2>1. last => send /\ served' + 1 = n_packets
    BY <1>0, <1>3 DEF last_packet
  <2>2. ~last => served' + on_core_bus' < n_packets
    <3>1. CASE petition
      BY <1>3, <1>4, <1>5, <3>1 DEF on_core_bus
    <3>2. CASE ~petition /\ send
      BY <1>0, <1>3, <1>4, <1>5, <3>2 DEF last_packet, on_core_bus
    <3>3. CASE ~petition /\ ~send
      BY <1>3, <1>4, <1>5, <3>3 DEF on_core_bus
    <3> QED
      BY <3>1, <3>2, <3>3
  <2>3. last => on_core_bus' = 1
    BY <1>5 DEF on_core_bus
  <2> HIDE DEF send, last
  <2> QED
    BY <1>0, <1>2, <1>3, <2>1, <2>2, <2>3 DEF PetitionsCounted
<1>7. AnswersCounted'
  <2>1. CASE petition
    <3>1. ~is_load'
      BY <1>1, <2>1, MemoryCounts DEF Steps, Counted, petition
    <3> QED
      BY <1>2, <3>1 DEF AnswersCounted
  <2>2. CASE ~petition
    BY <1>2, <2>2, MemoryQuiet DEF Steps, Counted, AnswersCounted
  <2> QED
    BY <2>1, <2>2
<1>8. StoreAnswersOver'
  BY <1>0, <1>2 DEF StoreAnswersOver
<1> QED
  BY <1>6, <1>7, <1>8 DEF Counted

LEMMA SendPhase ==
  ASSUME IInv, IInv', Counted, Steps, curr_state = "SEND_DATA"
  PROVE  Counted'
<1> DEFINE valid == datavalid /\ is_load
           last == valid /\ last_load_packet
<1>0. /\ ~issuing /\ vpu_state' = "MEMORY" /\ ~vpu_completed' /\ ~vpu_sync_start'
      /\ aut_state' # "READ_AND_ISSUE"
      /\ UNCHANGED <<vl, sew>>
      /\ <<vl, sew>> \in VectorConfigs /\ n_packets > 0 /\ sent_packets = served
  BY MovingPhase
<1>1. ~store_valid /\ petition = send_load_petition /\ load_valid = petition
  <2>1. ~store_valid
    BY DEF Counted, PetitionsCounted, IInv, Lockstep
  <2> QED
    BY <2>1, CountTypes DEF load_valid, petition, IInv
<1>2. /\ send_load_petition' = (memready /\ ~petition /\ sent_packets < n_packets)
      /\ ~send_store_petition' /\ sync_end' = last /\ UNCHANGED n_packets
      /\ curr_state' = IF last THEN "WAIT_ANSWER" ELSE "SEND_DATA"
      /\ sent_packets' = IF petition THEN sent_packets + 1 ELSE sent_packets
      /\ load_packets' = IF valid THEN load_packets + 1 ELSE load_packets
  BY <1>1, BridgeSends DEF Steps, SendData, CountPetition
<1>3. served' = IF petition THEN served + 1 ELSE served
  BY <1>0 DEF Steps, History
<1>4. /\ served + on_core_bus <= n_packets
      /\ IF is_load THEN load_packets + answers_owed <= served ELSE load_packets = 0
      /\ ~is_load => late <= IF petition THEN 1 ELSE 2
  BY DEF Counted, PetitionsCounted, AnswersCounted, StoreAnswersOver
<1>5. /\ served \in Nat /\ n_packets \in Nat /\ load_packets \in Nat
      /\ reg_memready \in 0..6 /\ reg_memvalid \in 0..5 /\ is_load \in BOOLEAN
  BY CountTypes DEF IInv
<1>6. /\ reg_memready' = IF petition THEN 6
                         ELSE IF reg_memready # 0 THEN reg_memready - 1 ELSE 0
      /\ reg_memvalid' = IF reg_memvalid # 0 THEN reg_memvalid - 1
                         ELSE IF reg_memready = 3 THEN 5 ELSE 0
      /\ is_load' = (petition \/ is_load)
  BY <1>1, <1>5, MemoryCounts DEF Steps, Counted
<1>7. last => ~petition /\ served = n_packets /\ is_load /\ reg_memready < 3 /\ reg_memvalid = 1
  BY <1>4, <1>5 DEF last_load_packet, datavalid, answers_owed, on_core_bus
<1>8. PetitionsCounted'
  <2>1. petition' <=> ~last /\ memready /\ ~petition /\ sent_packets < n_packets
    BY <1>2 DEF petition, load_valid, store_valid
  <2>2. ~last => served' + on_core_bus' <= n_packets
    <3>1. CASE petition
      BY <1>3, <1>4, <1>5, <2>1, <3>1 DEF on_core_bus
    <3>2. CASE ~petition
      BY <1>0, <1>3, <1>4, <1>5, <2>1, <3>2 DEF on_core_bus
    <3> QED
      BY <3>1, <3>2
  <2>3. last => served' + on_core_bus' = n_packets
    BY <1>3, <1>5, <1>7, <2>1 DEF on_core_bus
  <2>4. sent_packets' = served'
    BY <1>0, <1>2, <1>3
  <2> HIDE DEF last
  <2> QED
    BY <1>0, <1>2, <2>2, <2>3, <2>4 DEF PetitionsCounted, store_valid
<1>9. AnswersCounted'
  <2>1. CASE last
    BY <1>2, <1>5, <1>6, <1>7, <2>1 DEF AnswersCounted
  <2>2. CASE ~last /\ is_load
    <3>1. load_packets' + answers_owed' <= served'
      BY <1>2, <1>3, <1>4, <1>5, <1>6, <2>2 DEF answers_owed, datavalid
    <3> QED
      BY <1>2, <1>6, <2>2, <3>1 DEF AnswersCounted
  <2>3. CASE ~last /\ ~is_load /\ petition
    <3>1. answers_owed' = 1
      BY <1>4, <1>5, <1>6, <2>3 DEF answers_owed, late
    <3>2. load_packets' = 0 /\ served' >= 1
      BY <1>2, <1>3, <1>4, <1>5, <2>3
    <3> QED
      BY <1>2, <1>5, <1>3, <1>6, <2>3, <3>1, <3>2 DEF AnswersCounted
  <2>4. CASE ~last /\ ~is_load /\ ~petition
    BY <1>2, <1>4, <1>6, <2>4 DEF AnswersCounted
  <2> QED
    BY <2>1, <2>2, <2>3, <2>4
<1>10. StoreAnswersOver'
  <2>1. ~is_load' => late' <= 1
    <3>1. ~is_load' => ~is_load /\ ~petition
      BY <1>6
    <3>2. ~petition => late' <= IF late = 0 THEN 0 ELSE late - 1
      BY LateStep DEF Steps, Counted
    <3>3. late \in 0..9 /\ (~is_load /\ ~petition => late <= 2)
      BY <1>4, LateStep DEF Steps, Counted
    <3>4. late' \in 0..9
      BY LateStep DEF Steps, Counted
    <3> QED
      BY <3>1, <3>2, <3>3, <3>4
  <2>2. curr_state' # "WAIT_ISSUE"
    BY <1>2
  <2>3. late' \in 0..9
    BY LateStep DEF Steps, Counted
  <2> QED
    BY <1>0, <2>1, <2>2, <2>3 DEF StoreAnswersOver
<1> QED
  BY <1>8, <1>9, <1>10 DEF Counted

-----------------------------------------------------------------------------
(* The theorems. *)

LEMMA CountedInit ==
  ASSUME Init PROVE Counted
<1>1. <<vl, sew>> \in VectorConfigs
  <2>1. PICK c \in VectorConfigs : vl = c[1] /\ sew = c[2]
    BY DEF Init, AutomataInit
  <2>2. c \in Nat \X (0..3)
    BY AutomataAssumption
  <2> QED
    BY <2>1, <2>2
<1>2. PetitionsCounted
  BY <1>1 DEF Init, OviInit, VpuInit, PetitionsCounted, due, memory_op, store_valid
<1>3. AnswersCounted
  BY DEF Init, OviInit, AutomataInit, AnswersCounted
<1>4. StoreAnswersOver
  BY DEF Init, OviInit, AutomataInit, VpuInit, StoreAnswersOver, late
<1> QED
  BY <1>2, <1>3, <1>4 DEF Counted

LEMMA CountedNext ==
  ASSUME WholePackets, 0 \notin VpuLatencies, IInv, IInv', Counted, [Next]_vars
  PROVE  Counted'
<1>1. CASE Next
  <2>1. Steps
    BY <1>1 DEF Next, Steps, BridgeStep, AutomataStep, VpuStep
  <2>2. curr_state \in OviStates
    BY DEF IInv, TypeOK, OviTypeOK
  <2> QED
    BY <2>1, <2>2, IssuePhase, IdlePhase, QuietPhase, EndPhase, ReceivePhase, SendPhase
    DEF OviStates
<1>2. CASE UNCHANGED vars
  <2>1. PetitionsCounted'
    BY <1>2 DEF vars, oviVars, control, counters, pulses, autVars, vpuVars, history, Counted,
                PetitionsCounted, due, memory_op, on_core_bus, petition, load_valid, store_valid
  <2>2. AnswersCounted' /\ StoreAnswersOver'
    BY <1>2 DEF vars, oviVars, control, counters, pulses, autVars, vpuVars, history, Counted,
                AnswersCounted, answers_owed, StoreAnswersOver, late, petition, load_valid,
                store_valid
  <2> QED
    BY <2>1, <2>2 DEF Counted
<1> QED
  BY <1>1, <1>2

LEMMA CountedInvariant ==
  ASSUME CounterHolds, WholePackets, 0 \notin VpuLatencies
  PROVE  Spec => [](IInv /\ Counted)
<1>1. Spec => []IInv
  BY InductiveInvariant
<1>2. Init => Counted
  BY CountedInit
<1>3. IInv /\ IInv' /\ Counted /\ [Next]_vars => Counted'
  BY CountedNext
<1> QED
  BY <1>1, <1>2, <1>3, PTL DEF Spec

(* The core sees every packet of a load or a store once, and all of them before
   the VPU completes it, although the bridge leaves its memory state while the
   last petition is still a register away from the core. *)
THEOREM AllPacketsMove ==
  ASSUME CounterHolds, WholePackets, 0 \notin VpuLatencies
  PROVE  Spec => []ExactlyAllPackets
<1>1. IInv /\ Counted => ExactlyAllPackets
  <2> SUFFICES ASSUME IInv, Counted, memory_op
               PROVE  served <= n_packets /\ (vpu_completed => served = n_packets)
    BY DEF ExactlyAllPackets
  <2>1. due = n_packets /\ served \in Nat /\ n_packets \in Nat
    BY CountTypes DEF due, IInv
  <2>2. vpu_completed => served = n_packets
    BY <2>1 DEF Counted, PetitionsCounted
  <2>3. CASE curr_state \in {"WAIT_ISSUE", "RECEIVE_DATA", "SEND_DATA"}
    BY <2>1, <2>3 DEF Counted, PetitionsCounted, on_core_bus
  <2>4. CASE curr_state = "WAIT_ANSWER"
    <3>1. \/ vpu_completed \/ vpu_state \in {"BUSY", "DRAIN"} \/ vpu_sync_start
          \/ vpu_state = "MEMORY" /\ sync_end
      BY <2>4 DEF IInv, TypeOK, VpuTypeOK, Lockstep, memory_state, memory_op
    <3>2. vpu_state = "MEMORY" /\ sync_end => served + on_core_bus = n_packets
      BY DEF Counted, PetitionsCounted
    <3> QED
      BY <2>1, <3>1, <3>2 DEF Counted, PetitionsCounted, on_core_bus
  <2> QED
    BY <2>2, <2>3, <2>4 DEF IInv, TypeOK, OviTypeOK, OviStates
<1> QED
  BY <1>1, CountedInvariant, PTL

(* The bridge waits for every answer of the memory to a load, and never counts
   more answers than it sent petitions: none is left over from the instruction
   before. *)
THEOREM AnswersAreOwn ==
  ASSUME CounterHolds, WholePackets, 0 \notin VpuLatencies
  PROVE  Spec => []AnswersMatchPetitions
<1>1. IInv /\ Counted => AnswersMatchPetitions
  <2> SUFFICES ASSUME IInv, Counted PROVE AnswersMatchPetitions
    OBVIOUS
  <2>1. /\ served \in Nat /\ load_packets \in Nat
        /\ reg_memready \in 0..6 /\ reg_memvalid \in 0..5 /\ is_load \in BOOLEAN
    BY CountTypes DEF IInv
  <2>2. datavalid /\ is_load => curr_state = "SEND_DATA"
    BY DEF Counted, AnswersCounted, datavalid
  <2>3. curr_state = "SEND_DATA" /\ is_load =>
          load_packets + (IF datavalid /\ is_load THEN 1 ELSE 0) <= served
    BY <2>1 DEF Counted, AnswersCounted, answers_owed, datavalid
  <2>4. curr_state = "SEND_DATA" /\ ~is_load =>
          load_packets + (IF datavalid /\ is_load THEN 1 ELSE 0) <= served
    BY <2>1 DEF Counted, AnswersCounted
  <2> QED
    BY <2>2, <2>3, <2>4 DEF AnswersMatchPetitions
<1> QED
  BY <1>1, CountedInvariant, PTL

(* Bridge, harness and VPU implement the abstract transfer: an instruction is
   issued, moves its packets one by one, and completes after the last. *)
THEOREM TransferImplemented ==
  ASSUME CounterHolds, WholePackets, 0 \notin VpuLatencies
  PROVE  Spec => ImplementsVectorTransfer
<1>1. Init => Transfer!VTInit
  BY DEF Init, OviInit, Transfer!VTInit, memory_op
<1>2. IInv /\ IInv' /\ Counted /\ [Next]_vars => [Transfer!VTNext]_(Transfer!vtVars)
  <2> SUFFICES ASSUME IInv, IInv', Counted, [Next]_vars
               PROVE  Transfer!VTNext \/ UNCHANGED Transfer!vtVars
    OBVIOUS
  <2>1. CASE UNCHANGED vars
    BY <2>1 DEF vars, oviVars, control, counters, history, Transfer!vtVars, memory_op
  <2>2. CASE Next
    <3>0. Steps
      BY <2>2 DEF Next, Steps, BridgeStep, AutomataStep, VpuStep
    <3>1. served \in Nat /\ n_packets \in Nat /\ n_packets' \in Nat
      BY CountTypes DEF IInv, TypeOK, OviTypeOK
    <3>2. CASE issuing
      <4>1. Issue(issue_valid, CORE_ISSUE_instr, vpu_credit) /\ curr_state = "WAIT_ISSUE"
        BY <3>0, <3>2, BridgeWaitIssue DEF Steps, issuing, VPU_ISSUE
      <4>2. curr_state' = "WAIT_ANSWER" /\ served' = 0
        BY <3>0, <3>2, <4>1 DEF Issue, Steps, History
      <4>3. Transfer!VTIssue
        BY <3>1, <4>1, <4>2 DEF Transfer!VTIssue
      <4> QED
        BY <4>3 DEF Transfer!VTNext
    <3>3. CASE ~issuing /\ curr_state = "WAIT_ISSUE"
      <4>1. Idle(issue_valid, vpu_credit) /\ ~petition
        BY <3>0, <3>3, BridgeWaitIssue
        DEF Steps, Counted, PetitionsCounted, petition, load_valid, IInv, Lockstep
      <4>2. UNCHANGED <<curr_state, instr, n_packets, served>>
        BY <3>0, <3>3, <4>1 DEF Idle, counters, Steps, History
      <4> QED
        BY <4>2 DEF Transfer!vtVars, memory_op
    <3>4. CASE curr_state # "WAIT_ISSUE"
      <4>1. ~issuing /\ curr_state \in {"WAIT_ANSWER", "RECEIVE_DATA", "SEND_DATA"}
        BY <3>4 DEF issuing, VPU_ISSUE, IInv, TypeOK, OviTypeOK, OviStates
      <4>2. UNCHANGED <<instr, n_packets>>
        BY <3>0, <4>1, BridgeKeeps, BridgeReceives, BridgeSends DEF Steps, ReceiveData, SendData
      <4>3. due' = due
        BY <4>2 DEF due, memory_op
      <4>4. served' = IF petition THEN served + 1 ELSE served
        BY <3>0, <4>1 DEF Steps, History
      <4>5. CASE petition
        <5>1. curr_state' # "WAIT_ISSUE"
          <6>1. ~vpu_completed
            BY <4>5 DEF Counted, PetitionsCounted, petition, load_valid, IInv, Lockstep, TypeOK,
                        VpuTypeOK
          <6> QED
            BY <3>0, <4>1, <6>1, BridgeKeeps, BridgeMemory DEF Steps, IInv, memory_state
        <5>2. served < due
          <6>1. \/ curr_state \in {"RECEIVE_DATA", "SEND_DATA"}
                \/ vpu_state = "MEMORY" /\ sync_end
            BY <4>5 DEF Counted, PetitionsCounted, petition, load_valid
          <6>2. memory_op
            BY <6>1 DEF IInv, Lockstep, TypeOK, VpuTypeOK
          <6> QED
            BY <3>1, <4>5, <6>1, <6>2 DEF Counted, PetitionsCounted, on_core_bus, due
        <5>3. Transfer!VTMove
          BY <3>4, <4>2, <4>3, <4>4, <4>5, <5>1, <5>2 DEF Transfer!VTMove, due
        <5> QED
          BY <5>3 DEF Transfer!VTNext
      <4>6. CASE ~petition /\ curr_state' = "WAIT_ISSUE"
        <5>1. vpu_completed
          BY <3>0, <4>1, <4>6, BridgeKeeps, BridgeMemory DEF Steps, IInv, memory_state
        <5>2. served = due
          BY <5>1 DEF Counted, PetitionsCounted
        <5>3. Transfer!VTComplete
          BY <3>4, <4>3, <4>4, <4>6, <5>2 DEF Transfer!VTComplete, due
        <5> QED
          BY <5>3 DEF Transfer!VTNext
      <4>7. CASE ~petition /\ curr_state' # "WAIT_ISSUE"
        BY <3>4, <4>3, <4>4, <4>7 DEF Transfer!vtVars, due
      <4> QED
        BY <4>5, <4>6, <4>7
    <3> QED
      BY <3>2, <3>3, <3>4
  <2> QED
    BY <2>1, <2>2
<1>3. Spec => [](IInv /\ Counted)
  BY CountedInvariant
<1> QED
  BY <1>1, <1>2, <1>3, PTL DEF Spec, ImplementsVectorTransfer, Transfer!VTSpec


-----------------------------------------------------------------------------
(* The data.  What follows adds to the counts which packet, chunk and elements
   they are.                                                                   *)

(* The instruction in progress is one of the program, and its scoreboard id the
   one before the next; the memory has given an answer for every load packet.   *)
Issued ==
  /\ LMEM = lmem_base + load_packets /\ lmem_base \in Nat
  /\ curr_state # "WAIT_ISSUE" =>
       /\ n_packets = PacketsOf(instr) /\ <<instr.vl, instr.sew>> \in VectorConfigs
       /\ vpu_sb = VPU_sb_id

storing == vpu_state = "MEMORY" /\ instr.kind = "store" /\ ~vpu_sync_start

(* A store: chunks the VPU has to send, and chunks of which all packets are sent. *)
chunks_due == StoreChunks(instr, ChunkElements(instr.sew))
chunks_done == served \div SubPackets
StoreRests ==
  /\ ~storing => /\ vpu_store_credits = StoreCredits
                 /\ ~vpu_store_valid /\ ~vpu_send_store_credit /\ ~store_valid
  /\ vpu_state = "BUSY" \/ vpu_sync_start => vpu_chunks = 0
StoreCounts ==
  storing =>
    /\ vpu_chunks = buffer_store_index + (IF vpu_store_valid THEN 1 ELSE 0)
    /\ vpu_chunks <= chunks_due
    /\ vpu_store_credits \in 0..StoreCredits
    /\ vpu_store_credits + vpu_chunks = StoreCredits + chunks_done
    /\ chunks_done <= buffer_store_index
    /\ store_valid => sent_packets = served /\ chunks_done < buffer_store_index
    /\ vpu_send_store_credit <=> store_valid /\ (sync_end \/ (served + 1) % SubPackets = 0)
    /\ sync_end => store_valid /\ buffer_store_index = chunks_due
StoreData ==
  storing =>
    /\ \A c \in 0..buffer_store_index - 1 : BUFFER_STORE[c] = <<VPU_sb_id, c>>
    /\ vpu_store_valid => vpu_store_data = <<VPU_sb_id, buffer_store_index>>
StoreInv == StoreRests /\ StoreCounts /\ StoreData

(* Every chunk of a vector holds a packet, and the buffer, whose index has 6 bits,
   an entry for each. *)
ChunksHavePackets ==
  \A i \in Instructions : <<i.vl, i.sew>> \in VectorConfigs =>
    /\ PacketsOf(i) > 0
    /\ StoreChunks(i, ChunkElements(i.sew)) = (PacketsOf(i) - 1) \div SubPackets + 1
ChunksFit ==
  /\ ChunksHavePackets
  /\ \A i \in Instructions : <<i.vl, i.sew>> \in VectorConfigs =>
       LET chunks == StoreChunks(i, ChunkElements(i.sew)) IN chunks <= StoreDepth /\ chunks < 64

-----------------------------------------------------------------------------
(* What all steps but those of a memory state have in common. *)

LEMMA MemoryAnswers ==
  ASSUME AutomataStep
  PROVE  LMEM' = IF datavalid /\ is_load THEN LMEM + 1 ELSE LMEM
BY DEF AutomataStep, AutomataEdge, Rest, ReadAndIssue, WaitAnswer, Memory

LEMMA IssuedStep ==
  ASSUME IInv, Counted, Issued, Steps
  PROVE  Issued'
<1>1. curr_state # "SEND_DATA" => ~(datavalid /\ is_load)
  BY DEF Counted, AnswersCounted, datavalid
<1>2. LMEM' = IF datavalid /\ is_load THEN LMEM + 1 ELSE LMEM
  BY MemoryAnswers DEF Steps
<1>3. lmem_base' = IF issuing THEN LMEM ELSE lmem_base
  BY DEF Steps, History
<1>4. LMEM \in Nat /\ load_packets \in Nat /\ lmem_base \in Nat /\ sbid_counter \in 0..SbIds - 1
  BY DEF IInv, TypeOK, AutomataTypeOK, OviTypeOK, Issued
<1>5. CASE issuing
  <2>1. curr_state = "WAIT_ISSUE" /\ Issue(issue_valid, CORE_ISSUE_instr, vpu_credit)
    BY <1>5, BridgeWaitIssue DEF Steps, issuing, VPU_ISSUE
  <2>2. VpuAccept(issuing, CORE_ISSUE_instr, sbid_counter)
    BY <1>5 DEF Steps, VpuStep, VpuEdge, VpuIdle, VpuWait, VpuComplete, VpuStartMemory, VpuMemory
  <2>3. /\ load_packets' = 0 /\ instr' = CORE_ISSUE_instr /\ n_packets' = PacketsOf(instr')
        /\ sbid_counter' = (sbid_counter + 1) % SbIds /\ vpu_sb' = sbid_counter
    BY <2>1, <2>2 DEF Issue, VpuAccept, next_sb_id
  <2>4. <<instr'.vl, instr'.sew>> \in VectorConfigs
    BY <2>3 DEF CORE_ISSUE_instr, Counted, PetitionsCounted
  <2>5. (sbid_counter' - 1) % SbIds = sbid_counter
    BY <1>4, <2>3, TagOfLast
  <2>6. vpu_sb' = VPU_sb_id'
    BY <2>3, <2>5 DEF VPU_sb_id
  <2> QED
    BY <1>1, <1>2, <1>3, <1>4, <1>5, <2>1, <2>3, <2>4, <2>6 DEF Issued
<1>6. CASE ~issuing /\ curr_state = "WAIT_ISSUE"
  <2>1. Idle(issue_valid, vpu_credit)
    BY <1>6, BridgeWaitIssue DEF Steps
  <2>2. curr_state' = "WAIT_ISSUE" /\ load_packets' = load_packets
    BY <1>6, <2>1 DEF Idle, counters
  <2> QED
    BY <1>1, <1>2, <1>3, <1>6, <2>2 DEF Issued
<1>7. CASE curr_state # "WAIT_ISSUE"
  <2>1. ~issuing /\ curr_state \in {"WAIT_ANSWER", "RECEIVE_DATA", "SEND_DATA"}
    BY <1>7 DEF issuing, VPU_ISSUE, IInv, TypeOK, OviTypeOK, OviStates
  <2>2. UNCHANGED <<instr, n_packets, sbid_counter>>
    BY <2>1, BridgeWaitAnswer, BridgeReceives, BridgeSends
    DEF Steps, Answer, counters, ReceiveData, SendData
  <2>3. load_packets' = IF datavalid /\ is_load THEN load_packets + 1 ELSE load_packets
    BY <1>1, <2>1, BridgeWaitAnswer, BridgeReceives, BridgeSends
    DEF Steps, Answer, counters, ReceiveData, SendData
  <2>4. vpu_sb' = vpu_sb
    BY <2>1 DEF Steps, VpuStep, VpuEdge, VpuAccept, VpuIdle, VpuWait, VpuComplete, VpuStartMemory,
                VpuMemory
  <2>5. VPU_sb_id' = VPU_sb_id
    BY <2>2 DEF VPU_sb_id
  <2>6. LMEM' = lmem_base' + load_packets' /\ lmem_base' \in Nat
    BY <1>2, <1>3, <1>4, <2>1, <2>3 DEF Issued
  <2> QED
    BY <1>7, <2>2, <2>4, <2>5, <2>6 DEF Issued
<1> QED
  BY <1>5, <1>6, <1>7

-----------------------------------------------------------------------------
(* Stores.                                                                     *)

(* Outside MEMORY the VPU sends nothing, and comes to MEMORY with sync_start. *)
LEMMA VpuRests ==
  ASSUME VpuStep, vpu_state # "MEMORY"
  PROVE  /\ ~vpu_store_valid' /\ vpu_store_credits' = vpu_store_credits
         /\ vpu_state' = "MEMORY" => vpu_sync_start'
         /\ vpu_state' = "BUSY" => vpu_chunks' \in {0, vpu_chunks} /\ (issuing \/ vpu_state = "BUSY")
         /\ vpu_sync_start' => vpu_state = "BUSY" /\ vpu_chunks' = vpu_chunks /\ ~issuing
         /\ issuing => vpu_chunks' = 0 /\ vpu_state' = "BUSY"
BY DEF VpuStep, VpuEdge, VpuAccept, VpuIdle, VpuWait, VpuComplete, VpuStartMemory, VpuMemory, Silent

LEMMA VpuMoves ==
  ASSUME VpuStep, vpu_state = "MEMORY", ~issuing
  PROVE  VpuMemory(issuing, ChunkElements(vpu_instr.sew), vpu_send_store_credit, sync_end)
BY DEF VpuStep, VpuEdge, VpuAccept, VpuIdle, VpuWait, VpuComplete, VpuStartMemory

(* In WAIT_ISSUE and WAIT_ANSWER the bridge raises none of the pulses. *)
LEMMA BridgeRests ==
  ASSUME BridgeStep, curr_state \in {"WAIT_ISSUE", "WAIT_ANSWER"}
  PROVE  /\ ~send_load_petition' /\ ~send_store_petition' /\ ~vpu_send_store_credit'
         /\ ~sync_end' /\ ~buffer_load_ready'
         /\ UNCHANGED <<el_id, el_count, BUFFER_LOAD, BUFFER_STORE>>
BY BridgeWaitIssue, BridgeWaitAnswer DEF Idle, Issue, Answer, NoPulses, buffers

(* What a state of the VPU says of the other two. *)
LEMMA MemoryPhases ==
  ASSUME IInv, Counted, vpu_state = "MEMORY"
  PROVE  /\ ~issuing /\ memory_op /\ ~vpu_completed /\ vpu_instr = instr
         /\ vpu_sync_start => ~sync_end
         /\ curr_state = IF vpu_sync_start \/ sync_end THEN "WAIT_ANSWER"
                         ELSE IF instr.kind = "store" THEN "RECEIVE_DATA" ELSE "SEND_DATA"
         /\ instr.kind \in {"load", "store"}
<1>1. /\ memory_op /\ ~vpu_completed /\ ~(vpu_sync_start /\ sync_end)
      /\ curr_state = IF vpu_sync_start \/ sync_end THEN "WAIT_ANSWER" ELSE memory_state
  BY DEF IInv, Lockstep
<1>2. curr_state # "WAIT_ISSUE"
  BY <1>1 DEF memory_state
<1>3. vpu_instr = instr /\ ~issuing
  BY <1>2 DEF IInv, Lockstep, issuing, VPU_ISSUE
<1> QED
  BY <1>1, <1>3 DEF memory_op, memory_state

LEMMA DueChunks ==
  ASSUME ChunksFit, IInv, Counted, Issued, curr_state # "WAIT_ISSUE"
  PROVE  /\ n_packets \in Nat \ {0}
         /\ chunks_due = (n_packets - 1) \div SubPackets + 1
         /\ chunks_due \in Nat /\ chunks_due <= StoreDepth /\ chunks_due < 64
<1>1. instr \in Instructions /\ n_packets \in Nat /\ <<instr.vl, instr.sew>> \in VectorConfigs
      /\ n_packets = PacketsOf(instr)
  BY DEF IInv, TypeOK, OviTypeOK, Issued
<1>2. /\ n_packets > 0 /\ chunks_due = (n_packets - 1) \div SubPackets + 1
      /\ chunks_due <= StoreDepth /\ chunks_due < 64
  BY <1>1 DEF ChunksFit, ChunksHavePackets, chunks_due
<1>3. (n_packets - 1) \div SubPackets \in Nat
  BY <1>1, <1>2, DivNat, OviAssumption
<1> QED
  BY <1>1, <1>2, <1>3

(* The VPU at rest: nothing of a store is under way. *)
LEMMA StoreAtRest ==
  ASSUME IInv, Counted, StoreInv, Steps, vpu_state # "MEMORY"
  PROVE  StoreInv'
<1>1. curr_state \in {"WAIT_ISSUE", "WAIT_ANSWER"}
  BY DEF IInv, Lockstep, TypeOK, VpuTypeOK
<1>2. ~storing'
  BY VpuRests DEF Steps, storing
<1>3. vpu_store_credits' = StoreCredits /\ ~vpu_store_valid' /\ ~vpu_send_store_credit' /\ ~store_valid'
  BY <1>1, VpuRests, BridgeRests DEF Steps, StoreInv, StoreRests, storing, store_valid
<1>4. vpu_state' = "BUSY" \/ vpu_sync_start' => vpu_chunks' = 0
  BY VpuRests DEF Steps, StoreInv, StoreRests
<1> QED
  BY <1>2, <1>3, <1>4 DEF StoreInv, StoreRests, StoreCounts, StoreData

(* A load, or the end of a store. *)
LEMMA StoreOfLoad ==
  ASSUME IInv, Counted, StoreInv, Steps, vpu_state = "MEMORY", instr.kind = "load"
  PROVE  StoreInv'
<1>1. /\ ~issuing /\ vpu_instr = instr
      /\ curr_state \in {"WAIT_ANSWER", "SEND_DATA"}
  BY MemoryPhases
<1>2. VpuMemory(issuing, ChunkElements(vpu_instr.sew), vpu_send_store_credit, sync_end)
  BY <1>1, VpuMoves DEF Steps
<1>3. ~storing /\ vpu_store_credits = StoreCredits /\ ~vpu_send_store_credit
  BY DEF StoreInv, StoreRests, storing
<1>4. instr' = instr
  BY <1>1, BridgeKeeps, BridgeSends DEF Steps, SendData
<1>5. ~send_store_petition' /\ ~vpu_send_store_credit'
  BY <1>1, BridgeRests, BridgeSends DEF Steps, SendData
<1>6. /\ ~vpu_store_valid' /\ ~vpu_sync_start' /\ vpu_state' # "BUSY"
      /\ vpu_store_credits' = vpu_store_credits + 0 - 0
  BY <1>1, <1>2, <1>3 DEF VpuMemory
<1>7. vpu_store_credits' = StoreCredits
  BY <1>3, <1>6, VpuAssumption
<1> QED
  BY <1>4, <1>5, <1>6, <1>7 DEF StoreInv, StoreRests, StoreCounts, StoreData, storing, store_valid

(* sync_start: the index starts anew, and a first chunk may be on its way. *)
LEMMA StoreStarts ==
  ASSUME ChunksFit, IInv, Counted, Issued, StoreInv, Steps,
         vpu_state = "MEMORY", instr.kind = "store", vpu_sync_start
  PROVE  StoreInv'
<1>1. /\ ~issuing /\ vpu_instr = instr /\ ~sync_end /\ ~vpu_completed
      /\ curr_state = "WAIT_ANSWER"
  BY MemoryPhases
<1>2. VpuMemory(issuing, ChunkElements(vpu_instr.sew), vpu_send_store_credit, sync_end)
  BY <1>1, VpuMoves DEF Steps
<1>3. /\ ~storing /\ vpu_store_credits = StoreCredits /\ ~vpu_send_store_credit /\ ~store_valid
      /\ vpu_chunks = 0 /\ served = 0
  BY DEF StoreInv, StoreRests, storing, Counted, PetitionsCounted
<1>4. /\ UNCHANGED <<instr, sbid_counter>> /\ buffer_store_index' = 0
      /\ ~send_store_petition' /\ ~vpu_send_store_credit' /\ ~sync_end'
  <2>1. Answer(vpu_completed, vpu_sync_start, vpu_credit)
    BY <1>1, BridgeWaitAnswer DEF Steps
  <2>2. UNCHANGED <<instr, sbid_counter>> /\ buffer_store_index' = 0
    BY <1>1, <2>1 DEF Answer, StartMemory
  <2> QED
    BY <1>1, <2>2, BridgeRests DEF Steps
<1>5. served' = 0
  <2>1. ~petition
    BY <1>1, <1>3 DEF petition, load_valid
  <2> QED
    BY <1>1, <1>3, <2>1 DEF Steps, History
<1>6. chunks_due' = chunks_due /\ chunks_due \in Nat /\ chunks_due >= 1
  <2>1. n_packets \in Nat \ {0} /\ chunks_due = (n_packets - 1) \div SubPackets + 1
    BY <1>1, DueChunks
  <2>2. (n_packets - 1) \div SubPackets \in Nat
    BY <2>1, DivNat, OviAssumption
  <2> QED
    BY <1>4, <2>1, <2>2 DEF chunks_due
<1>7. chunks_done' = 0
  BY <1>5, OviAssumption DEF chunks_done
<1>8. vpu_state' = "MEMORY" /\ ~vpu_sync_start'
  BY <1>1, <1>2 DEF VpuMemory
<1>9. \/ /\ vpu_store_valid' = TRUE /\ vpu_store_data' = <<vpu_sb, 0>>
         /\ vpu_chunks' = 1 /\ vpu_store_credits' = StoreCredits - 1
      \/ /\ vpu_store_valid' = FALSE /\ vpu_chunks' = 0 /\ vpu_store_credits' = StoreCredits
  <2>1. \/ /\ vpu_store_valid' = TRUE /\ vpu_store_data' = <<vpu_sb, vpu_chunks>>
           /\ vpu_chunks' = vpu_chunks + 1
           /\ vpu_store_credits' = vpu_store_credits + 0 - 1
        \/ /\ vpu_store_valid' = FALSE /\ vpu_chunks' = vpu_chunks
           /\ vpu_store_credits' = vpu_store_credits + 0 - 0
    BY <1>2, <1>3 DEF VpuMemory
  <2> QED
    BY <1>3, <2>1, VpuAssumption
<1>10. StoreRests'
  BY <1>4, <1>8 DEF StoreRests, storing
<1>11. StoreCounts'
  <2>1. ~store_valid'
    BY <1>4 DEF store_valid
  <2>2. CASE vpu_store_valid' = TRUE
    BY <1>4, <1>6, <1>7, <1>9, <2>1, <2>2, VpuAssumption DEF StoreCounts
  <2>3. CASE vpu_store_valid' = FALSE
    BY <1>4, <1>6, <1>7, <1>9, <2>1, <2>3, VpuAssumption DEF StoreCounts
  <2> QED
    BY <1>9, <2>2, <2>3
<1>12. StoreData'
  <2>1. VPU_sb_id' = VPU_sb_id /\ vpu_sb = VPU_sb_id
    BY <1>1, <1>4 DEF VPU_sb_id, Issued
  <2>2. 0..(buffer_store_index' - 1) = {}
    BY <1>4
  <2> QED
    BY <1>4, <1>9, <2>1, <2>2 DEF StoreData
<1> QED
  BY <1>10, <1>11, <1>12 DEF StoreInv

(* sync_end: the credit of the last chunk comes back with the last petition. *)
LEMMA StoreEnds ==
  ASSUME ChunksFit, IInv, Counted, Issued, StoreInv, Steps,
         vpu_state = "MEMORY", instr.kind = "store", sync_end
  PROVE  StoreInv'
<1>1. /\ ~issuing /\ vpu_instr = instr /\ ~vpu_sync_start /\ curr_state = "WAIT_ANSWER"
  BY MemoryPhases
<1>2. VpuMemory(issuing, ChunkElements(vpu_instr.sew), vpu_send_store_credit, sync_end)
  BY <1>1, VpuMoves DEF Steps
<1>4. /\ vpu_chunks = buffer_store_index + (IF vpu_store_valid THEN 1 ELSE 0)
      /\ vpu_chunks <= chunks_due /\ vpu_store_credits \in 0..StoreCredits
      /\ vpu_store_credits + vpu_chunks = StoreCredits + chunks_done
      /\ store_valid /\ vpu_send_store_credit /\ buffer_store_index = chunks_due
  BY <1>1 DEF StoreInv, StoreCounts, storing
<1>5. served + 1 = n_packets /\ n_packets \in Nat \ {0} /\ chunks_due = chunks_done + 1
      /\ chunks_due \in Nat /\ chunks_done \in Nat
  <2>1. served + 1 = n_packets
    BY <1>4 DEF Counted, PetitionsCounted, on_core_bus, petition
  <2>2. n_packets \in Nat \ {0} /\ chunks_due = (n_packets - 1) \div SubPackets + 1 /\ chunks_due \in Nat
    BY <1>1, DueChunks
  <2>3. n_packets - 1 = served
    BY <2>1, <2>2, CountTypes DEF IInv
  <2>4. chunks_done \in Nat
    BY CountTypes, DivNat, OviAssumption DEF chunks_done, IInv
  <2> QED
    BY <2>1, <2>2, <2>3, <2>4 DEF chunks_done
<1>6. ~vpu_store_valid /\ vpu_chunks = chunks_due
  BY <1>4, <1>5 DEF IInv, TypeOK, OviTypeOK
<1>7. vpu_store_credits + 1 = StoreCredits
  BY <1>4, <1>5, <1>6, VpuAssumption
<1>8. /\ ~vpu_store_valid' /\ vpu_state' = "DRAIN" /\ ~vpu_sync_start'
      /\ vpu_store_credits' = vpu_store_credits + 1 - 0
  <2>1. ~(vpu_chunks < StoreChunks(vpu_instr, ChunkElements(vpu_instr.sew)))
    BY <1>1, <1>5, <1>6 DEF chunks_due
  <2> QED
    BY <1>2, <1>4, <2>1 DEF VpuMemory
<1>9. vpu_store_credits' = StoreCredits
  BY <1>4, <1>7, <1>8
<1>10. ~send_store_petition' /\ ~vpu_send_store_credit'
  BY <1>1, BridgeRests DEF Steps
<1> QED
  BY <1>8, <1>9, <1>10 DEF StoreInv, StoreRests, StoreCounts, StoreData, storing, store_valid

(* RECEIVE_DATA: chunks come in while packets of those received go out. *)
LEMMA StoreReceives ==
  ASSUME ChunksFit, IInv, Counted, Issued, StoreInv, Steps, curr_state = "RECEIVE_DATA"
  PROVE  StoreInv'
<1> DEFINE send == memready /\ ~petition /\ chunk_received
           offers == /\ vpu_instr.kind = "store" /\ vpu_timer = 0 /\ vpu_store_credits > 0
                     /\ vpu_chunks < StoreChunks(vpu_instr, ChunkElements(vpu_instr.sew))
           one(b) == IF b THEN 1 ELSE 0
<1>1. /\ ~issuing /\ vpu_state = "MEMORY" /\ ~sync_end /\ ~vpu_sync_start /\ instr.kind = "store"
      /\ vpu_instr = instr
  <2>1. vpu_state = "MEMORY"
    BY DEF IInv, Lockstep, TypeOK, VpuTypeOK
  <2> QED
    BY <2>1, MemoryPhases
<1>2. /\ vpu_chunks = buffer_store_index + one(vpu_store_valid)
      /\ vpu_chunks <= chunks_due /\ vpu_store_credits \in 0..StoreCredits
      /\ vpu_store_credits + vpu_chunks = StoreCredits + chunks_done
      /\ chunks_done <= buffer_store_index
      /\ store_valid => chunks_done < buffer_store_index
      /\ vpu_send_store_credit <=> store_valid /\ (served + 1) % SubPackets = 0
  BY <1>1 DEF StoreInv, StoreCounts, storing
<1>3. /\ n_packets \in Nat \ {0} /\ chunks_due = (n_packets - 1) \div SubPackets + 1
      /\ chunks_due \in Nat /\ chunks_due <= StoreDepth /\ chunks_due < 64
  BY DueChunks
<1>4. /\ served \in Nat /\ sent_packets = served /\ chunks_done \in Nat /\ vpu_chunks \in Nat
      /\ buffer_store_index \in Nat /\ vpu_store_valid \in BOOLEAN /\ chunk = chunks_done
      /\ StoreCredits \in Nat
  <2>1. served \in Nat /\ sent_packets = served
    BY CountTypes DEF Counted, PetitionsCounted, IInv
  <2>2. chunks_done \in Nat
    BY <2>1, DivNat, OviAssumption DEF chunks_done
  <2>3. vpu_chunks \in Nat /\ buffer_store_index \in Nat /\ vpu_store_valid \in BOOLEAN
    BY DEF IInv, TypeOK, OviTypeOK, VpuTypeOK
  <2> QED
    BY <2>1, <2>2, <2>3, VpuAssumption DEF chunks_done, chunk
<1>5. /\ send_store_petition' = send /\ vpu_send_store_credit' = (send /\ last_chunk_offset)
      /\ sync_end' = (send /\ last_packet)
      /\ IF vpu_store_valid
         THEN /\ BUFFER_STORE' = [BUFFER_STORE EXCEPT ![buffer_store_index] = vpu_store_data]
              /\ buffer_store_index' = (buffer_store_index + 1) % 64
         ELSE UNCHANGED <<BUFFER_STORE, buffer_store_index>>
      /\ sent_packets' = IF send_store_petition THEN sent_packets + 1 ELSE sent_packets
      /\ UNCHANGED <<sbid_counter, instr, n_packets>>
  BY BridgeReceives DEF Steps, ReceiveData, CountPetition
<1>6. /\ vpu_store_valid' = offers
      /\ IF offers
         THEN /\ vpu_store_data' = <<vpu_sb, vpu_chunks>>
              /\ vpu_chunks' = vpu_chunks + 1
         ELSE UNCHANGED <<vpu_store_data, vpu_chunks>>
      /\ vpu_store_credits' = vpu_store_credits + one(vpu_send_store_credit) - one(offers)
      /\ vpu_state' = "MEMORY" /\ ~vpu_sync_start'
  <2>1. VpuMemory(issuing, ChunkElements(vpu_instr.sew), vpu_send_store_credit, sync_end)
    BY <1>1, VpuMoves DEF Steps
  <2> QED
    BY <1>1, <2>1 DEF VpuMemory
<1>7. /\ petition = store_valid /\ store_valid = send_store_petition
      /\ send_store_petition \in BOOLEAN
      /\ served' = IF store_valid THEN served + 1 ELSE served
  <2>1. ~load_valid /\ send_store_petition \in BOOLEAN
    BY CountTypes DEF load_valid, IInv
  <2>2. petition = store_valid /\ store_valid = send_store_petition
    BY <2>1 DEF petition, store_valid
  <2> QED
    BY <1>1, <2>1, <2>2 DEF Steps, History
<1>8. chunks_due' = chunks_due /\ VPU_sb_id' = VPU_sb_id /\ vpu_sb = VPU_sb_id
  BY <1>5 DEF chunks_due, VPU_sb_id, Issued
<1>9. offers => vpu_store_credits > 0 /\ vpu_chunks < chunks_due
  BY <1>1 DEF chunks_due
<1>10. buffer_store_index' = vpu_chunks
  <2>1. CASE vpu_store_valid
    <3>1. buffer_store_index + 1 = vpu_chunks /\ vpu_chunks < 64
      BY <1>2, <1>3, <1>4, <2>1
    <3> QED
      BY <1>4, <1>5, <2>1, <3>1
  <2>2. CASE ~vpu_store_valid
    BY <1>2, <1>4, <1>5, <2>2
  <2> QED
    BY <2>1, <2>2
<1>11. chunks_done' = chunks_done + one(vpu_send_store_credit) /\ chunks_done' <= buffer_store_index
  <2>1. SubPackets \in Nat \ {0}
    BY OviAssumption
  <2>2. CASE store_valid /\ (served + 1) % SubPackets = 0
    <3>1. served' = served + 1 /\ (served + 1) \div SubPackets = served \div SubPackets + 1
      BY <1>4, <1>7, <2>1, <2>2, DivStep
    <3> QED
      BY <1>2, <1>4, <2>2, <3>1 DEF chunks_done
  <2>3. CASE store_valid /\ (served + 1) % SubPackets # 0
    <3>1. served' = served + 1 /\ (served + 1) \div SubPackets = served \div SubPackets
      BY <1>4, <1>7, <2>1, <2>3, DivStep
    <3> QED
      BY <1>2, <1>4, <2>3, <3>1 DEF chunks_done
  <2>4. CASE ~store_valid
    BY <1>2, <1>4, <1>7, <2>4 DEF chunks_done
  <2> QED
    BY <2>2, <2>3, <2>4
<1>12. send => ~store_valid /\ chunks_done < buffer_store_index /\ served' = served
  BY <1>4, <1>7 DEF chunk_received
<1>13. buffer_store_index <= vpu_chunks /\ buffer_store_index' >= buffer_store_index
  BY <1>2, <1>4, <1>10
<1> HIDE DEF send, offers
<1>14. StoreRests'
  BY <1>1, <1>5, <1>6 DEF StoreRests, storing
<1>15. StoreCounts'
  <2>1. vpu_chunks' = buffer_store_index' + one(vpu_store_valid') /\ vpu_chunks' <= chunks_due'
        /\ vpu_chunks' \in Nat
    <3>1. CASE offers
      BY <1>3, <1>4, <1>6, <1>8, <1>9, <1>10, <3>1
    <3>2. CASE ~offers
      BY <1>2, <1>3, <1>4, <1>6, <1>8, <1>10, <3>2
    <3> QED
      BY <3>1, <3>2
  <2>2. vpu_store_credits' + vpu_chunks' = StoreCredits + chunks_done' /\ vpu_store_credits' >= 0
        /\ vpu_store_credits' \in Int
    <3>1. CASE offers
      BY <1>2, <1>4, <1>6, <1>9, <1>11, <3>1
    <3>2. CASE ~offers
      BY <1>2, <1>4, <1>6, <1>11, <3>2
    <3> QED
      BY <3>1, <3>2
  <2>3. chunks_done' <= buffer_store_index' /\ chunks_done' \in Nat
    BY <1>4, <1>10, <1>11, <1>13
  <2>4. vpu_store_credits' \in 0..StoreCredits
    <3>1. chunks_done' <= vpu_chunks'
      BY <1>4, <1>6, <1>10, <2>1, <2>3
    <3> QED
      BY <1>4, <2>1, <2>2, <2>3, <3>1
  <2>5. store_valid' => sent_packets' = served' /\ chunks_done' < buffer_store_index'
    <3>1. sent_packets' = served'
      BY <1>4, <1>5, <1>7
    <3>2. send => chunks_done' = chunks_done
      BY <1>12 DEF chunks_done
    <3> QED
      BY <1>4, <1>5, <1>10, <1>12, <1>13, <3>1, <3>2 DEF store_valid
  <2>6. vpu_send_store_credit' <=> store_valid' /\ (sync_end' \/ (served' + 1) % SubPackets = 0)
    <3>1. CASE send
      <4>1. served % SubPackets = SubPackets - 1 <=> (served + 1) % SubPackets = 0
        BY <1>4, DivStep, OviAssumption
      <4>2. last_chunk_offset <=> last_packet \/ (served + 1) % SubPackets = 0
        BY <1>4, <4>1 DEF last_chunk_offset, chunk_offset
      <4> QED
        BY <1>5, <1>12, <3>1, <4>2 DEF store_valid
    <3>2. CASE ~send
      BY <1>5, <3>2 DEF store_valid
    <3> QED
      BY <3>1, <3>2
  <2>7. sync_end' => store_valid' /\ buffer_store_index' = chunks_due'
    <3> SUFFICES ASSUME send, last_packet PROVE store_valid' /\ buffer_store_index' = chunks_due'
      BY <1>5
    <3>1. n_packets - 1 = served
      BY <1>3, <1>4 DEF last_packet
    <3>2. chunks_due = chunks_done + 1
      BY <1>3, <3>1 DEF chunks_done
    <3> QED
      BY <1>2, <1>3, <1>4, <1>5, <1>8, <1>10, <1>12, <1>13, <3>2 DEF store_valid
  <2> QED
    BY <2>1, <2>2, <2>3, <2>4, <2>5, <2>6, <2>7 DEF StoreCounts
<1>16. StoreData'
  <2>1. ASSUME NEW c \in 0..buffer_store_index' - 1 PROVE BUFFER_STORE'[c] = <<VPU_sb_id, c>>
    <3>1. DOMAIN BUFFER_STORE = 0..StoreDepth - 1
      BY DEF IInv, TypeOK, OviTypeOK
    <3>2. /\ \A d \in 0..buffer_store_index - 1 : BUFFER_STORE[d] = <<VPU_sb_id, d>>
          /\ vpu_store_valid => vpu_store_data = <<VPU_sb_id, buffer_store_index>>
      BY <1>1 DEF StoreInv, StoreData, storing
    <3>3. CASE vpu_store_valid
      <4>1. buffer_store_index + 1 = vpu_chunks /\ buffer_store_index \in 0..StoreDepth - 1
        BY <1>2, <1>3, <1>4, <3>3, OviAssumption
      <4>2. BUFFER_STORE' = [BUFFER_STORE EXCEPT ![buffer_store_index] = vpu_store_data]
        BY <1>5, <3>3
      <4>3. c \in 0..buffer_store_index - 1 \/ c = buffer_store_index
        BY <1>4, <1>10, <4>1
      <4>4. c \in DOMAIN BUFFER_STORE
        BY <1>4, <3>1, <4>1, <4>3, OviAssumption
      <4> QED
        BY <3>2, <3>3, <4>2, <4>3, <4>4
    <3>4. CASE ~vpu_store_valid
      <4>1. buffer_store_index' = buffer_store_index /\ BUFFER_STORE' = BUFFER_STORE
        BY <1>5, <3>4
      <4> QED
        BY <3>2, <4>1
    <3> QED
      BY <3>3, <3>4
  <2>2. vpu_store_valid' => vpu_store_data' = <<VPU_sb_id, buffer_store_index'>>
    BY <1>6, <1>8, <1>10
  <2> QED
    BY <1>8, <2>1, <2>2 DEF StoreData
<1> QED
  BY <1>14, <1>15, <1>16 DEF StoreInv

LEMMA StoreNext ==
  ASSUME ChunksFit, IInv, Counted, Issued, StoreInv, Steps
  PROVE  StoreInv'
<1>1. CASE vpu_state # "MEMORY"
  BY <1>1, StoreAtRest
<1>2. CASE vpu_state = "MEMORY"
  <2>1. /\ instr.kind \in {"load", "store"}
        /\ curr_state = IF vpu_sync_start \/ sync_end THEN "WAIT_ANSWER"
                        ELSE IF instr.kind = "store" THEN "RECEIVE_DATA" ELSE "SEND_DATA"
    BY <1>2, MemoryPhases
  <2> QED
    BY <1>2, <2>1, StoreOfLoad, StoreStarts, StoreEnds, StoreReceives
<1> QED
  BY <1>1, <1>2

LEMMA IssuedInvariant ==
  ASSUME CounterHolds, WholePackets, 0 \notin VpuLatencies
  PROVE  Spec => [](IInv /\ Counted /\ Issued)
<1>1. Spec => [](IInv /\ Counted)
  BY CountedInvariant
<1>2. Init => Issued
  BY DEF Init, OviInit, AutomataInit, Issued
<1>3. IInv /\ Counted /\ Issued /\ [Next]_vars => Issued'
  <2> SUFFICES ASSUME IInv, Counted, Issued, [Next]_vars PROVE Issued'
    OBVIOUS
  <2>1. CASE Next
    <3>1. Steps
      BY <2>1 DEF Next, Steps, BridgeStep, AutomataStep, VpuStep
    <3> QED
      BY <3>1, IssuedStep
  <2>2. CASE UNCHANGED vars
    BY <2>2 DEF vars, oviVars, control, counters, autVars, vpuVars, history, Issued, VPU_sb_id
  <2> QED
    BY <2>1, <2>2
<1> QED
  BY <1>1, <1>2, <1>3, PTL DEF Spec

LEMMA StoreInvariant ==
  ASSUME CounterHolds, ChunksFit, 0 \notin VpuLatencies
  PROVE  Spec => [](IInv /\ Counted /\ Issued /\ StoreInv)
<1>0. WholePackets
  BY DEF ChunksFit, ChunksHavePackets, WholePackets
<1>1. Spec => [](IInv /\ Counted /\ Issued)
  BY <1>0, IssuedInvariant
<1>2. Init => StoreInv
  BY DEF Init, OviInit, VpuInit, StoreInv, StoreRests, StoreCounts, StoreData, storing, store_valid
<1>3. IInv /\ Counted /\ Issued /\ StoreInv /\ [Next]_vars => StoreInv'
  <2> SUFFICES ASSUME IInv, Counted, Issued, StoreInv, [Next]_vars PROVE StoreInv'
    OBVIOUS
  <2>1. CASE Next
    <3>1. Steps
      BY <2>1 DEF Next, Steps, BridgeStep, AutomataStep, VpuStep
    <3> QED
      BY <3>1, StoreNext
  <2>2. CASE UNCHANGED vars
    <3>1. /\ UNCHANGED <<vpu_state, instr, vpu_sync_start, vpu_chunks, vpu_store_credits>>
          /\ UNCHANGED <<vpu_store_valid, vpu_store_data, vpu_send_store_credit, send_store_petition>>
          /\ UNCHANGED <<buffer_store_index, served, sent_packets, sync_end, BUFFER_STORE, sbid_counter>>
      BY <2>2 DEF vars, oviVars, control, counters, pulses, buffers, vpuVars, history
    <3>2. StoreRests' /\ StoreCounts'
      BY <3>1 DEF StoreInv, StoreRests, StoreCounts, storing, store_valid, chunks_due, chunks_done
    <3>3. StoreData'
      BY <3>1 DEF StoreInv, StoreData, storing, VPU_sb_id
    <3> QED
      BY <3>2, <3>3 DEF StoreInv
  <2> QED
    BY <2>1, <2>2
<1> QED
  BY <1>1, <1>2, <1>3, PTL DEF Spec

(* A store petition on the core bus is the next packet of the store, with the data
   of the chunk it belongs to, which the VPU has sent for this very instruction. *)
THEOREM StorePetitionsAreInOrder ==
  ASSUME CounterHolds, ChunksFit, 0 \notin VpuLatencies
  PROVE  Spec => []StorePetitionIsNextPacket
<1>1. IInv /\ Counted /\ Issued /\ StoreInv => StorePetitionIsNextPacket
  <2> SUFFICES ASSUME IInv, Counted, Issued, StoreInv, store_valid
               PROVE  /\ sent_packets = served /\ chunk < buffer_store_index
                      /\ store_data = <<<<VPU_sb_id, served \div SubPackets>>, served % SubPackets>>
    BY DEF StorePetitionIsNextPacket
  <2>1. storing
    BY DEF StoreInv, StoreRests
  <2>2. sent_packets = served /\ chunks_done < buffer_store_index
    BY <2>1 DEF StoreInv, StoreCounts
  <2>3. chunk = chunks_done
    BY <2>2 DEF chunk, chunks_done
  <2>4. chunks_done \in 0..buffer_store_index - 1
    <3>1. chunks_done \in Nat /\ buffer_store_index \in Nat
      BY CountTypes, DivNat, OviAssumption DEF chunks_done, IInv, TypeOK, OviTypeOK
    <3> QED
      BY <2>2, <3>1
  <2>5. BUFFER_STORE[chunk] = <<VPU_sb_id, chunks_done>>
    BY <2>1, <2>3, <2>4 DEF StoreInv, StoreData
  <2> QED
    BY <2>2, <2>3, <2>5 DEF store_data, chunk_offset, chunks_done
<1> QED
  BY <1>1, StoreInvariant, PTL

(* The store credits are never more than the VPU has, and all back at the end. *)
THEOREM StoreCreditsComeBack ==
  ASSUME CounterHolds, ChunksFit, 0 \notin VpuLatencies
  PROVE  Spec => []StoreCreditsConserved
<1>1. IInv /\ Counted /\ Issued /\ StoreInv => StoreCreditsConserved
  <2> SUFFICES ASSUME IInv, Counted, StoreInv PROVE StoreCreditsConserved
    OBVIOUS
  <2>1. vpu_store_credits \in 0..StoreCredits
    BY VpuAssumption DEF StoreInv, StoreRests, StoreCounts
  <2>2. vpu_completed => ~storing
    BY MemoryPhases DEF storing
  <2> QED
    BY <2>1, <2>2 DEF StoreInv, StoreRests, StoreCreditsConserved
<1> QED
  BY <1>1, StoreInvariant, PTL

(* Every chunk the VPU sends finds the bridge listening and an entry of its own. *)
THEOREM EveryChunkHasAnEntry ==
  ASSUME CounterHolds, ChunksFit, 0 \notin VpuLatencies
  PROVE  Spec => []StoreBufferNeverOverrun
<1>1. IInv /\ Counted /\ Issued /\ StoreInv => StoreBufferNeverOverrun
  <2> SUFFICES ASSUME IInv, Counted, Issued, StoreInv, vpu_store_valid
               PROVE  curr_state = "RECEIVE_DATA" /\ buffer_store_index < StoreDepth
    BY DEF StoreBufferNeverOverrun
  <2>1. storing
    BY DEF StoreInv, StoreRests
  <2>2. vpu_chunks = buffer_store_index + 1 /\ vpu_chunks <= chunks_due
        /\ (sync_end => buffer_store_index = chunks_due)
    BY <2>1 DEF StoreInv, StoreCounts
  <2>3. curr_state # "WAIT_ISSUE"
    BY <2>1, MemoryPhases DEF storing
  <2>4. chunks_due \in Nat /\ chunks_due <= StoreDepth /\ StoreDepth \in Nat
        /\ buffer_store_index \in Nat
    BY <2>3, DueChunks, OviAssumption DEF IInv, TypeOK, OviTypeOK
  <2>5. ~sync_end
    BY <2>2, <2>4
  <2> QED
    BY <2>1, <2>2, <2>4, <2>5, MemoryPhases DEF storing
<1> QED
  BY <1>1, StoreInvariant, PTL

-----------------------------------------------------------------------------
(* Loads: the n-th packet carries the n-th answer of the memory.             *)

LoadRests ==
  /\ ~loading => ~buffer_load_ready
  /\ vpu_state = "BUSY" \/ vpu_sync_start => announced = {}
  /\ instr.kind = "load" /\ (vpu_state = "DRAIN" \/ vpu_completed) =>
       announced = 0..((n_packets - 1) \div SubPackets) * per_chunk + extra_elements - 1
LoadMoves ==
  loading =>
    /\ ChunkCounts /\ ChunkHolds([n \in Nat |-> lmem_base + n])
    /\ announced = 0..filling * per_chunk - 1
LoadInv == LoadRests /\ LoadMoves

LEMMA Intervals ==
  ASSUME NEW a \in Nat, NEW b \in Nat
  PROVE  (0..a - 1) \cup (a..a + b - 1) = 0..a + b - 1
  OBVIOUS

LEMMA VpuEnds ==
  ASSUME VpuStep, vpu_state # "MEMORY"
  PROVE  vpu_state' = "DRAIN" \/ vpu_completed' =>
           ~issuing /\ (vpu_state = "DRAIN" \/ (vpu_state = "BUSY" /\ vpu_instr.kind = "arith"))
<1>1. \/ VpuAccept(issuing, CORE_ISSUE_instr, sbid_counter) \/ VpuIdle(issuing) \/ VpuWait(issuing)
      \/ VpuComplete(issuing) \/ VpuStartMemory(issuing)
  BY DEF VpuStep, VpuEdge, VpuMemory
<1>2. CASE VpuAccept(issuing, CORE_ISSUE_instr, sbid_counter) \/ VpuIdle(issuing) \/ VpuStartMemory(issuing)
  BY <1>2 DEF VpuAccept, VpuIdle, VpuStartMemory, Silent
<1>3. CASE VpuWait(issuing)
  BY <1>3 DEF VpuWait, Silent
<1>4. CASE VpuComplete(issuing)
  BY <1>4 DEF VpuComplete
<1> QED
  BY <1>1, <1>2, <1>3, <1>4

LEMMA LoadAtRest ==
  ASSUME IInv, Counted, LoadInv, Steps, vpu_state # "MEMORY"
  PROVE  LoadInv'
<1>1. curr_state \in {"WAIT_ISSUE", "WAIT_ANSWER"}
  BY DEF IInv, Lockstep, TypeOK, VpuTypeOK
<1>2. ~loading' /\ ~loading
  BY VpuRests DEF Steps, loading
<1>3. ~buffer_load_ready' /\ ~buffer_load_ready
  BY <1>1, <1>2, BridgeRests DEF Steps, LoadInv, LoadRests
<1>4. announced' = IF issuing THEN {} ELSE announced
  BY <1>3 DEF Steps, History
<1>5. vpu_state' = "BUSY" \/ vpu_sync_start' => announced' = {}
  BY <1>4, VpuRests DEF Steps, LoadInv, LoadRests
<1>6. ASSUME instr'.kind = "load", vpu_state' = "DRAIN" \/ vpu_completed'
      PROVE  (announced = 0..((n_packets - 1) \div SubPackets) * per_chunk + extra_elements - 1)'
  <2>1. ~issuing /\ (vpu_state = "DRAIN" \/ (vpu_state = "BUSY" /\ vpu_instr.kind = "arith"))
    BY <1>6, VpuEnds DEF Steps
  <2>2. curr_state = "WAIT_ANSWER" /\ vpu_instr = instr
    BY <2>1 DEF IInv, Lockstep
  <2>3. UNCHANGED <<instr, n_packets>>
    BY <2>2, BridgeKeeps DEF Steps
  <2>4. vpu_state = "DRAIN" /\ instr.kind = "load"
    BY <1>6, <2>1, <2>2, <2>3
  <2>5. announced = 0..((n_packets - 1) \div SubPackets) * per_chunk + extra_elements - 1
    BY <2>4 DEF LoadInv, LoadRests
  <2> QED
    BY <1>4, <2>1, <2>3, <2>5 DEF per_chunk, extra_elements
<1> QED
  BY <1>2, <1>3, <1>5, <1>6 DEF LoadInv, LoadRests, LoadMoves

LEMMA LoadOfStore ==
  ASSUME IInv, Counted, LoadInv, Steps, vpu_state = "MEMORY", instr.kind = "store"
  PROVE  LoadInv'
<1>1. ~issuing /\ curr_state \in {"WAIT_ANSWER", "RECEIVE_DATA"}
  BY MemoryPhases
<1>2. VpuMemory(issuing, ChunkElements(vpu_instr.sew), vpu_send_store_credit, sync_end)
  BY <1>1, VpuMoves DEF Steps
<1>3. instr' = instr /\ ~buffer_load_ready'
  BY <1>1, BridgeKeeps, BridgeRests, BridgeReceives DEF Steps, ReceiveData
<1>4. vpu_state' # "BUSY" /\ ~vpu_sync_start'
  BY <1>2 DEF VpuMemory
<1> QED
  BY <1>3, <1>4 DEF LoadInv, LoadRests, LoadMoves, loading

(* sync_start: nothing is there yet. *)
LEMMA LoadStarts ==
  ASSUME IInv, Counted, LoadInv, Steps, vpu_state = "MEMORY", instr.kind = "load", vpu_sync_start
  PROVE  LoadInv'
<1>1. ~issuing /\ ~vpu_completed /\ ~sync_end /\ curr_state = "WAIT_ANSWER"
  BY MemoryPhases
<1>2. VpuMemory(issuing, ChunkElements(vpu_instr.sew), vpu_send_store_credit, sync_end)
  BY <1>1, VpuMoves DEF Steps
<1>3. vpu_state' = "MEMORY" /\ ~vpu_sync_start' /\ ~vpu_completed'
  BY <1>1, <1>2 DEF VpuMemory
<1>4. /\ UNCHANGED <<instr, n_packets, load_packets>> /\ ~sync_end' /\ ~buffer_load_ready'
  BY <1>1, BridgeKeeps, BridgeRests DEF Steps
<1>5. load_packets = 0 /\ n_packets \in Nat \ {0}
  BY <1>1 DEF Counted, PetitionsCounted, IInv, TypeOK, OviTypeOK
<1>6. announced' = {}
  BY <1>1 DEF Steps, History, LoadInv, LoadRests, loading
<1>7. ChunkCounts' /\ filling' = 0 /\ \A w : ChunkHolds(w)'
  <2>1. load_packets' = 0 /\ n_packets' \in Nat \ {0}
    BY <1>4, <1>5
  <2> QED
    BY <1>4, <2>1, ChunkIsEmpty
<1>8. per_chunk' = per_chunk /\ per_chunk \in Nat
  BY <1>4, LoadWidths DEF per_chunk, IInv, TypeOK
<1>9. 0..(filling' * per_chunk' - 1) = {}
  BY <1>7, <1>8
<1> QED
  BY <1>3, <1>4, <1>6, <1>7, <1>9 DEF LoadInv, LoadRests, LoadMoves, loading

(* sync_end: the last chunk is on the VPU bus. *)
LEMMA LoadEnds ==
  ASSUME IInv, Counted, LoadInv, Steps, vpu_state = "MEMORY", instr.kind = "load", sync_end
  PROVE  LoadInv'
<1>1. ~issuing /\ ~vpu_sync_start /\ ~vpu_completed /\ curr_state = "WAIT_ANSWER"
  BY MemoryPhases
<1>2. VpuMemory(issuing, ChunkElements(vpu_instr.sew), vpu_send_store_credit, sync_end)
  BY <1>1, VpuMoves DEF Steps
<1>3. vpu_state' = "DRAIN" /\ ~vpu_sync_start' /\ ~vpu_completed'
  BY <1>2 DEF VpuMemory
<1>4. UNCHANGED <<instr, n_packets>> /\ ~buffer_load_ready'
  BY <1>1, BridgeKeeps, BridgeRests DEF Steps
<1>5. /\ load_packets = n_packets /\ buffer_load_ready
      /\ load_packets > 0 /\ el_id = filling * per_chunk /\ el_count = extra_elements
      /\ announced = 0..filling * per_chunk - 1
  BY <1>1 DEF LoadInv, LoadMoves, ChunkCounts, loading
<1>6. filling = (n_packets - 1) \div SubPackets
  BY <1>5 DEF filling
<1>7. filling * per_chunk \in Nat /\ extra_elements \in Nat
  <2>1. filling \in Nat
    BY <1>5, <1>6, LoadWidths, DivNat DEF IInv, TypeOK
  <2> QED
    BY <2>1, LoadWidths DEF IInv, TypeOK
<1>8. announced' = (0..filling * per_chunk - 1)
                   \cup (filling * per_chunk..filling * per_chunk + extra_elements - 1)
  BY <1>1, <1>5 DEF Steps, History
<1>9. announced' = 0..filling * per_chunk + extra_elements - 1
  BY <1>7, <1>8, Intervals
<1> QED
  BY <1>3, <1>4, <1>6, <1>9 DEF LoadInv, LoadRests, LoadMoves, loading, per_chunk, extra_elements

(* SEND_DATA: the chunk on the VPU bus counts as announced, and the next is filled. *)
LEMMA LoadSends ==
  ASSUME IInv, Counted, Issued, LoadInv, Steps, curr_state = "SEND_DATA"
  PROVE  LoadInv'
<1> DEFINE w == [n \in Nat |-> lmem_base + n]
<1>1. /\ ~issuing /\ vpu_state = "MEMORY" /\ ~sync_end /\ ~vpu_sync_start /\ instr.kind = "load"
  <2>1. vpu_state = "MEMORY"
    BY DEF IInv, Lockstep, TypeOK, VpuTypeOK
  <2> QED
    BY <2>1, MemoryPhases
<1>2. OviTypeOK /\ per_chunk \in Nat \ {0} /\ load_packets \in Nat
  BY LoadWidths DEF IInv, TypeOK
<1>3. ChunkCounts /\ ChunkHolds(w) /\ announced = 0..filling * per_chunk - 1
  BY <1>1 DEF LoadInv, LoadMoves, loading
<1>4. SendData(memready /\ ~petition, datavalid /\ is_load, LMEM, vpu_credit)
  BY BridgeSends DEF Steps
<1>5. vpu_state' = "MEMORY" /\ ~vpu_sync_start' /\ ~vpu_completed'
  BY <1>1, MovingPhase DEF Steps
<1>6. lmem_base' = lmem_base /\ LMEM = w[load_packets]
  BY <1>1, <1>2 DEF Steps, History, Issued
<1>7. instr' = instr /\ per_chunk' = per_chunk
  BY <1>4 DEF SendData, per_chunk
<1>8. ChunkCounts' /\ filling' = load_chunk
  BY <1>1, <1>2, <1>3, <1>4, ChunkSends
<1>9. ChunkHolds([n \in Nat |-> lmem_base + n])'
  <2>1. PICK u : u = w
    OBVIOUS
  <2> HIDE DEF w
  <2>2. ChunkHolds(u)'
    BY <1>1, <1>2, <1>3, <1>4, <1>6, <2>1, WordsStored
  <2>3. w' = u
    BY <1>6, <2>1 DEF w
  <2> QED
    BY <2>2, <2>3 DEF w, ChunkHolds
<1>10. announced' = 0..filling' * per_chunk' - 1
  <2>1. CASE buffer_load_ready
    <3>1. filling \in Nat /\ load_chunk = filling + 1 /\ el_id = filling * per_chunk
          /\ el_count = per_chunk
      BY <1>1, <1>2, <1>3, <2>1, ChunkOfNext DEF ChunkCounts
    <3>2. /\ filling * per_chunk \in Nat
          /\ load_chunk * per_chunk = filling * per_chunk + per_chunk
      BY <1>2, <3>1
    <3>3. announced' = (0..filling * per_chunk - 1)
                       \cup (filling * per_chunk..filling * per_chunk + per_chunk - 1)
      BY <1>1, <1>3, <2>1, <3>1 DEF Steps, History
    <3> QED
      BY <1>2, <1>7, <1>8, <3>2, <3>3, Intervals
  <2>2. CASE ~buffer_load_ready
    BY <1>1, <1>2, <1>3, <1>7, <1>8, <2>2, ChunkOfNext DEF Steps, History
  <2> QED
    BY <2>1, <2>2
<1>11. LoadMoves'
  BY <1>8, <1>9, <1>10 DEF LoadMoves
<1>12. LoadRests'
  BY <1>1, <1>5, <1>7 DEF LoadRests, loading
<1> QED
  BY <1>11, <1>12 DEF LoadInv

LEMMA LoadNext ==
  ASSUME IInv, Counted, Issued, LoadInv, Steps
  PROVE  LoadInv'
<1>1. CASE vpu_state # "MEMORY"
  BY <1>1, LoadAtRest
<1>2. CASE vpu_state = "MEMORY"
  <2>1. /\ instr.kind \in {"load", "store"}
        /\ curr_state = IF vpu_sync_start \/ sync_end THEN "WAIT_ANSWER"
                        ELSE IF instr.kind = "store" THEN "RECEIVE_DATA" ELSE "SEND_DATA"
    BY <1>2, MemoryPhases
  <2> QED
    BY <1>2, <2>1, LoadOfStore, LoadStarts, LoadEnds, LoadSends
<1> QED
  BY <1>1, <1>2

LEMMA LoadInvariant ==
  ASSUME CounterHolds, WholePackets, 0 \notin VpuLatencies
  PROVE  Spec => [](IInv /\ Counted /\ Issued /\ LoadInv)
<1>1. Spec => [](IInv /\ Counted /\ Issued)
  BY IssuedInvariant
<1>2. Init => LoadInv
  BY DEF Init, OviInit, VpuInit, LoadInv, LoadRests, LoadMoves, loading
<1>3. IInv /\ Counted /\ Issued /\ LoadInv /\ [Next]_vars => LoadInv'
  <2> SUFFICES ASSUME IInv, Counted, Issued, LoadInv, [Next]_vars PROVE LoadInv'
    OBVIOUS
  <2>1. CASE Next
    <3>1. Steps
      BY <2>1 DEF Next, Steps, BridgeStep, AutomataStep, VpuStep
    <3> QED
      BY <3>1, LoadNext
  <2>2. CASE UNCHANGED vars
    <3>1. /\ UNCHANGED <<vpu_state, instr, vpu_sync_start, vpu_completed, sync_end, load_packets>>
          /\ UNCHANGED <<n_packets, buffer_load_ready, el_id, el_count, BUFFER_LOAD>>
          /\ UNCHANGED <<announced, lmem_base>>
      BY <2>2 DEF vars, oviVars, control, counters, pulses, buffers, vpuVars, history
    <3>2. /\ filling' = filling /\ per_chunk' = per_chunk /\ extra_elements' = extra_elements
          /\ loading' = loading
      BY <3>1 DEF filling, per_chunk, extra_elements, loading
    <3>3. ChunkCounts' = ChunkCounts
      BY <3>1, <3>2 DEF ChunkCounts
    <3>4. ASSUME NEW w, ChunkHolds(w) PROVE ChunkHolds(w)'
      BY <3>1, <3>2, <3>4 DEF ChunkHolds
    <3>5. lmem_base' = lmem_base
      BY <3>1
    <3> QED
      BY <3>1, <3>2, <3>3, <3>4, <3>5 DEF LoadInv, LoadRests, LoadMoves
  <2> QED
    BY <2>1, <2>2
<1> QED
  BY <1>1, <1>2, <1>3, PTL DEF Spec

(* Every vector ends inside a chunk. *)
EndInsideChunk ==
  \A i \in Instructions : <<i.vl, i.sew>> \in VectorConfigs => i.vl % ChunkElements(i.sew) # 0

(* When a load completes, all elements of the vector have been announced, if it
   does not fill its last chunk. *)
THEOREM AllElementsAreAnnounced ==
  ASSUME CounterHolds, ChunksHavePackets, EndInsideChunk, 0 \notin VpuLatencies
  PROVE  Spec => []AllElementsAnnounced
<1>1. WholePackets
  BY DEF ChunksHavePackets, WholePackets
<1>2. IInv /\ Counted /\ Issued /\ LoadInv => AllElementsAnnounced
  <2> SUFFICES ASSUME IInv, Counted, Issued, LoadInv, vpu_completed, instr.kind = "load"
               PROVE  announced = 0..instr.vl - 1
    BY DEF AllElementsAnnounced
  <2> DEFINE chunks == (n_packets - 1) \div SubPackets
  <2>1. announced = 0..chunks * per_chunk + extra_elements - 1
    BY DEF LoadInv, LoadRests
  <2>2. curr_state # "WAIT_ISSUE" /\ instr \in Instructions /\ instr.vl \in Nat
    BY DEF IInv, Lockstep, TypeOK, OviTypeOK, VpuTypeOK, Instructions
  <2>3. /\ n_packets = PacketsOf(instr) /\ extra_elements # 0
        /\ StoreChunks(instr, per_chunk) = chunks + 1
    BY <2>2 DEF Issued, ChunksHavePackets, EndInsideChunk, extra_elements, per_chunk
  <2>4. per_chunk \in Nat \ {0} /\ extra_elements \in 0..per_chunk - 1
    BY LoadWidths DEF IInv, TypeOK
  <2>5. /\ instr.vl = per_chunk * (instr.vl \div per_chunk) + extra_elements
        /\ instr.vl \div per_chunk \in Int
    <3>1. extra_elements = instr.vl % per_chunk
      BY DEF extra_elements, per_chunk
    <3>2. /\ instr.vl = per_chunk * (instr.vl \div per_chunk) + (instr.vl % per_chunk)
          /\ instr.vl \div per_chunk \in Int
      <4>1. instr.vl \in Int
        BY <2>2
      <4> QED
        BY <2>4, <4>1, DivEuclid, Zenon
    <3> QED
      BY <3>1, <3>2
  <2> DEFINE d == instr.vl \div per_chunk
  <2>9. chunks \in Int /\ d \in Int
    <3>1. n_packets - 1 \in Int /\ SubPackets \in Nat \ {0}
      BY LoadWidths DEF IInv, TypeOK
    <3> QED
      BY <2>5, <3>1, DivEuclid
  <2> HIDE DEF d, chunks
  <2>6. StoreChunks(instr, per_chunk) = d + 1
    <3>1. /\ instr.vl + per_chunk - 1 = (d + 1) * per_chunk + (extra_elements - 1)
          /\ d \in Int /\ extra_elements - 1 \in 0..per_chunk - 1
      BY <2>2, <2>3, <2>4, <2>5 DEF d
    <3>2. ((d + 1) * per_chunk + (extra_elements - 1)) \div per_chunk = d + 1
      BY <2>4, <3>1, DivUnique
    <3> QED
      BY <3>1, <3>2 DEF StoreChunks
  <2>7. chunks = d
    BY <2>3, <2>6, <2>9
  <2>8. chunks * per_chunk + extra_elements = instr.vl
    BY <2>4, <2>5, <2>7 DEF d
  <2> QED
    BY <2>1, <2>2, <2>4, <2>8, <2>9
<1> QED
  BY <1>1, <1>2, LoadInvariant, PTL

ShortVectors ==
  \A i \in Instructions : <<i.vl, i.sew>> \in VectorConfigs => FitsShift(i)

(* Every element the bridge announces comes with the packet the memory returned
   for it: the n-th answer of the instruction for packet n. *)
THEOREM AnnouncedDataIsTheAnswers ==
  ASSUME CounterHolds, WholePackets, WholeElements, ShortVectors, 0 \notin VpuLatencies
  PROVE  Spec => []AnnouncedDataIsFresh
<1>1. ASSUME IInv, Counted, Issued, LoadInv, buffer_load_ready
      PROVE  LET first == (el_id * instrbits(instr.sew)) \div PacketBits
                 count == (el_count * instrbits(instr.sew)) \div PacketBits
             IN  \A s \in 0..count - 1 : BUFFER_LOAD[s] = lmem_base + first + s
  <2> DEFINE first == (el_id * instrbits(instr.sew)) \div PacketBits
             count == (el_count * instrbits(instr.sew)) \div PacketBits
             w == [n \in Nat |-> lmem_base + n]
  <2>1. loading
    BY <1>1 DEF LoadInv, LoadRests
  <2>2. curr_state # "WAIT_ISSUE"
    BY <1>1, <2>1, MemoryPhases DEF loading
  <2>3. /\ OviTypeOK /\ instr \in Instructions /\ <<instr.vl, instr.sew>> \in VectorConfigs
        /\ n_packets = PacketsOf(instr) /\ lmem_base \in Nat
    BY <1>1, <2>2 DEF IInv, TypeOK, OviTypeOK, Issued
  <2>4. FitsShift(instr)
    BY <2>3 DEF ShortVectors
  <2>5. ChunkCounts /\ ChunkHolds(w)
    BY <1>1, <2>1 DEF LoadInv, LoadMoves
  <2>6. first \in Nat
    <3>1. instr.sew \in Sews /\ el_id \in Nat /\ PacketBits \in Nat \ {0}
      BY <2>3, OviAssumption DEF OviTypeOK, Instructions
    <3>2. instrbits(instr.sew) \in Nat
      BY <3>1, InstrBits
    <3>3. el_id * instrbits(instr.sew) \in Nat
      BY <3>1, <3>2
    <3> QED
      BY <3>1, <3>3, DivNat
  <2>7. \A s \in 0..count - 1 : BUFFER_LOAD[s] = w[first + s]
    <3>1. PICK u : u = w
      OBVIOUS
    <3> HIDE DEF w
    <3>2. ChunkHolds(u)
      BY <2>5, <3>1
    <3>3. \A s \in 0..count - 1 : BUFFER_LOAD[s] = u[first + s]
      BY <1>1, <2>3, <2>4, <2>5, <3>2, ChunkIsOwn
    <3> QED
      BY <3>1, <3>3
  <2> HIDE DEF first, count
  <2>8. ASSUME NEW s \in 0..count - 1 PROVE BUFFER_LOAD[s] = lmem_base + first + s
    <3>1. s \in Nat /\ first + s \in Nat
      BY <2>6
    <3>2. BUFFER_LOAD[s] = lmem_base + (first + s)
      BY <2>7, <3>1
    <3> QED
      BY <2>3, <2>6, <3>1, <3>2
  <2> QED
    BY <2>8 DEF first, count
<1>2. IInv /\ Counted /\ Issued /\ LoadInv => AnnouncedDataIsFresh
  BY <1>1 DEF AnnouncedDataIsFresh
<1> QED
  BY <1>2, LoadInvariant, PTL
=============================================================================
