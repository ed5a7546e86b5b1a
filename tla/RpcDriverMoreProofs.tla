------------------------ MODULE RpcDriverMoreProofs ------------------------
(***************************************************************************)
(* More proofs about RpcDriver for every set of threads: nobody is left    *)
(* waiting in a circle, and what the driver keeps of its promises about    *)
(* limit_sem and about errors when nobody writes in the wrong way.         *)
(***************************************************************************)
EXTENDS RpcDriverProofs

USE DEF Free, UsbCore, Urb

-----------------------------------------------------------------------------
(***************************************************************************)
(* What each party of a set that is stuck waits for.                       *)
(***************************************************************************)

LEMMA ThreadWaits ==
  ASSUME NEW S, Stuck(S), NEW t \in Threads, t \in S
  PROVE  \/ pc[t] \in {"o_lock", "r_lock", "w_lock"} /\ io_mutex \in S
         \/ pc[t] \in {"r_retry", "r_fill", "r_fail", "w_err"} /\ err_lock \in S
         \/ /\ pc[t] = "o_pm" /\ core \in {"s_kill", "suspended"}
            /\ UsbCore \in S
         \/ /\ pc[t] = "r_wait" /\ int_in_completion = 0
            /\ UrbQuiet \/ Urb \in S
         \/ pc[t] = "w_down" /\ limit_sem = 0 /\ In(SlotHeld) \subseteq S
<1>1. t # UsbCore /\ t # Urb
  BY ThreadsAssumption
<1> QED
  BY <1>1 DEF Stuck, IoWaiters, ErrWaiters, PmWaiters, ReportWaiters,
     SlotWaiters, UrbWaiters, CoreAt, In

LEMMA CoreWaits ==
  ASSUME NEW S, Stuck(S), UsbCore \in S
  PROVE  \/ core \in {"r_lock", "d_lock"} /\ io_mutex \in S
         \/ core \in Killing \cup {"flush"} /\ Urb \in S
         \/ core = "d_minor" /\ In(InOpen) \cap S # {}
<1>1. UsbCore \notin Threads /\ UsbCore # Urb
  BY ThreadsAssumption
<1> QED
  BY <1>1 DEF Stuck, IoWaiters, ErrWaiters, PmWaiters, ReportWaiters,
     SlotWaiters, UrbWaiters, CoreAt, In

LEMMA UrbWaits ==
  ASSUME NEW S, Stuck(S), Urb \in S
  PROVE  err_lock \in S
<1>1. Urb \notin Threads /\ UsbCore # Urb
  BY ThreadsAssumption
<1> QED
  BY <1>1 DEF Stuck, IoWaiters, ErrWaiters, PmWaiters, ReportWaiters,
     SlotWaiters, UrbWaiters, CoreAt, In

\* A set of parties that is stuck is empty.  The order of the steps is the
\* order in which the waits can be granted: err_lock is never held over a
\* wait, so the urb goes on; then every reader that sleeps is woken and
\* usb_kill_urb returns; then io_mutex is given back, every open ends and the
\* USB core goes on; and then whoever holds a slot gives it back.
LEMMA NobodyStuck ==
  ASSUME Inductive, UrbInv, NEW S \in SUBSET Parties, Stuck(S)
  PROVE  S = {}
<1> USE DEF InOpen, InRead, InWrite, IoHeld, SlotHeld, In
<1>1. /\ TypeOK /\ LocksExact /\ SlotsNotLost /\ WaiterNotStranded
      /\ Free \notin S /\ S \subseteq Threads \cup {UsbCore, Urb}
  BY ThreadsAssumption DEF Inductive, UrbInv, Parties
<1>2. err_lock \notin S
  <2> SUFFICES ASSUME err_lock \in S PROVE FALSE
    OBVIOUS
  <2>1. err_lock \in Threads /\ pc[err_lock] = "w_clear"
    BY <1>1 DEF TypeOK, FieldsOK, LocksExact
  <2> QED
    BY <2>1, ThreadWaits
<1>3. Urb \notin S
  BY <1>2, UrbWaits
<1>4. \A t \in Threads \cap S : pc[t] # "r_wait"
  <2> SUFFICES ASSUME NEW t \in Threads, t \in S, pc[t] = "r_wait" PROVE FALSE
    OBVIOUS
  <2>1. int_in_completion = 0 /\ UrbQuiet
    BY <1>3, ThreadWaits
  <2> QED
    BY <1>1, <2>1 DEF WaiterNotStranded, UrbQuiet
<1>5. UsbCore \in S => core \in {"r_lock", "d_lock", "d_minor"}
  BY <1>3, CoreWaits
<1>6. io_mutex \notin S
  <2> SUFFICES ASSUME io_mutex \in S PROVE FALSE
    OBVIOUS
  <2>1. CASE io_mutex \in Threads
    <3>1. pc[io_mutex] \in IoHeld /\ pc[io_mutex] # "r_wait"
      BY <1>1, <1>4, <2>1 DEF LocksExact
    <3> QED
      BY <1>2, <1>5, <2>1, <3>1, ThreadWaits
  <2>2. CASE io_mutex = UsbCore
    BY <1>1, <1>5, <2>2 DEF LocksExact
  <2> QED
    BY <1>1, <2>1, <2>2 DEF TypeOK, FieldsOK
<1>7. In(InOpen) \cap S = {}
  BY <1>5, <1>6, ThreadWaits
<1>8. UsbCore \notin S
  BY <1>3, <1>6, <1>7, CoreWaits
<1>9. In(SlotHeld) \cap S = {}
  BY <1>2, <1>6, ThreadWaits
<1>10. Threads \cap S = {}
  <2> SUFFICES ASSUME NEW t \in Threads, t \in S PROVE FALSE
    OBVIOUS
  <2>1. limit_sem = 0 /\ In(SlotHeld) \subseteq S
    BY <1>2, <1>4, <1>6, <1>8, ThreadWaits
  <2>2. Cardinality(In(SlotHeld)) = 0
    BY <1>9, <2>1, FS_EmptySet
  <2> QED
    BY <1>1, <2>1, <2>2, CountsAssumption DEF SlotsNotLost
<1> QED
  BY <1>1, <1>3, <1>8, <1>10

\* Whatever locks the threads, the urb's handler and the USB core wait for,
\* one of the parties that wait can go on.
THEOREM NeverDeadlocked == Spec => []NoDeadlock
<1>1. Inductive /\ UrbInv => NoDeadlock
  BY NobodyStuck DEF NoDeadlock
<1> QED
  BY <1>1, InductiveInvariant, UrbInvariant, PTL
-----------------------------------------------------------------------------
(***************************************************************************)
(* Two comments of rpcdrv.c do not hold in general (WritesLimited and      *)
(* ErrorReportedOnce, which runs refute).  These theorems say what breaks  *)
(* them: writes of another length than one byte, and concurrent writers.   *)
(***************************************************************************)

\* What a step of thread t does to limit_sem, unless it is a write of a wrong
\* length, and to dev->errors.
CallEffect(t) ==
  /\ \/ limit_sem' = limit_sem /\ (pc'[t] \in SlotHeld <=> pc[t] \in SlotHeld)
     \/ /\ pc[t] \notin SlotHeld /\ pc'[t] \in SlotHeld
        /\ limit_sem' = limit_sem - 1
     \/ /\ pc[t] \in SlotHeld /\ pc'[t] \notin SlotHeld
        /\ limit_sem' = limit_sem + 1
     \/ ~(WriteCounts \subseteq {1})
  /\ pc'[t] \in InWrite => pc[t] \in InWrite \/ t \in Writers
  /\ errors' = errors \/ pc[t] \in {"r_clear", "w_clear"}
  /\ pc'[t] = "r_clear" => errors' = errors /\ errors # "ok"
  /\ pc' = [pc EXCEPT ![t] = pc'[t]]

LEMMA ThreadEffect ==
  ASSUME TypeOK, NEW t \in Threads, Thread(t)
  PROVE  CallEffect(t)
<1> USE DEF CallEffect, TypeOK, CountersOK, CallsOK, SlotHeld, InWrite, Goto,
      Return, ReadReturn, dataVars, lockVars, callVars
<1>1. CASE driver_open_find(t)
  BY <1>1 DEF driver_open_find
<1>2. CASE driver_read(t)
  BY <1>2 DEF driver_read
<1>3. CASE driver_write(t)
  BY <1>3 DEF driver_write
<1>4. CASE driver_write_count(t)
  BY <1>4 DEF driver_write_count
<1>5. CASE driver_close(t)
  BY <1>5 DEF driver_close
<1>6. CASE driver_open_ref(t)
  BY <1>6 DEF driver_open_ref
<1>7. CASE driver_open_lock(t)
  BY <1>7 DEF driver_open_lock
<1>8. CASE driver_open_count(t)
  BY <1>8 DEF driver_open_count
<1>9. CASE driver_put(t)
  BY <1>9 DEF driver_put
<1>10. CASE driver_read_lock(t)
  BY <1>10 DEF driver_read_lock
<1>11. CASE driver_read_retry(t)
  BY <1>11 DEF driver_read_retry
<1>12. CASE driver_read_wait(t)
  BY <1>12 DEF driver_read_wait
<1>13. CASE driver_read_error(t)
  BY <1>13 DEF driver_read_error
<1>14. CASE driver_read_clear(t)
  BY <1>14 DEF driver_read_clear
<1>15. CASE driver_read_data(t)
  BY <1>15 DEF driver_read_data
<1>16. CASE driver_read_copied(t)
  BY <1>16 DEF driver_read_copied
<1>17. CASE rpc_do_read_io(t)
  BY <1>17 DEF rpc_do_read_io
<1>18. CASE rpc_do_read_io_submit(t)
  BY <1>18 DEF rpc_do_read_io_submit
<1>19. CASE rpc_do_read_io_reject(t)
  BY <1>19 DEF rpc_do_read_io_reject
<1>20. CASE rpc_do_read_io_fail(t)
  BY <1>20 DEF rpc_do_read_io_fail
<1>21. CASE driver_write_down(t)
  BY <1>21 DEF driver_write_down
<1>22. CASE driver_write_error(t)
  BY <1>22 DEF driver_write_error
<1>23. CASE driver_write_clear(t)
  BY <1>23 DEF driver_write_clear
<1>24. CASE driver_write_lock(t)
  BY <1>24 DEF driver_write_lock
<1>25. CASE driver_write_ctl(t)
  BY <1>25 DEF driver_write_ctl
<1>26. CASE driver_write_up(t)
  BY <1>26 DEF driver_write_up
<1>27. CASE driver_open_fail(t)
  BY <1>27 DEF driver_open_fail
<1>28. CASE driver_read_signal(t)
  BY <1>28 DEF driver_read_signal
<1>29. CASE driver_write_nodown(t)
  BY <1>29 DEF driver_write_nodown
<1> QED
  BY <1>1, <1>2, <1>3, <1>4, <1>5, <1>6, <1>7, <1>8, <1>9, <1>10, <1>11,
     <1>12, <1>13, <1>14, <1>15, <1>16, <1>17, <1>18, <1>19, <1>20, <1>21,
     <1>22, <1>23, <1>24, <1>25, <1>26, <1>27, <1>28, <1>29 DEF Thread,
     UserCall, CallStep, Upset

\* The handler and the USB core move no thread and clear no error; only
\* rpc_probe, when nobody holds a structure, sets limit_sem.
LEMMA CoreEffect ==
  ASSUME CoreAction
  PROVE  /\ pc' = pc
         /\ \/ limit_sem' = limit_sem /\ (errors # "ok" => errors' # "ok")
            \/ kref = 0 /\ limit_sem' = WritesInFlight
<1> USE DEF refVars, dataVars, urbVars, lockVars, callVars
<1>1. CASE usb_giveback \/ Handler
  BY <1>1 DEF usb_giveback, Handler, rpc_read_int_callback, rpc_read_int_complete
<1>2. CASE CoreStart
  BY <1>2 DEF CoreStart, rpc_probe, usb_unbind, rpc_pre_reset, rpc_suspend
<1>3. CASE CoreStep
  BY <1>3 DEF CoreStep, rpc_probe_register, rpc_probe_fail, rpc_disconnect,
     rpc_disconnect_minor, rpc_disconnect_lock, rpc_disconnect_put,
     rpc_pre_reset_lock, rpc_post_reset, rpc_draw_down, rpc_resume
<1> QED
  BY <1>1, <1>2, <1>3 DEF CoreAction

\* Slots that are free and slots in use make up WRITES_IN_FLIGHT.
SlotsExact == limit_sem + Cardinality(In(SlotHeld)) = WritesInFlight

LEMMA SlotsStep ==
  ASSUME WriteCounts \subseteq {1}, Inductive, SlotsExact, [Next]_vars
  PROVE  SlotsExact'
<1>1. ASSUME NEW t \in Threads, Thread(t) PROVE SlotsExact'
  <2>1. CallEffect(t) /\ TypeOK /\ limit_sem \in Nat
    BY <1>1, ThreadEffect DEF Inductive, TypeOK, CountersOK
  <2>2. pc \in [Threads -> PCs] /\ pc' = [pc EXCEPT ![t] = pc'[t]]
    BY <2>1 DEF TypeOK, CallsOK, CallEffect
  <2>3. /\ (pc[t] \in SlotHeld <=> pc'[t] \in SlotHeld)
             => In(SlotHeld)' = In(SlotHeld)
        /\ pc[t] \notin SlotHeld /\ pc'[t] \in SlotHeld =>
             Cardinality(In(SlotHeld))' = Cardinality(In(SlotHeld)) + 1
        /\ pc[t] \in SlotHeld /\ pc'[t] \notin SlotHeld =>
             Cardinality(In(SlotHeld))' = Cardinality(In(SlotHeld)) - 1
    BY <2>2, CountStep
  <2> QED
    BY <2>1, <2>3, CountFinite, CountsAssumption DEF CallEffect, SlotsExact
<1>2. CASE CoreAction
  <2>1. In(SlotHeld)' = In(SlotHeld)
    BY <1>2, CoreEffect DEF In
  <2>2. CASE limit_sem' = limit_sem
    BY <2>1, <2>2 DEF SlotsExact
  <2>3. CASE kref = 0 /\ limit_sem' = WritesInFlight
    <3>1. \A t \in Threads : pc[t] \notin SlotHeld
      BY <2>3, FreedIsUnused DEF SlotHeld, InWrite
    <3>2. Cardinality(In(SlotHeld)) = 0
      BY <3>1, FS_EmptySet DEF In
    <3> QED
      BY <2>1, <2>3, <3>2, CountsAssumption DEF SlotsExact
  <2> QED
    BY <1>2, <2>2, <2>3, CoreEffect
<1>3. CASE UNCHANGED vars
  BY <1>3 DEF vars, callVars, lockVars, SlotsExact, In
<1> QED
  BY <1>1, <1>2, <1>3 DEF Next, CoreAction

\* "limiting the number of writes in progress": a write of another length than
\* one byte, which ups limit_sem without a down, is the only thing that lets
\* more than WRITES_IN_FLIGHT writers in.
THEOREM OneByteWritesLimited ==
  ASSUME WriteCounts \subseteq {1}
  PROVE  Spec => []WritesLimited
<1>1. Init => SlotsExact
  <2> SUFFICES ASSUME Init PROVE SlotsExact
    OBVIOUS
  <2>1. In(SlotHeld) = {}
    BY DEF Init, In, SlotHeld, InWrite
  <2> QED
    BY <2>1, FS_EmptySet, CountsAssumption DEF Init, SlotsExact
<1>2. Inductive /\ SlotsExact /\ [Next]_vars => SlotsExact'
  BY SlotsStep
<1>3. Inductive /\ SlotsExact => WritesLimited
  BY CountFinite, CountsAssumption
     DEF Inductive, TypeOK, CountersOK, SlotsExact, WritesLimited
<1> QED
  BY <1>1, <1>2, <1>3, InductiveInvariant, PTL DEF Spec

\* Nobody writes, and the error a reader is about to report is still there.
ErrorKept == In(InWrite) = {} /\ ErrorReportedOnce

LEMMA ErrorStep ==
  ASSUME Writers = {}, Inductive, ErrorKept, [Next]_vars
  PROVE  ErrorKept'
<1> USE DEF ErrorKept, ErrorReportedOnce, In
<1>1. ASSUME NEW t \in Threads, Thread(t) PROVE ErrorKept'
  <2>1. CallEffect(t) /\ LocksExact /\ pc \in [Threads -> PCs]
    BY <1>1, ThreadEffect DEF Inductive, TypeOK, CallsOK
  <2>2. \A s \in Threads : s # t => pc'[s] = pc[s]
    BY <2>1 DEF CallEffect
  <2>3. In(InWrite)' = {}
    BY <2>1, <2>2 DEF CallEffect
  <2>4. ASSUME NEW s \in Threads, pc'[s] = "r_clear" PROVE errors' # "ok"
    <3>1. CASE s = t
      BY <2>1, <2>4, <3>1 DEF CallEffect
    <3>2. CASE s # t
      <4>1. pc[s] = "r_clear" /\ pc[t] # "r_clear"
        BY <2>1, <2>2, <2>4, <3>2, OneReader DEF IoHeld, InRead
      <4>2. pc[t] # "w_clear"
        BY DEF InWrite
      <4> QED
        BY <2>1, <4>1, <4>2 DEF CallEffect
    <3> QED
      BY <3>1, <3>2
  <2> QED
    BY <2>3, <2>4
<1>2. CASE CoreAction
  BY <1>2, CoreEffect, FreedIsUnused
<1>3. CASE UNCHANGED vars
  BY <1>3 DEF vars, callVars, dataVars
<1> QED
  BY <1>1, <1>2, <1>3 DEF Next, CoreAction

\* "any error is reported once": among readers, whom io_mutex keeps apart, it
\* is; only a writer, which clears dev->errors under err_lock alone, can take
\* the error a reader has seen.
THEOREM ReadersReportOnce ==
  ASSUME Writers = {}
  PROVE  Spec => []ErrorReportedOnce
<1>1. Init => ErrorKept
  BY DEF Init, ErrorKept, ErrorReportedOnce, In, InWrite
<1>2. Inductive /\ ErrorKept /\ [Next]_vars => ErrorKept'
  BY ErrorStep
<1>3. ErrorKept => ErrorReportedOnce
  BY DEF ErrorKept
<1> QED
  BY <1>1, <1>2, <1>3, InductiveInvariant, PTL DEF Spec
=============================================================================
