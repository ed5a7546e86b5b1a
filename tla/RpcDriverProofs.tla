-------------------------- MODULE RpcDriverProofs --------------------------
(***************************************************************************)
(* Proofs about RpcDriver for every set of threads and every value of the  *)
(* other constants: Inductive and UrbInv are inductive invariants, and the *)
(* properties below follow from them.                                      *)
(***************************************************************************)
EXTENDS RpcDriver, FiniteSetTheorems, TLAPS

USE DEF Free, UsbCore

-----------------------------------------------------------------------------
(***************************************************************************)
(* Counting the threads that are at given program points.                  *)
(***************************************************************************)

\* The number of threads at the points of A is a natural number.
LEMMA CountFinite ==
  ASSUME NEW A
  PROVE  /\ IsFiniteSet(In(A)) /\ Cardinality(In(A)) \in Nat
         /\ IsFiniteSet(In(A)') /\ Cardinality(In(A)') \in Nat
BY ThreadsAssumption, FS_Subset, FS_CardinalityType DEF In

\* One thread moves: the count at the points of A changes by at most one,
\* and exactly when the thread enters or leaves A.
LEMMA CountStep ==
  ASSUME NEW A, NEW t \in Threads, NEW l,
         pc \in [Threads -> PCs], pc' = [pc EXCEPT ![t] = l]
  PROVE  /\ (pc[t] \in A <=> l \in A) => In(A)' = In(A)
         /\ pc[t] \notin A /\ l \in A =>
              Cardinality(In(A))' = Cardinality(In(A)) + 1
         /\ pc[t] \in A /\ l \notin A =>
              Cardinality(In(A))' = Cardinality(In(A)) - 1
<1>1. (pc[t] \in A <=> l \in A) => In(A)' = In(A)
  BY DEF In
<1>2. ASSUME pc[t] \notin A, l \in A
      PROVE  Cardinality(In(A))' = Cardinality(In(A)) + 1
  <2>1. In(A)' = In(A) \cup {t} /\ t \notin In(A)
    BY <1>2 DEF In
  <2> QED
    BY <2>1, CountFinite, FS_AddElement
<1>3. ASSUME pc[t] \in A, l \notin A
      PROVE  Cardinality(In(A))' = Cardinality(In(A)) - 1
  <2>1. In(A)' = In(A) \ {t} /\ t \in In(A)
    BY <1>3 DEF In
  <2> QED
    BY <2>1, CountFinite, FS_RemoveElement
<1> QED
  BY <1>1, <1>2, <1>3

\* A thread is counted where it is.
LEMMA CountPositive ==
  ASSUME NEW A, NEW t \in Threads, pc[t] \in A
  PROVE  Cardinality(In(A)) > 0
<1>1. In(A) # {} /\ IsFiniteSet(In(A)) /\ Cardinality(In(A)) \in Nat
  BY CountFinite DEF In
<1>2. Cardinality(In(A)) # 0
  BY <1>1, FS_EmptySet
<1> QED
  BY <1>1, <1>2

-----------------------------------------------------------------------------
(***************************************************************************)
(* A step of a thread, action by action.                                   *)
(***************************************************************************)

\* What the counters do when thread t goes on to l: each of them follows the
\* thread into and out of the region it counts.
Move(t, l) ==
  /\ pc' = [pc EXCEPT ![t] = l]
  /\ UNCHANGED <<core, interface>>
  /\ \/ (pc[t] \in RefHeld <=> l \in RefHeld) /\ kref' = kref
     \/ /\ pc[t] \notin RefHeld /\ l \in RefHeld /\ kref' = kref + 1
        /\ pc[t] \in InOpen
     \/ pc[t] \in RefHeld /\ l \notin RefHeld /\ kref' = kref - 1
  /\ \/ (pc[t] \in InFile <=> l \in InFile) /\ UNCHANGED <<open_count, pm_usage>>
     \/ /\ pc[t] \notin InFile /\ l \in InFile
        /\ open_count' = open_count + 1
        /\ pm_usage' = IF open_count = 0 THEN pm_usage + 1 ELSE pm_usage
     \/ /\ pc[t] \in InFile /\ l \notin InFile
        /\ open_count' = open_count - 1
        /\ pm_usage' = IF open_count' = 0 /\ interface THEN pm_usage - 1 ELSE pm_usage
  /\ \/ (pc[t] \in SlotHeld <=> l \in SlotHeld) /\ limit_sem' \in {limit_sem, limit_sem + 1}
     \/ pc[t] \notin SlotHeld /\ l \in SlotHeld /\ limit_sem > 0 /\ limit_sem' = limit_sem - 1
     \/ pc[t] \in SlotHeld /\ l \notin SlotHeld /\ limit_sem' = limit_sem + 1

\* What a step of a thread can do to the counters that describe who holds what:
\* it moves the thread from one program point to another, and the reference
\* count, the open count, the usage count and limit_sem follow that move.
LEMMA ThreadMoves ==
  ASSUME TypeOK, NEW t \in Threads, Thread(t)
  PROVE  \E l \in PCs : Move(t, l)
<1>. USE DEF Move, TypeOK, CountersOK, FieldsOK, CallsOK, PCs, RefHeld,
   SlotHeld, InOpen, InRead, InFile, InWrite, Goto, Return, ReadReturn
<1>1. CASE driver_open_find(t)
  BY <1>1 DEF driver_open_find, refVars, lockVars, callVars
<1>2. CASE driver_read(t)
  BY <1>2 DEF driver_read, refVars, lockVars, callVars
<1>3. CASE driver_write(t)
  BY <1>3 DEF driver_write, refVars, lockVars, callVars
<1>4. CASE driver_write_count(t)
  BY <1>4 DEF driver_write_count, refVars, lockVars, callVars
<1>5. CASE driver_close(t)
  BY <1>5 DEF driver_close, refVars, lockVars, callVars
<1>6. CASE driver_open_ref(t)
  BY <1>6 DEF driver_open_ref, refVars, lockVars, callVars
<1>7. CASE driver_open_lock(t)
  BY <1>7 DEF driver_open_lock, refVars, lockVars, callVars
<1>8. CASE driver_open_count(t)
  BY <1>8 DEF driver_open_count, refVars, lockVars, callVars
<1>9. CASE driver_put(t)
  BY <1>9 DEF driver_put, refVars, lockVars, callVars
<1>10. CASE driver_read_lock(t)
  BY <1>10 DEF driver_read_lock, refVars, lockVars, callVars
<1>11. CASE driver_read_retry(t)
  BY <1>11 DEF driver_read_retry, refVars, lockVars, callVars
<1>12. CASE driver_read_wait(t)
  BY <1>12 DEF driver_read_wait, refVars, lockVars, callVars
<1>13. CASE driver_read_error(t)
  <2>1. PICK l \in {"r_data", "r_clear"} : pc' = [pc EXCEPT ![t] = l]
    BY <1>13 DEF driver_read_error
  <2> QED
    BY <1>13, <2>1 DEF driver_read_error, refVars, lockVars, callVars
<1>14. CASE driver_read_clear(t)
  BY <1>14 DEF driver_read_clear, refVars, lockVars, callVars
<1>15. CASE driver_read_data(t)
  <2>1. PICK l \in {"r_copied", "r_fill"} : pc' = [pc EXCEPT ![t] = l]
    BY <1>15 DEF driver_read_data
  <2> QED
    BY <1>15, <2>1 DEF driver_read_data, refVars, lockVars, callVars
<1>16. CASE driver_read_copied(t)
  BY <1>16 DEF driver_read_copied, refVars, lockVars, callVars
<1>17. CASE rpc_do_read_io(t)
  BY <1>17 DEF rpc_do_read_io, refVars, lockVars, callVars
<1>18. CASE rpc_do_read_io_submit(t)
  BY <1>18 DEF rpc_do_read_io_submit, refVars, lockVars, callVars
<1>19. CASE rpc_do_read_io_reject(t)
  BY <1>19 DEF rpc_do_read_io_reject, refVars, lockVars, callVars
<1>20. CASE rpc_do_read_io_fail(t)
  BY <1>20 DEF rpc_do_read_io_fail, refVars, lockVars, callVars
<1>21. CASE driver_write_down(t)
  BY <1>21 DEF driver_write_down, refVars, lockVars, callVars
<1>22. CASE driver_write_error(t)
  BY <1>22 DEF driver_write_error, refVars, lockVars, callVars
<1>23. CASE driver_write_clear(t)
  BY <1>23 DEF driver_write_clear, refVars, lockVars, callVars
<1>24. CASE driver_write_lock(t)
  BY <1>24 DEF driver_write_lock, refVars, lockVars, callVars
<1>25. CASE driver_write_ctl(t)
  BY <1>25 DEF driver_write_ctl, refVars, lockVars, callVars
<1>26. CASE driver_write_up(t)
  BY <1>26 DEF driver_write_up, refVars, lockVars, callVars
<1>27. CASE driver_open_fail(t)
  BY <1>27 DEF driver_open_fail, refVars, lockVars, callVars
<1>28. CASE driver_read_signal(t)
  BY <1>28 DEF driver_read_signal, refVars, lockVars, callVars
<1>29. CASE driver_write_nodown(t)
  BY <1>29 DEF driver_write_nodown, refVars, lockVars, callVars
<1> QED
  BY <1>1, <1>2, <1>3, <1>4, <1>5, <1>6, <1>7, <1>8, <1>9, <1>10, <1>11,
     <1>12, <1>13, <1>14, <1>15, <1>16, <1>17, <1>18, <1>19, <1>20, <1>21,
     <1>22, <1>23, <1>24, <1>25, <1>26, <1>27, <1>28, <1>29 DEF Thread,
     UserCall, CallStep, Upset

\* A step of a thread takes io_mutex or err_lock only when it is free, gives
\* back only what it holds, and is inside the region exactly while it holds it.
LEMMA ThreadLocks ==
  ASSUME TypeOK, LocksExact, MinorExact, InterfaceExact, NEW t \in Threads, Thread(t)
  PROVE  LocksExact' /\ MinorExact' /\ InterfaceExact'
<1>. USE ThreadsAssumption DEF TypeOK, CountersOK, FieldsOK, CallsOK,
   LocksExact, MinorExact, InterfaceExact, PCs, IoHeld, InOpen, InRead,
   InFile, InWrite, Goto, Return, ReadReturn
<1>1. CASE driver_open_find(t)
  BY <1>1 DEF driver_open_find, refVars, lockVars, callVars
<1>2. CASE driver_read(t)
  BY <1>2 DEF driver_read, refVars, lockVars, callVars
<1>3. CASE driver_write(t)
  BY <1>3 DEF driver_write, refVars, lockVars, callVars
<1>4. CASE driver_write_count(t)
  BY <1>4 DEF driver_write_count, refVars, lockVars, callVars
<1>5. CASE driver_close(t)
  BY <1>5 DEF driver_close, refVars, lockVars, callVars
<1>6. CASE driver_open_ref(t)
  BY <1>6 DEF driver_open_ref, refVars, lockVars, callVars
<1>7. CASE driver_open_lock(t)
  BY <1>7 DEF driver_open_lock, refVars, lockVars, callVars
<1>8. CASE driver_open_count(t)
  BY <1>8 DEF driver_open_count, refVars, lockVars, callVars
<1>9. CASE driver_put(t)
  BY <1>9 DEF driver_put, refVars, lockVars, callVars
<1>10. CASE driver_read_lock(t)
  BY <1>10 DEF driver_read_lock, refVars, lockVars, callVars
<1>11. CASE driver_read_retry(t)
  BY <1>11 DEF driver_read_retry, refVars, lockVars, callVars
<1>12. CASE driver_read_wait(t)
  BY <1>12 DEF driver_read_wait, refVars, lockVars, callVars
<1>13. CASE driver_read_error(t)
  BY <1>13 DEF driver_read_error, refVars, lockVars, callVars
<1>14. CASE driver_read_clear(t)
  BY <1>14 DEF driver_read_clear, refVars, lockVars, callVars
<1>15. CASE driver_read_data(t)
  BY <1>15 DEF driver_read_data, refVars, lockVars, callVars
<1>16. CASE driver_read_copied(t)
  BY <1>16 DEF driver_read_copied, refVars, lockVars, callVars
<1>17. CASE rpc_do_read_io(t)
  BY <1>17 DEF rpc_do_read_io, refVars, lockVars, callVars
<1>18. CASE rpc_do_read_io_submit(t)
  BY <1>18 DEF rpc_do_read_io_submit, refVars, lockVars, callVars
<1>19. CASE rpc_do_read_io_reject(t)
  BY <1>19 DEF rpc_do_read_io_reject, refVars, lockVars, callVars
<1>20. CASE rpc_do_read_io_fail(t)
  BY <1>20 DEF rpc_do_read_io_fail, refVars, lockVars, callVars
<1>21. CASE driver_write_down(t)
  BY <1>21 DEF driver_write_down, refVars, lockVars, callVars
<1>22. CASE driver_write_error(t)
  BY <1>22 DEF driver_write_error, refVars, lockVars, callVars
<1>23. CASE driver_write_clear(t)
  BY <1>23 DEF driver_write_clear, refVars, lockVars, callVars
<1>24. CASE driver_write_lock(t)
  BY <1>24 DEF driver_write_lock, refVars, lockVars, callVars
<1>25. CASE driver_write_ctl(t)
  BY <1>25 DEF driver_write_ctl, refVars, lockVars, callVars
<1>26. CASE driver_write_up(t)
  BY <1>26 DEF driver_write_up, refVars, lockVars, callVars
<1>27. CASE driver_open_fail(t)
  BY <1>27 DEF driver_open_fail, refVars, lockVars, callVars
<1>28. CASE driver_read_signal(t)
  BY <1>28 DEF driver_read_signal, refVars, lockVars, callVars
<1>29. CASE driver_write_nodown(t)
  BY <1>29 DEF driver_write_nodown, refVars, lockVars, callVars
<1> QED
  BY <1>1, <1>2, <1>3, <1>4, <1>5, <1>6, <1>7, <1>8, <1>9, <1>10, <1>11,
     <1>12, <1>13, <1>14, <1>15, <1>16, <1>17, <1>18, <1>19, <1>20, <1>21,
     <1>22, <1>23, <1>24, <1>25, <1>26, <1>27, <1>28, <1>29 DEF Thread,
     UserCall, CallStep, Upset

\* A step of a thread keeps every field of the structure within its type.
LEMMA ThreadTypes ==
  ASSUME TypeOK, NEW t \in Threads, Thread(t)
  PROVE  /\ FieldsOK' /\ int_in_completion' \in Nat
         /\ nonblock' \in [Threads -> BOOLEAN] /\ rv' \in [Threads -> Errnos]
<1>. USE DEF TypeOK, CountersOK, FieldsOK, CallsOK, Errnos, Goto, Return,
         ReadReturn, refVars, dataVars, urbVars, lockVars, callVars
<1>1. CASE driver_open_find(t)
  BY <1>1 DEF driver_open_find
<1>2. CASE driver_read(t)
  BY <1>2 DEF driver_read
<1>3. CASE driver_write(t)
  BY <1>3 DEF driver_write
<1>4. CASE driver_write_count(t)
  BY <1>4 DEF driver_write_count
<1>5. CASE driver_close(t)
  BY <1>5 DEF driver_close
<1>6. CASE driver_open_ref(t)
  BY <1>6 DEF driver_open_ref
<1>7. CASE driver_open_lock(t)
  BY <1>7 DEF driver_open_lock
<1>8. CASE driver_open_count(t)
  BY <1>8 DEF driver_open_count
<1>9. CASE driver_put(t)
  BY <1>9 DEF driver_put
<1>10. CASE driver_read_lock(t)
  <2>1. FieldsOK' /\ int_in_completion' \in Nat
    BY <1>10 DEF driver_read_lock
  <2>2. nonblock' \in [Threads -> BOOLEAN] /\ rv' \in [Threads -> Errnos]
    BY <1>10 DEF driver_read_lock
  <2> QED
    BY <2>1, <2>2, Zenon
<1>11. CASE driver_read_retry(t)
  <2>1. FieldsOK' /\ int_in_completion' \in Nat
    BY <1>11 DEF driver_read_retry
  <2>2. nonblock' \in [Threads -> BOOLEAN] /\ rv' \in [Threads -> Errnos]
    BY <1>11 DEF driver_read_retry
  <2> QED
    BY <2>1, <2>2, Zenon
<1>12. CASE driver_read_wait(t)
  BY <1>12 DEF driver_read_wait
<1>13. CASE driver_read_error(t)
  BY <1>13 DEF driver_read_error
<1>14. CASE driver_read_clear(t)
  BY <1>14 DEF driver_read_clear
<1>15. CASE driver_read_data(t)
  BY <1>15 DEF driver_read_data
<1>16. CASE driver_read_copied(t)
  BY <1>16 DEF driver_read_copied
<1>17. CASE rpc_do_read_io(t)
  BY <1>17 DEF rpc_do_read_io
<1>18. CASE rpc_do_read_io_submit(t)
  <2>1. FieldsOK' /\ int_in_completion' \in Nat
    BY <1>18 DEF rpc_do_read_io_submit
  <2>2. nonblock' \in [Threads -> BOOLEAN] /\ rv' \in [Threads -> Errnos]
    BY <1>18 DEF rpc_do_read_io_submit
  <2> QED
    BY <2>1, <2>2, Zenon
<1>19. CASE rpc_do_read_io_reject(t)
  <2>1. FieldsOK' /\ int_in_completion' \in Nat
    BY <1>19 DEF rpc_do_read_io_reject
  <2>2. nonblock' \in [Threads -> BOOLEAN] /\ rv' \in [Threads -> Errnos]
    BY <1>19 DEF rpc_do_read_io_reject
  <2> QED
    BY <2>1, <2>2, Zenon
<1>20. CASE rpc_do_read_io_fail(t)
  BY <1>20 DEF rpc_do_read_io_fail
<1>21. CASE driver_write_down(t)
  BY <1>21 DEF driver_write_down
<1>22. CASE driver_write_error(t)
  BY <1>22 DEF driver_write_error
<1>23. CASE driver_write_clear(t)
  BY <1>23 DEF driver_write_clear
<1>24. CASE driver_write_lock(t)
  BY <1>24 DEF driver_write_lock
<1>25. CASE driver_write_ctl(t)
  BY <1>25 DEF driver_write_ctl
<1>26. CASE driver_write_up(t)
  BY <1>26 DEF driver_write_up
<1>27. CASE driver_open_fail(t)
  BY <1>27 DEF driver_open_fail
<1>28. CASE driver_read_signal(t)
  BY <1>28 DEF driver_read_signal
<1>29. CASE driver_write_nodown(t)
  BY <1>29 DEF driver_write_nodown
<1> QED
  BY <1>1, <1>2, <1>3, <1>4, <1>5, <1>6, <1>7, <1>8, <1>9, <1>10, <1>11,
     <1>12, <1>13, <1>14, <1>15, <1>16, <1>17, <1>18, <1>19, <1>20, <1>21,
     <1>22, <1>23, <1>24, <1>25, <1>26, <1>27, <1>28, <1>29 DEF Thread,
     UserCall, CallStep, Upset

\* Every step of open, read, write and close preserves the invariant.
LEMMA ThreadInductive ==
  ASSUME Inductive, NEW t \in Threads, Thread(t)
  PROVE  Inductive'
<1>1. PICK l \in PCs : Move(t, l)
  BY ThreadMoves DEF Inductive
<1>2. pc \in [Threads -> PCs] /\ pc' = [pc EXCEPT ![t] = l]
  BY <1>1 DEF Move, Inductive, TypeOK, CallsOK
<1>3. RefCountExact'
  <2>1. CASE pc[t] \in RefHeld <=> l \in RefHeld
    <3>1. In(RefHeld)' = In(RefHeld)
      BY <1>2, <2>1, CountStep
    <3> QED
      BY <1>1, <2>1, <3>1, CountFinite DEF Move, Inductive, RefCountExact,
         Holders
  <2>2. CASE pc[t] \notin RefHeld /\ l \in RefHeld
    <3>1. Cardinality(In(RefHeld)') = Cardinality(In(RefHeld)) + 1
      BY <1>2, <2>2, CountStep
    <3> QED
      BY <1>1, <2>2, <3>1, CountFinite DEF Move, Inductive, RefCountExact,
         Holders
  <2>3. CASE pc[t] \in RefHeld /\ l \notin RefHeld
    <3>1. Cardinality(In(RefHeld)') = Cardinality(In(RefHeld)) - 1
      BY <1>2, <2>3, CountStep
    <3> QED
      BY <1>1, <2>3, <3>1, CountFinite DEF Move, Inductive, RefCountExact,
         Holders
  <2> QED
    BY <2>1, <2>2, <2>3
<1>4. OpenCountExact' /\ PmBalanced' /\ pm_usage' \in Nat
  <2>1. CASE pc[t] \in InFile <=> l \in InFile
    <3>1. In(InFile)' = In(InFile)
      BY <1>2, <2>1, CountStep
    <3> QED
      BY <1>1, <2>1, <3>1, CountFinite DEF Move, Inductive, OpenCountExact,
         PmBalanced, TypeOK, CountersOK
  <2>2. CASE pc[t] \notin InFile /\ l \in InFile
    <3>1. Cardinality(In(InFile)') = Cardinality(In(InFile)) + 1
      BY <1>2, <2>2, CountStep
    <3> QED
      BY <1>1, <2>2, <3>1, CountFinite DEF Move, Inductive, OpenCountExact,
         PmBalanced, TypeOK, CountersOK
  <2>3. CASE pc[t] \in InFile /\ l \notin InFile
    <3>1. Cardinality(In(InFile)') = Cardinality(In(InFile)) - 1 /\ Cardinality(In(InFile)) > 0
      BY <1>2, <2>3, CountStep, CountPositive
    <3> QED
      BY <1>1, <2>3, <3>1, CountFinite DEF Move, Inductive, OpenCountExact,
         PmBalanced, TypeOK, CountersOK
  <2> QED
    BY <2>1, <2>2, <2>3
<1>5. SlotsNotLost' /\ limit_sem' \in Nat
  <2>1. CASE pc[t] \in SlotHeld <=> l \in SlotHeld
    <3>1. In(SlotHeld)' = In(SlotHeld)
      BY <1>2, <2>1, CountStep
    <3> QED
      BY <1>1, <2>1, <3>1, CountFinite, CountsAssumption DEF Move,
         Inductive, SlotsNotLost, TypeOK, CountersOK
  <2>2. CASE pc[t] \notin SlotHeld /\ l \in SlotHeld
    <3>1. Cardinality(In(SlotHeld)') = Cardinality(In(SlotHeld)) + 1
      BY <1>2, <2>2, CountStep
    <3> QED
      BY <1>1, <2>2, <3>1, CountFinite, CountsAssumption DEF Move,
         Inductive, SlotsNotLost, TypeOK, CountersOK
  <2>3. CASE pc[t] \in SlotHeld /\ l \notin SlotHeld
    <3>1. Cardinality(In(SlotHeld)') = Cardinality(In(SlotHeld)) - 1
      BY <1>2, <2>3, CountStep
    <3> QED
      BY <1>1, <2>3, <3>1, CountFinite, CountsAssumption DEF Move,
         Inductive, SlotsNotLost, TypeOK, CountersOK
  <2> QED
    BY <2>1, <2>2, <2>3
<1>6. kref' \in Nat /\ open_count' \in Nat
  <2>1. Cardinality(In(RefHeld))' \in Nat /\ Cardinality(In(InFile))' \in Nat
    BY CountFinite
  <2> QED
    BY <1>3, <1>4, <2>1 DEF RefCountExact, OpenCountExact, Holders
<1>7. pc' \in [Threads -> PCs]
  BY <1>2
<1>8. TypeOK'
  BY <1>4, <1>5, <1>6, <1>7, ThreadTypes DEF Inductive, TypeOK, CountersOK,
     CallsOK
<1>9. LocksExact' /\ MinorExact' /\ InterfaceExact'
  BY ThreadLocks DEF Inductive
<1> QED
  BY <1>3, <1>4, <1>5, <1>8, <1>9 DEF Inductive

-----------------------------------------------------------------------------
(***************************************************************************)
(* A step of the host controller, the handler or the USB core.  No thread  *)
(* moves, so no count of threads changes.                                  *)
(***************************************************************************)
CoreAction == usb_giveback \/ Handler \/ CoreStart \/ CoreStep

\* rpc_probe runs only when no thread holds the structure or looks for it.
LEMMA FreedIsUnused ==
  ASSUME Inductive, kref = 0
  PROVE  core = "gone" /\ \A t \in Threads : pc[t] = "closed"
<1>1. core = "gone" /\ Cardinality(In(RefHeld)) = 0
  BY CountFinite DEF Inductive, RefCountExact, Holders
<1>2. \A t \in Threads : pc[t] \notin RefHeld
  BY <1>1, CountPositive
<1>3. \A t \in Threads : pc[t] # "o_get"
  BY <1>1 DEF Inductive, MinorExact, InOpen
<1> QED
  BY <1>1, <1>2, <1>3 DEF Inductive, TypeOK, CallsOK, RefHeld

\* The handler and the USB core keep the fields in their types.
LEMMA CoreFields == FieldsOK /\ CoreAction => FieldsOK'
<1> SUFFICES ASSUME FieldsOK, CoreAction PROVE FieldsOK'
  OBVIOUS
<1> USE DEF FieldsOK, refVars, dataVars, urbVars, lockVars
<1>1. CASE usb_giveback
  BY <1>1 DEF usb_giveback
<1>2. CASE rpc_read_int_complete
  BY <1>2 DEF rpc_read_int_complete
<1>3. CASE rpc_probe
  BY <1>3 DEF rpc_probe, Cores, Detaching, Resetting, Errnos
<1>4. CASE usb_unbind
  BY <1>4 DEF usb_unbind, Cores, Detaching, Resetting
<1>5. CASE rpc_pre_reset
  BY <1>5 DEF rpc_pre_reset, Cores, Detaching, Resetting
<1>6. CASE rpc_suspend
  BY <1>6 DEF rpc_suspend, Cores, Detaching, Resetting
<1>7. CASE rpc_probe_register
  BY <1>7 DEF rpc_probe_register, Cores, Detaching, Resetting
<1>8. CASE rpc_probe_fail
  BY <1>8 DEF rpc_probe_fail, Cores, Detaching, Resetting
<1>9. CASE rpc_disconnect
  BY <1>9 DEF rpc_disconnect, Cores, Detaching, Resetting
<1>10. CASE rpc_disconnect_minor
  BY <1>10 DEF rpc_disconnect_minor, Cores, Detaching, Resetting
<1>11. CASE rpc_disconnect_lock
  BY <1>11 DEF rpc_disconnect_lock, Cores, Detaching, Resetting
<1>12. CASE rpc_disconnect_put
  BY <1>12 DEF rpc_disconnect_put, Cores, Detaching, Resetting
<1>13. CASE rpc_pre_reset_lock
  BY <1>13 DEF rpc_pre_reset_lock, Cores, Detaching, Resetting
<1>14. CASE rpc_post_reset
  BY <1>14 DEF rpc_post_reset, Cores, Detaching, Resetting,
     Errnos
<1>15. CASE rpc_draw_down
  BY <1>15 DEF rpc_draw_down, Cores, Detaching, Resetting
<1>16. CASE rpc_resume
  BY <1>16 DEF rpc_resume, Cores, Detaching, Resetting
<1>17. ASSUME NEW outcome \in Errnos, rpc_read_int_callback(outcome)
      PROVE  FieldsOK'
  BY <1>17 DEF rpc_read_int_callback
<1> QED
  BY <1>1, <1>2, <1>3, <1>4, <1>5, <1>6, <1>7, <1>8, <1>9, <1>10,
     <1>11, <1>12, <1>13, <1>14, <1>15, <1>16, <1>17 DEF CoreAction,
     Handler, CoreStart, CoreStep

\* A step of the handler touches nothing that the invariant relates.
LEMMA HandlerInductive ==
  ASSUME Inductive, FieldsOK', int_in_completion' \in Nat,
         UNCHANGED <<refVars, lockVars, callVars, core>>
  PROVE  Inductive'
<1>1. \A A : In(A)' = In(A)
  BY DEF callVars, In
<1>2. TypeOK'
  BY DEF Inductive, TypeOK, CountersOK, CallsOK, refVars, lockVars, callVars
<1>3. LocksExact' /\ MinorExact' /\ InterfaceExact'
  BY DEF Inductive, LocksExact, MinorExact, InterfaceExact, refVars, lockVars,
     callVars
<1>4. RefCountExact' /\ OpenCountExact' /\ PmBalanced' /\ SlotsNotLost'
  BY <1>1 DEF Inductive, RefCountExact, OpenCountExact, PmBalanced,
     SlotsNotLost, Holders, refVars, lockVars
<1> QED
  BY <1>2, <1>3, <1>4 DEF Inductive

\* Every step of the completion handler and of the USB core (probe, disconnect,
\* reset, suspend, resume) preserves the invariant.
LEMMA CoreInductive ==
  ASSUME Inductive, CoreAction
  PROVE  Inductive'
<1>1. UNCHANGED callVars
  BY DEF CoreAction, Handler, CoreStart, CoreStep, usb_giveback,
     rpc_read_int_callback, rpc_read_int_complete, rpc_probe, usb_unbind,
     rpc_pre_reset, rpc_suspend, rpc_probe_register, rpc_probe_fail,
     rpc_disconnect, rpc_disconnect_minor, rpc_disconnect_lock,
     rpc_disconnect_put, rpc_pre_reset_lock, rpc_post_reset, rpc_draw_down,
     rpc_resume
<1>2. \A A : In(A)' = In(A)
  BY <1>1 DEF callVars, In
<1>3. CASE usb_giveback
  BY <1>3, HandlerInductive, CoreFields DEF CoreAction, Handler, CoreStart,
     CoreStep, usb_giveback, Inductive, TypeOK, CountersOK, dataVars
<1>4. ASSUME NEW outcome \in Errnos, rpc_read_int_callback(outcome)
      PROVE  Inductive'
  BY <1>4, HandlerInductive, CoreFields DEF CoreAction, Handler,
     rpc_read_int_callback, Inductive, TypeOK, CountersOK
<1>5. CASE rpc_read_int_complete
  BY <1>5, HandlerInductive, CoreFields DEF CoreAction, Handler,
     rpc_read_int_complete, Inductive, TypeOK, CountersOK
<1> FieldsOK'
  BY CoreFields DEF Inductive, TypeOK
<1>. USE ThreadsAssumption, CountsAssumption, <1>1, <1>2
     DEF Inductive, TypeOK, CountersOK, FieldsOK, CallsOK, LocksExact,
        MinorExact, InterfaceExact, RefCountExact,
         OpenCountExact, PmBalanced, SlotsNotLost, Holders, Errnos, refVars, dataVars, urbVars, lockVars, callVars,
         Cores, Detaching, Resetting
<1>6. CASE rpc_probe
  <2>1. /\ Cardinality(In(RefHeld)) = 0 /\ Cardinality(In(InFile)) = 0
        /\ Cardinality(In(SlotHeld)) = 0
    BY <1>6, FreedIsUnused, FS_EmptySet DEF rpc_probe, In, RefHeld, InFile,
       InRead, InWrite, SlotHeld
  <2>2. \A t \in Threads : pc[t] = "closed"
    BY <1>6, FreedIsUnused DEF rpc_probe
  <2>3. TypeOK'
    BY <1>6 DEF rpc_probe
  <2>4. LocksExact' /\ MinorExact' /\ InterfaceExact'
    BY <1>6, <2>2 DEF rpc_probe, IoHeld, InOpen, InRead
  <2>5. RefCountExact' /\ OpenCountExact' /\ PmBalanced' /\ SlotsNotLost'
    BY <1>6, <2>1 DEF rpc_probe
  <2> QED
    BY <2>3, <2>4, <2>5
<1>7. CASE usb_unbind
  BY <1>7 DEF usb_unbind
<1>8. CASE rpc_pre_reset
  BY <1>8 DEF rpc_pre_reset
<1>9. CASE rpc_suspend
  BY <1>9 DEF rpc_suspend
<1>10. CASE rpc_probe_register
  BY <1>10 DEF rpc_probe_register
<1>11. CASE rpc_probe_fail
  <2>1. kref' \in Nat
    BY <1>11, CountFinite DEF rpc_probe_fail
  <2>2. RefCountExact'
    BY <1>11, CountFinite DEF rpc_probe_fail
  <2>3. TypeOK' /\ LocksExact' /\ MinorExact' /\ InterfaceExact'
    BY <1>11, <2>1 DEF rpc_probe_fail
  <2>4. OpenCountExact' /\ PmBalanced' /\ SlotsNotLost'
    BY <1>11 DEF rpc_probe_fail
  <2> QED
    BY <2>2, <2>3, <2>4
<1>12. CASE rpc_disconnect
  BY <1>12 DEF rpc_disconnect
<1>13. CASE rpc_disconnect_minor
  <2>1. TypeOK'
    BY <1>13 DEF rpc_disconnect_minor
  <2>2. LocksExact' /\ MinorExact' /\ InterfaceExact'
    BY <1>13 DEF rpc_disconnect_minor
  <2>3. RefCountExact' /\ OpenCountExact' /\ PmBalanced' /\ SlotsNotLost'
    BY <1>13 DEF rpc_disconnect_minor
  <2> QED
    BY <2>1, <2>2, <2>3
<1>14. CASE rpc_disconnect_lock
  BY <1>14 DEF rpc_disconnect_lock
<1>15. CASE rpc_disconnect_put
  <2>1. kref' \in Nat
    BY <1>15, CountFinite DEF rpc_disconnect_put
  <2>2. RefCountExact'
    BY <1>15, CountFinite DEF rpc_disconnect_put
  <2>3. TypeOK' /\ LocksExact' /\ MinorExact' /\ InterfaceExact'
    BY <1>15, <2>1 DEF rpc_disconnect_put
  <2>4. OpenCountExact' /\ PmBalanced' /\ SlotsNotLost'
    BY <1>15 DEF rpc_disconnect_put
  <2> QED
    BY <2>2, <2>3, <2>4
<1>16. CASE rpc_pre_reset_lock
  BY <1>16 DEF rpc_pre_reset_lock
<1>17. CASE rpc_post_reset
  BY <1>17 DEF rpc_post_reset
<1>18. CASE rpc_draw_down
  BY <1>18 DEF rpc_draw_down
<1>19. CASE rpc_resume
  BY <1>19 DEF rpc_resume
<1> QED
  BY <1>3, <1>4, <1>5, <1>6, <1>7, <1>8, <1>9, <1>10, <1>11, <1>12, <1>13,
     <1>14, <1>15, <1>16, <1>17, <1>18, <1>19 DEF CoreAction, Handler,
     CoreStart, CoreStep

-----------------------------------------------------------------------------
(***************************************************************************)
(* The theorems.                                                           *)
(***************************************************************************)
\* The invariant holds before the first probe.
LEMMA InitInductive == Init => Inductive
<1> SUFFICES ASSUME Init PROVE Inductive
  OBVIOUS
<1>1. /\ Cardinality(In(RefHeld)) = 0 /\ Cardinality(In(InFile)) = 0
      /\ Cardinality(In(SlotHeld)) = 0
  BY FS_EmptySet DEF Init, In, RefHeld, InFile, InRead, InWrite, SlotHeld
<1>2. TypeOK
  BY CountsAssumption DEF Init, TypeOK, CountersOK, FieldsOK, CallsOK, PCs,
     Errnos, Cores
<1>3. LocksExact /\ MinorExact /\ InterfaceExact
  BY ThreadsAssumption DEF Init, LocksExact, MinorExact, InterfaceExact,
     IoHeld, InOpen, InRead
<1>4. RefCountExact /\ OpenCountExact /\ PmBalanced /\ SlotsNotLost
  BY <1>1, CountsAssumption DEF Init, RefCountExact, Holders,
     OpenCountExact, PmBalanced, SlotsNotLost
<1> QED
  BY <1>2, <1>3, <1>4 DEF Inductive

\* The invariant is inductive.
LEMMA NextInductive == Inductive /\ [Next]_vars => Inductive'
<1> SUFFICES ASSUME Inductive, [Next]_vars PROVE Inductive'
  OBVIOUS
<1>1. CASE \E t \in Threads : Thread(t)
  BY <1>1, ThreadInductive
<1>2. CASE CoreAction
  BY <1>2, CoreInductive
<1>3. CASE UNCHANGED vars
  <2>1. \A A : In(A)' = In(A)
    BY <1>3 DEF vars, callVars, In
  <2> QED
    BY <1>3, <2>1 DEF vars, refVars, dataVars, urbVars, lockVars, callVars,
       Inductive, TypeOK,
       CountersOK, FieldsOK, CallsOK, LocksExact, MinorExact, InterfaceExact,
       RefCountExact, Holders, OpenCountExact, PmBalanced, SlotsNotLost
<1> QED
  BY <1>1, <1>2, <1>3 DEF Next, CoreAction

\* Every behaviour of the driver keeps the inductive invariant.
THEOREM InductiveInvariant == Spec => []Inductive
<1> QED
  BY InitInductive, NextInductive, PTL DEF Spec

\* Every field keeps its type; in particular no counter drops below zero,
\* although each is decremented without a test.
THEOREM TypeCorrect == Spec => []TypeOK
<1>1. Inductive => TypeOK
  BY DEF Inductive
<1> QED
  BY <1>1, InductiveInvariant, PTL

\* The reference count is the number of open files plus one for the binding.
THEOREM RefCountCorrect == Spec => []RefCountExact
<1>1. Inductive => RefCountExact
  BY DEF Inductive
<1> QED
  BY <1>1, InductiveInvariant, PTL

\* No call of driver_open, driver_read, driver_write or driver_close works on
\* a structure that rpc_delete has freed.
THEOREM CallsLive == Spec => []CallsOnLiveDevice
<1>1. Inductive => CallsOnLiveDevice
  BY FreedIsUnused DEF Inductive, TypeOK, CountersOK, CallsOnLiveDevice
<1> QED
  BY <1>1, InductiveInvariant, PTL

\* io_mutex keeps every transfer from starting once the device is gone.
THEOREM NoIoOnGoneDevice == Spec => []NoIoAfterDisconnect
<1>1. Inductive => NoIoAfterDisconnect
  BY DEF Inductive, InterfaceExact, NoIoAfterDisconnect, IoHeld, InRead
<1> QED
  BY <1>1, InductiveInvariant, PTL

\* Opening and closing keep runtime power management balanced.
THEOREM PowerBalanced == Spec => []PmBalanced
<1>1. Inductive => PmBalanced
  BY DEF Inductive
<1> QED
  BY <1>1, InductiveInvariant, PTL

\* No path of driver_write loses a slot of limit_sem.
THEOREM SlotsKept == Spec => []SlotsNotLost
<1>1. Inductive => SlotsNotLost
  BY DEF Inductive
<1> QED
  BY <1>1, InductiveInvariant, PTL

-----------------------------------------------------------------------------
(***************************************************************************)
(* The urb.                                                                *)
(***************************************************************************)

\* The urb is quiet where the USB core has waited for it, and no call that
\* could start a transfer is under way while the device sleeps.
CoreQuiet ==
  /\ core \in {"resetting", "suspended", "asleep"} => UrbQuiet
  /\ core \in {"s_kill", "suspended"} => pm_usage = 0
  /\ core \in {"z_kill", "asleep"} => \A t \in Threads : pc[t] \in {"closed", "open"}

\* ongoing_read stands for a transfer that somebody will end.
ReadTracked ==
  ongoing_read => \/ inflight \/ handler = "run"
                  \/ \E t \in Threads : pc[t] \in {"r_submit", "r_fail"}

\* int_in_filled stands for a report that is new or is just being returned.
ReportTracked ==
  int_in_filled => unread \/ \E t \in Threads : pc[t] = "r_copied"

UrbInv == CoreQuiet /\ ReadTracked /\ WaiterNotStranded /\ ReportTracked

\* What a step of a thread makes of the transfer and of the report.
UrbMove(t) ==
  /\ handler' = handler
  /\ \/ inflight' = inflight
     \/ inflight' = TRUE /\ core \in {"bound", "r_lock"}
  /\ int_in_completion' = int_in_completion \/ pc[t] = "r_wait"
  /\ pc'[t] = "r_wait" => ongoing_read /\ pc[t] = "r_retry"
  /\ ongoing_read' => \/ pc[t] = "r_submit" /\ inflight' = TRUE
                      \/ pc'[t] \in {"r_submit", "r_fail"}
                      \/ ongoing_read /\ pc[t] \notin {"r_submit", "r_fail"}
  /\ int_in_filled' => \/ pc'[t] = "r_copied"
                       \/ pc[t] # "r_copied" /\ int_in_filled /\ unread' = unread
  /\ core \in {"s_kill", "suspended"} =>
       pm_usage' = pm_usage \/ (open_count > 0 /\ interface)

LEMMA ThreadUrb ==
  ASSUME TypeOK, NEW t \in Threads, Thread(t)
  PROVE  UrbMove(t)
<1> USE DEF UrbMove, TypeOK, CountersOK, CallsOK, FieldsOK, Goto, Return,
      ReadReturn, CanSubmit, refVars, dataVars, urbVars, callVars
<1>1. CASE driver_open_find(t)
  BY <1>1 DEF driver_open_find
<1>2. CASE driver_read(t)
  BY <1>2 DEF driver_read
<1>3. CASE driver_write(t)
  BY <1>3 DEF driver_write
<1>4. CASE driver_write_count(t)
  BY <1>4 DEF driver_write_count
<1>5. CASE driver_close(t)
  BY <1>5 DEF driver_close
<1>6. CASE driver_open_ref(t)
  BY <1>6 DEF driver_open_ref
<1>7. CASE driver_open_lock(t)
  BY <1>7 DEF driver_open_lock
<1>8. CASE driver_open_count(t)
  BY <1>8 DEF driver_open_count
<1>9. CASE driver_put(t)
  BY <1>9 DEF driver_put
<1>10. CASE driver_read_lock(t)
  BY <1>10 DEF driver_read_lock
<1>11. CASE driver_read_retry(t)
  BY <1>11 DEF driver_read_retry
<1>12. CASE driver_read_wait(t)
  BY <1>12 DEF driver_read_wait
<1>13. CASE driver_read_error(t)
  BY <1>13 DEF driver_read_error
<1>14. CASE driver_read_clear(t)
  BY <1>14 DEF driver_read_clear
<1>15. CASE driver_read_data(t)
  BY <1>15 DEF driver_read_data
<1>16. CASE driver_read_copied(t)
  BY <1>16 DEF driver_read_copied
<1>17. CASE rpc_do_read_io(t)
  BY <1>17 DEF rpc_do_read_io
<1>18. CASE rpc_do_read_io_submit(t)
  BY <1>18 DEF rpc_do_read_io_submit
<1>19. CASE rpc_do_read_io_reject(t)
  BY <1>19 DEF rpc_do_read_io_reject
<1>20. CASE rpc_do_read_io_fail(t)
  BY <1>20 DEF rpc_do_read_io_fail
<1>21. CASE driver_write_down(t)
  BY <1>21 DEF driver_write_down
<1>22. CASE driver_write_error(t)
  BY <1>22 DEF driver_write_error
<1>23. CASE driver_write_clear(t)
  BY <1>23 DEF driver_write_clear
<1>24. CASE driver_write_lock(t)
  BY <1>24 DEF driver_write_lock
<1>25. CASE driver_write_ctl(t)
  BY <1>25 DEF driver_write_ctl
<1>26. CASE driver_write_up(t)
  BY <1>26 DEF driver_write_up
<1>27. CASE driver_open_fail(t)
  BY <1>27 DEF driver_open_fail
<1>28. CASE driver_read_signal(t)
  BY <1>28 DEF driver_read_signal
<1>29. CASE driver_write_nodown(t)
  BY <1>29 DEF driver_write_nodown
<1> QED
  BY <1>1, <1>2, <1>3, <1>4, <1>5, <1>6, <1>7, <1>8, <1>9, <1>10, <1>11,
     <1>12, <1>13, <1>14, <1>15, <1>16, <1>17, <1>18, <1>19, <1>20, <1>21,
     <1>22, <1>23, <1>24, <1>25, <1>26, <1>27, <1>28, <1>29 DEF Thread,
     UserCall, CallStep, Upset

\* io_mutex lets one thread at a time be inside driver_read.
LEMMA OneReader ==
  ASSUME LocksExact, NEW s \in Threads, NEW t \in Threads,
         pc[s] \in IoHeld, pc[t] \in IoHeld
  PROVE  s = t
BY DEF LocksExact

LEMMA UrbThread ==
  ASSUME Inductive, Inductive', UrbInv, NEW t \in Threads, Thread(t)
  PROVE  UrbInv'
<1>1. UrbMove(t)
  BY ThreadUrb DEF Inductive
<1>2. PICK l \in PCs : Move(t, l)
  BY ThreadMoves DEF Inductive
<1>3. /\ pc'[t] = l /\ UNCHANGED core
      /\ \A s \in Threads : s # t => pc'[s] = pc[s]
  BY <1>2 DEF Move, Inductive, TypeOK, CallsOK
<1>4. LocksExact /\ {"r_wait", "r_retry", "r_submit", "r_fail", "r_copied"} \subseteq IoHeld
  BY DEF Inductive, IoHeld, InRead
<1>5. CoreQuiet'
  <2>1. core \notin {"z_kill", "asleep"}
    BY DEF Thread, Frozen
  <2>2. core \in {"s_kill", "suspended"} => pm_usage' = 0
    BY <1>1 DEF UrbMove, UrbInv, CoreQuiet, Inductive, PmBalanced
  <2>3. core \in {"resetting", "suspended"} => UrbQuiet'
    BY <1>1 DEF UrbMove, UrbInv, CoreQuiet, UrbQuiet
  <2> QED
    BY <1>3, <2>1, <2>2, <2>3 DEF CoreQuiet
<1>6. ReadTracked'
  <2> SUFFICES ASSUME ongoing_read', ~ inflight', handler' # "run"
               PROVE  \E s \in Threads : pc'[s] \in {"r_submit", "r_fail"}
    BY DEF ReadTracked
  <2>1. CASE pc'[t] \in {"r_submit", "r_fail"}
    BY <2>1
  <2>2. CASE ongoing_read /\ pc[t] \notin {"r_submit", "r_fail"}
    <3>1. ~ inflight /\ handler # "run"
      BY <1>1 DEF UrbMove
    <3>2. PICK s \in Threads : pc[s] \in {"r_submit", "r_fail"}
      BY <2>2, <3>1 DEF UrbInv, ReadTracked
    <3> QED
      BY <1>3, <2>2, <3>2
  <2> QED
    BY <1>1, <2>1, <2>2 DEF UrbMove
<1>7. WaiterNotStranded'
  <2> SUFFICES ASSUME NEW s \in Threads, pc'[s] = "r_wait"
               PROVE  (int_in_completion > 0 \/ inflight \/ handler # "idle")'
    BY DEF WaiterNotStranded
  <2>1. CASE s = t
    <3>1. ongoing_read /\ pc[t] = "r_retry"
      BY <1>1, <2>1 DEF UrbMove
    <3>2. \A u \in Threads : pc[u] \notin {"r_submit", "r_fail"}
      BY <1>4, <3>1, OneReader
    <3>3. inflight \/ handler = "run"
      BY <3>1, <3>2 DEF UrbInv, ReadTracked
    <3> QED
      BY <1>1, <3>3 DEF UrbMove
  <2>2. CASE s # t
    <3>1. pc[s] = "r_wait" /\ pc[t] # "r_wait"
      BY <1>3, <1>4, <2>2, OneReader
    <3>2. int_in_completion > 0 \/ inflight \/ handler # "idle"
      BY <3>1 DEF UrbInv, WaiterNotStranded
    <3> QED
      BY <1>1, <3>1, <3>2 DEF UrbMove
  <2> QED
    BY <2>1, <2>2
<1>8. ReportTracked'
  <2> SUFFICES ASSUME int_in_filled', ~ unread'
               PROVE  \E s \in Threads : pc'[s] = "r_copied"
    BY DEF ReportTracked
  <2>1. CASE pc'[t] = "r_copied"
    BY <2>1
  <2>2. CASE pc[t] # "r_copied" /\ int_in_filled /\ unread' = unread
    <3>1. PICK s \in Threads : pc[s] = "r_copied"
      BY <2>2 DEF UrbInv, ReportTracked
    <3> QED
      BY <1>3, <2>2, <3>1
  <2> QED
    BY <1>1, <2>1, <2>2 DEF UrbMove
<1> QED
  BY <1>5, <1>6, <1>7, <1>8 DEF UrbInv

\* The handler ends the transfer it was called for, and the USB core waits for
\* it before a reset or a suspend goes on.
LEMMA UrbCore ==
  ASSUME Inductive, UrbInv, CoreAction
  PROVE  UrbInv'
<1> USE DEF UrbInv, CoreQuiet, ReadTracked, WaiterNotStranded, ReportTracked,
      UrbQuiet, refVars, dataVars, urbVars, callVars
<1>1. CASE usb_giveback
  BY <1>1 DEF usb_giveback
<1>2. CASE rpc_read_int_complete
  BY <1>2 DEF rpc_read_int_complete, Inductive, TypeOK, CountersOK
<1>3. CASE rpc_probe
  BY <1>3, FreedIsUnused DEF rpc_probe
<1>4. CASE usb_unbind
  BY <1>4 DEF usb_unbind
<1>5. CASE rpc_pre_reset
  BY <1>5 DEF rpc_pre_reset
<1>6. CASE rpc_suspend
  BY <1>6 DEF rpc_suspend
<1>7. CASE rpc_probe_register
  BY <1>7 DEF rpc_probe_register
<1>8. CASE rpc_probe_fail
  BY <1>8 DEF rpc_probe_fail
<1>9. CASE rpc_disconnect
  BY <1>9 DEF rpc_disconnect
<1>10. CASE rpc_disconnect_minor
  BY <1>10 DEF rpc_disconnect_minor
<1>11. CASE rpc_disconnect_lock
  BY <1>11 DEF rpc_disconnect_lock
<1>12. CASE rpc_disconnect_put
  BY <1>12 DEF rpc_disconnect_put
<1>13. CASE rpc_pre_reset_lock
  BY <1>13 DEF rpc_pre_reset_lock
<1>14. CASE rpc_post_reset
  BY <1>14 DEF rpc_post_reset
<1>15. CASE rpc_draw_down
  BY <1>15 DEF rpc_draw_down
<1>16. CASE rpc_resume
  BY <1>16 DEF rpc_resume
<1>17. ASSUME NEW outcome \in Errnos, rpc_read_int_callback(outcome)
      PROVE  UrbInv'
  BY <1>17 DEF rpc_read_int_callback
<1> QED
  BY <1>1, <1>2, <1>3, <1>4, <1>5, <1>6, <1>7, <1>8, <1>9, <1>10,
     <1>11, <1>12, <1>13, <1>14, <1>15, <1>16, <1>17 DEF CoreAction,
     Handler, CoreStart, CoreStep

LEMMA UrbInductive ==
  ASSUME Inductive, Inductive', UrbInv, [Next]_vars
  PROVE  UrbInv'
<1>1. CASE UNCHANGED vars
  BY <1>1 DEF UrbInv, CoreQuiet, ReadTracked, WaiterNotStranded, ReportTracked,
    UrbQuiet, vars, refVars, dataVars, urbVars, callVars
<1> QED
  BY <1>1, UrbThread, UrbCore DEF Next, CoreAction

\* The state of the urb is what the driver's fields say of it.
THEOREM UrbInvariant == Spec => []UrbInv
<1>1. Init => UrbInv
  BY DEF Init, UrbInv, CoreQuiet, ReadTracked, WaiterNotStranded, ReportTracked
<1> QED
  BY <1>1, UrbInductive, InductiveInvariant, PTL DEF Spec

\* rpc_pre_reset stops the urb and, with io_mutex, everybody who could start
\* a transfer during the reset.
THEOREM ResetIsQuiet == Spec => []QuietDuringReset
<1>1. Inductive /\ UrbInv => QuietDuringReset
  BY ThreadsAssumption
     DEF Inductive, LocksExact, UrbInv, CoreQuiet, UrbQuiet, QuietDuringReset
<1> QED
  BY <1>1, InductiveInvariant, UrbInvariant, PTL

\* A device that a nonblocking reader has left with its urb queued is suspended
\* only once the urb is quiet, and never under a control message.
THEOREM SleepIsQuiet == Spec => []QuietWhileSuspended
<1>1. ASSUME Inductive, UrbInv PROVE QuietWhileSuspended
  <2>1. CASE core = "suspended"
    <3>1. interface /\ pm_usage = 0
      BY <1>1, <2>1 DEF Inductive, InterfaceExact, UrbInv, CoreQuiet
    <3>2. Cardinality(In(InFile)) = 0
      BY <1>1, <3>1, CountFinite
         DEF Inductive, PmBalanced, OpenCountExact, TypeOK, CountersOK
    <3>3. \A t \in Threads : pc[t] \notin InFile
      BY <3>2, CountPositive
    <3> QED
      BY <1>1, <2>1, <3>3
         DEF QuietWhileSuspended, UrbInv, CoreQuiet, UrbQuiet, InFile, InRead, InWrite
  <2>2. CASE core = "asleep"
    BY <1>1, <2>2 DEF QuietWhileSuspended, UrbInv, CoreQuiet, UrbQuiet
  <2> QED
    BY <2>1, <2>2 DEF QuietWhileSuspended
<1> QED
  BY <1>1, InductiveInvariant, UrbInvariant, PTL

\* A reader that sleeps with io_mutex held is woken by a completion that is
\* there or by a transfer that will end.
THEOREM WaitersAreWoken == Spec => []WaiterNotStranded
<1>1. UrbInv => WaiterNotStranded
  BY DEF UrbInv
<1> QED
  BY <1>1, UrbInvariant, PTL

\* driver_read hands a report out once, although it clears int_in_filled
\* without the lock under which the handler sets it.
THEOREM ReportsAreNew == Spec => []NoDuplicateReport
<1>1. ASSUME Inductive, UrbInv PROVE NoDuplicateReport
  <2> SUFFICES ASSUME NEW t \in Threads, pc[t] = "r_data", int_in_filled
               PROVE  unread
    BY DEF NoDuplicateReport
  <2>1. LocksExact /\ {"r_data", "r_copied"} \subseteq IoHeld
    BY <1>1 DEF Inductive, IoHeld, InRead
  <2>2. \A s \in Threads : pc[s] # "r_copied"
    BY <2>1, OneReader
  <2> QED
    BY <1>1, <2>2 DEF UrbInv, ReportTracked
<1> QED
  BY <1>1, InductiveInvariant, UrbInvariant, PTL

-----------------------------------------------------------------------------
(***************************************************************************)
(* The driver implements RpcLifetime.                                      *)
(***************************************************************************)
\* The structure is alive exactly while the driver is bound or a file is open.
LEMMA LiveExact ==
  ASSUME Inductive, Inductive'
  PROVE  /\ kref > 0 <=> core # "gone" \/ Holders # {}
         /\ kref' > 0 <=> core' # "gone" \/ Holders' # {}
<1>1. kref > 0 <=> core # "gone" \/ Holders # {}
  BY CountFinite, FS_EmptySet DEF Inductive, RefCountExact, Holders
<1>2. kref' > 0 <=> core' # "gone" \/ Holders' # {}
  BY CountFinite, FS_EmptySet DEF Inductive, RefCountExact, Holders
<1> QED
  BY <1>1, <1>2

\* A step of a thread opens or closes a file of RpcLifetime, or changes nothing
\* that RpcLifetime sees.
LEMMA ThreadLifetime ==
  ASSUME Inductive, Inductive', NEW t \in Threads, Thread(t)
  PROVE  [Lifetime!Next]_(Lifetime!vars)
<1>1. PICK l \in PCs : Move(t, l)
  BY ThreadMoves DEF Inductive
<1>2. pc \in [Threads -> PCs] /\ pc' = [pc EXCEPT ![t] = l] /\ core' = core
  BY <1>1 DEF Move, Inductive, TypeOK, CallsOK
<1>3. /\ kref > 0 <=> core # "gone" \/ Holders # {}
      /\ kref' > 0 <=> core' # "gone" \/ Holders' # {}
  BY LiveExact
<1>4. CASE pc[t] \in RefHeld <=> l \in RefHeld
  <2>1. Holders' = Holders
    BY <1>2, <1>4, CountStep DEF Holders
  <2> QED
    BY <1>2, <1>3, <2>1 DEF Lifetime!vars
<1>5. CASE pc[t] \notin RefHeld /\ l \in RefHeld
  <2>1. Holders' = Holders \cup {t} /\ t \notin Holders
    BY <1>2, <1>5 DEF Holders, In
  <2>2. core # "gone"
    BY <1>1, <1>5 DEF Move, Inductive, MinorExact
  <2>3. Lifetime!Open(t)
    BY <1>2, <1>3, <2>1, <2>2 DEF Lifetime!Open
  <2> QED
    BY <2>3 DEF Lifetime!Next
<1>6. CASE pc[t] \in RefHeld /\ l \notin RefHeld
  <2>1. Holders' = Holders \ {t} /\ t \in Holders
    BY <1>2, <1>6 DEF Holders, In
  <2>2. Lifetime!Close(t)
    BY <1>2, <1>3, <2>1 DEF Lifetime!Close
  <2> QED
    BY <2>2 DEF Lifetime!Next
<1> QED
  BY <1>4, <1>5, <1>6

\* A step of the handler or of the USB core attaches or detaches the device of
\* RpcLifetime, or changes nothing that RpcLifetime sees.
LEMMA CoreLifetime ==
  ASSUME Inductive, Inductive', CoreAction
  PROVE  [Lifetime!Next]_(Lifetime!vars)
<1>1. /\ kref > 0 <=> core # "gone" \/ Holders # {}
      /\ kref' > 0 <=> core' # "gone" \/ Holders' # {}
  BY LiveExact
<1>2. Holders' = Holders
  BY DEF Holders, In, callVars, CoreAction, Handler, CoreStart, CoreStep,
     usb_giveback, rpc_read_int_callback, rpc_read_int_complete, rpc_probe,
     usb_unbind, rpc_pre_reset, rpc_suspend, rpc_probe_register,
     rpc_probe_fail, rpc_disconnect, rpc_disconnect_minor,
     rpc_disconnect_lock, rpc_disconnect_put, rpc_pre_reset_lock,
     rpc_post_reset, rpc_draw_down, rpc_resume
<1>3. CASE rpc_probe
  <2>1. Lifetime!Attach
    BY <1>1, <1>2, <1>3 DEF rpc_probe, Lifetime!Attach
  <2> QED
    BY <2>1 DEF Lifetime!Next
<1>4. CASE rpc_probe_fail \/ rpc_disconnect_put
  <2>1. Lifetime!Detach
    BY <1>1, <1>2, <1>4 DEF rpc_probe_fail, rpc_disconnect_put,
       Lifetime!Detach
  <2> QED
    BY <2>1 DEF Lifetime!Next
<1>5. CASE CoreAction /\ ~rpc_probe /\ ~rpc_probe_fail /\ ~rpc_disconnect_put
  <2>1. (core' # "gone") = (core # "gone")
    BY <1>5 DEF CoreAction, Handler, CoreStart, CoreStep, usb_giveback,
       rpc_read_int_callback, rpc_read_int_complete, rpc_probe, usb_unbind,
       rpc_pre_reset, rpc_suspend, rpc_probe_register, rpc_probe_fail,
       rpc_disconnect, rpc_disconnect_minor, rpc_disconnect_lock,
       rpc_disconnect_put, rpc_pre_reset_lock, rpc_post_reset, rpc_draw_down,
       rpc_resume
  <2> QED
    BY <1>1, <1>2, <2>1 DEF Lifetime!vars
<1> QED
  BY <1>3, <1>4, <1>5

\* kref_get and kref_put keep the promise of RpcLifetime.
THEOREM LifetimeImplemented == Spec => LifetimeSpec
<1>1. Init => Lifetime!Init
  BY DEF Init, Lifetime!Init, Holders, In, RefHeld
<1>2. Inductive /\ Inductive' /\ [Next]_vars => [Lifetime!Next]_(Lifetime!vars)
  <2> SUFFICES ASSUME Inductive, Inductive', [Next]_vars
               PROVE  [Lifetime!Next]_(Lifetime!vars)
    OBVIOUS
  <2>1. CASE \E t \in Threads : Thread(t)
    BY <2>1, ThreadLifetime
  <2>2. CASE CoreAction
    BY <2>2, CoreLifetime
  <2>3. CASE UNCHANGED vars
    BY <2>3 DEF vars, refVars, callVars, Lifetime!vars, Holders, In
  <2> QED
    BY <2>1, <2>2, <2>3 DEF Next, CoreAction
<1> QED
  BY <1>1, <1>2, InductiveInvariant, PTL DEF Spec, LifetimeSpec, Lifetime!Spec
=============================================================================
