------------------------------ MODULE RpcDriver ------------------------------
(***************************************************************************)
(* The Linux driver of the RetroPC controller, Driver/Linux/rpcdrv.c: one  *)
(* struct usb_rpc from rpc_probe to rpc_delete, the threads that open,     *)
(* read, write and close its device node, the completion handler of its    *)
(* single interrupt-IN urb, and the callbacks the USB core makes.          *)
(*                                                                         *)
(* A step is what the code does between two points at which another thread,*)
(* the handler or the USB core can observe or change the shared fields.    *)
(* What is done under io_mutex alone is split only where a field is also   *)
(* touched without that mutex (errors, int_in_filled, ongoing_read, the    *)
(* urb and the completion).                                                *)
(***************************************************************************)
EXTENDS Naturals, FiniteSets

CONSTANTS
  Threads,         \* user threads, each working on an open file of its own
  Readers,         \* the threads that call read
  Writers,         \* the threads that call write
  WritesInFlight,  \* WRITES_IN_FLIGHT, initial count of limit_sem
  WriteCounts,     \* byte counts that callers pass to write(2)
  MaxStale,        \* bound: no call starts with more unconsumed completions
  MaxExtraUps      \* bound on how far limit_sem may exceed WritesInFlight

Free    == "free"      \* value of a lock nobody holds
UsbCore == "usbcore"   \* the hub or power-management thread of the USB core
Urb     == "urb"       \* the interrupt-IN urb and its completion handler

ASSUME ThreadsAssumption ==
  /\ IsFiniteSet(Threads)
  /\ Free \notin Threads
  /\ UsbCore \notin Threads
  /\ Urb \notin Threads
  /\ Readers \subseteq Threads /\ Writers \subseteq Threads

ASSUME CountsAssumption ==
  /\ WritesInFlight \in Nat \ {0}
  /\ WriteCounts \subseteq Nat
  /\ MaxStale \in Nat
  /\ MaxExtraUps \in Nat

VARIABLES
  \* struct usb_rpc; the memory is freed when kref drops to 0
  kref, interface, open_count, errors, int_in_filled, ongoing_read,
  int_in_completion, limit_sem, io_mutex, err_lock,
  \* the interface as the USB core keeps it: intfdata, minor number, usage
  \* count of runtime power management, and the call the core is in
  intfdata, minor, pm_usage, core,
  \* int_in_urb: queued at the host controller, and where its handler is
  inflight, handler,
  \* per thread: where it is, O_NONBLOCK, the error it is about to return
  pc, nonblock, rv,
  \* history: int_in_filled stands for a report that no read has copied yet
  unread

refVars  == <<kref, interface, open_count, intfdata, minor, pm_usage>>
dataVars == <<errors, int_in_filled, ongoing_read, int_in_completion, unread>>
urbVars  == <<inflight, handler>>
lockVars == <<io_mutex, err_lock, limit_sem>>
callVars == <<pc, nonblock, rv>>
vars     == <<refVars, dataVars, urbVars, lockVars, callVars, core>>

(***************************************************************************)
(* Where a thread can be.                                                  *)
(***************************************************************************)
InOpen  == {"o_get", "o_lock", "o_pm", "o_put"}
InRead  == {"r_lock", "r_retry", "r_wait", "r_err", "r_clear", "r_data",
            "r_copied", "r_fill", "r_submit", "r_fail"}
InWrite == {"w_down", "w_err", "w_clear", "w_lock", "w_ctl", "w_up"}
InFile  == {"open"} \cup InRead \cup InWrite
PCs     == {"closed", "c_put"} \cup InOpen \cup InFile

\* Program points between mutex_lock(&dev->io_mutex) and its unlock.
IoHeld == {"o_pm", "w_ctl"} \cup (InRead \ {"r_lock"})

\* Program points between down(&dev->limit_sem) and up(&dev->limit_sem).
SlotHeld == InWrite \ {"w_down"}

\* From kref_get to kref_put: at "o_get" the device is found, but not yet held.
RefHeld == PCs \ {"closed", "o_get"}

In(points) == {t \in Threads : pc[t] \in points}
Holders == In(RefHeld)

(***************************************************************************)
(* Where the USB core is with this interface.  It holds the device lock    *)
(* over each of these calls, so they never overlap.                        *)
(***************************************************************************)
Detaching == {"flush", "d_minor", "d_lock", "d_put"}
Resetting == {"r_lock", "r_kill", "resetting"}
Killing   == {"r_kill", "s_kill", "z_kill"}
Cores     == {"gone", "probing", "bound", "s_kill", "suspended", "z_kill",
              "asleep"} \cup Detaching \cup Resetting

\* System sleep freezes the user threads before any suspend callback runs.
Frozen == core \in {"z_kill", "asleep"}

\* dev->errors: driver_read and driver_write report -EPIPE as it is and every
\* other error, that of an unlinked urb or a short packet too, as -EIO.
Errnos == {"ok", "EPIPE", "EIO"}

\* usb_kill_urb returns once the urb is neither queued nor in its handler.
UrbQuiet == ~inflight /\ handler = "idle"

\* usb_kill_urb, or the flush of the disabled endpoint, has the urb unlinked.
Unlinked == core \in Killing \cup {"flush"}

\* usb_submit_urb accepts an urb that is not queued, on a live endpoint.
CanSubmit == ~inflight /\ core \in {"bound", "r_lock"}

Goto(t, l) == pc' = [pc EXCEPT ![t] = l]

\* The call of thread t returns to user space.
Return(t) ==
  /\ Goto(t, "open")
  /\ nonblock' = [nonblock EXCEPT ![t] = FALSE]
  /\ rv' = [rv EXCEPT ![t] = "ok"]

\* The exit label of driver_read: mutex_unlock and return.
ReadReturn(t) == Return(t) /\ io_mutex' = Free

Init ==
  /\ kref = 0 /\ open_count = 0 /\ pm_usage = 0
  /\ interface = FALSE /\ intfdata = FALSE /\ minor = FALSE
  /\ errors = "ok" /\ int_in_filled = FALSE /\ ongoing_read = FALSE
  /\ int_in_completion = 0 /\ unread = FALSE
  /\ limit_sem = WritesInFlight /\ io_mutex = Free /\ err_lock = Free
  /\ inflight = FALSE /\ handler = "idle"
  /\ core = "gone"
  /\ pc = [t \in Threads |-> "closed"]
  /\ nonblock = [t \in Threads |-> FALSE]
  /\ rv = [t \in Threads |-> "ok"]

-----------------------------------------------------------------------------
(***************************************************************************)
(* Mutations: the same steps with a plausible mistake in each.  No action  *)
(* uses them; each shows that a property below would notice the mistake.   *)
(***************************************************************************)

\* driver_open forgets kref_get.
MutNoGet(t) ==
  /\ pc[t] = "o_get"
  /\ Goto(t, "o_lock")
  /\ UNCHANGED <<refVars, dataVars, urbVars, lockVars, nonblock, rv, core>>

\* driver_open counts the first opener only.
MutCountOnce(t) ==
  /\ pc[t] = "o_pm"
  /\ \/ open_count # 0 /\ UNCHANGED pm_usage
     \/ open_count = 0 /\ core \notin {"s_kill", "suspended"} /\ pm_usage' = pm_usage + 1
  /\ open_count' = 1
  /\ io_mutex' = Free
  /\ Goto(t, "open")
  /\ UNCHANGED <<kref, interface, intfdata, minor, dataVars, urbVars,
                 err_lock, limit_sem, nonblock, rv, core>>

\* every opener, not just the first, takes a runtime-power reference.
MutPmEach(t) ==
  /\ pc[t] = "o_pm" /\ core \notin {"s_kill", "suspended"}
  /\ pm_usage' = pm_usage + 1
  /\ open_count' = open_count + 1
  /\ io_mutex' = Free
  /\ Goto(t, "open")
  /\ UNCHANGED <<kref, interface, intfdata, minor, dataVars, urbVars,
                 err_lock, limit_sem, nonblock, rv, core>>

\* a read that is interrupted by a signal keeps io_mutex.
MutKeepLock(t) ==
  /\ pc[t] \in {"r_lock", "r_wait"}
  /\ Return(t)
  /\ UNCHANGED <<refVars, dataVars, urbVars, lockVars, core>>

\* driver_read keeps int_in_filled after it has copied the report.
MutKeepFilled(t) ==
  /\ pc[t] = "r_copied"
  /\ ReadReturn(t)
  /\ UNCHANGED <<refVars, dataVars, urbVars, err_lock, limit_sem, core>>

\* driver_write does not test for a disconnected device.
MutNoTest(t) ==
  /\ pc[t] = "w_lock" /\ io_mutex = Free
  /\ io_mutex' = t /\ Goto(t, "w_ctl")
  /\ UNCHANGED <<refVars, dataVars, urbVars, err_lock, limit_sem,
                 nonblock, rv, core>>

\* driver_write leaves through exit, not error, when the device is gone.
MutNoUp(t) ==
  /\ pc[t] = "w_lock" /\ io_mutex = Free
  /\ \/ interface /\ io_mutex' = t /\ Goto(t, "w_ctl") /\ UNCHANGED <<nonblock, rv>>
     \/ ~interface /\ Return(t) /\ UNCHANGED io_mutex
  /\ UNCHANGED <<refVars, dataVars, urbVars, err_lock, limit_sem, core>>

\* the handler leaves ongoing_read set when the transfer failed.
MutKeepOngoing(outcome) ==
  /\ handler = "run" /\ err_lock = Free
  /\ IF outcome = "ok"
       THEN int_in_filled' = TRUE /\ unread' = TRUE /\ ongoing_read' = FALSE /\ UNCHANGED errors
       ELSE errors' = outcome /\ UNCHANGED <<int_in_filled, unread, ongoing_read>>
  /\ handler' = "signal"
  /\ UNCHANGED <<refVars, int_in_completion, inflight, lockVars, callVars, core>>

\* the handler ends without complete().
MutNoComplete ==
  /\ handler = "signal"
  /\ handler' = "idle"
  /\ UNCHANGED <<refVars, dataVars, inflight, lockVars, callVars, core>>

\* minor_rwsem does not keep an open that is under way apart from disconnect.
MutNoRwsem ==
  /\ core = "d_minor"
  /\ minor' = FALSE
  /\ core' = "d_lock"
  /\ UNCHANGED <<kref, interface, open_count, intfdata, pm_usage,
                 dataVars, urbVars, lockVars, callVars>>

\* rpc_suspend does not call rpc_draw_down.
MutNoDrawDown ==
  /\ core = "bound"
  /\ \/ pm_usage = 0 /\ core' = "suspended"
     \/ /\ \A t \in Threads : pc[t] \in {"closed", "open"}
        /\ core' = "asleep"
  /\ UNCHANGED <<refVars, dataVars, urbVars, lockVars, callVars>>

\* rpc_draw_down unlinks the urb but does not wait for its handler.
MutUnlink ==
  /\ ~inflight
  /\ \/ core = "r_kill" /\ core' = "resetting"
     \/ core = "s_kill" /\ core' = "suspended"
     \/ core = "z_kill" /\ core' = "asleep"
  /\ UNCHANGED <<refVars, dataVars, urbVars, lockVars, callVars>>

\* rpc_post_reset forgets mutex_unlock.
MutNoUnlock ==
  /\ core = "resetting"
  /\ errors' = "EPIPE"
  /\ core' = "bound"
  /\ UNCHANGED <<refVars, int_in_filled, ongoing_read, int_in_completion,
                 unread, urbVars, lockVars, callVars>>

-----------------------------------------------------------------------------
(***************************************************************************)
(* rpc_probe.  The errors that return before or undo kzalloc leave no      *)
(* trace and are not shown.  A new device is probed once the previous      *)
(* structure is freed (a second structure beside one that is still open    *)
(* shares nothing with it).                                                *)
(***************************************************************************)
rpc_probe ==
  /\ core = "gone" /\ kref = 0 /\ handler = "idle"
  /\ core' = "probing"
  /\ kref' = 1
  /\ interface' = TRUE /\ intfdata' = TRUE
  /\ open_count' = 0 /\ pm_usage' = 0
  /\ errors' = "ok" /\ int_in_filled' = FALSE /\ ongoing_read' = FALSE
  /\ int_in_completion' = 0 /\ unread' = FALSE
  /\ limit_sem' = WritesInFlight /\ io_mutex' = Free /\ err_lock' = Free
  /\ UNCHANGED <<minor, urbVars, callVars>>

rpc_probe_register ==
  /\ core = "probing"
  /\ core' = "bound" /\ minor' = TRUE
  /\ UNCHANGED <<kref, interface, open_count, intfdata, pm_usage,
                 dataVars, urbVars, lockVars, callVars>>

\* usb_register_dev finds no free minor: the error path drops the reference.
rpc_probe_fail ==
  /\ core = "probing"
  /\ core' = "gone" /\ intfdata' = FALSE /\ kref' = kref - 1
  /\ UNCHANGED <<interface, open_count, minor, pm_usage,
                 dataVars, urbVars, lockVars, callVars>>

-----------------------------------------------------------------------------
(***************************************************************************)
(* driver_open.  The character-device layer of the USB core calls it with  *)
(* minor_rwsem held for reading; an open that finds no minor or no intfdata*)
(* returns -ENODEV and changes nothing.                                    *)
(***************************************************************************)
driver_open_find(t) ==
  /\ pc[t] = "closed" /\ minor /\ intfdata
  /\ Goto(t, "o_get")
  /\ UNCHANGED <<refVars, dataVars, urbVars, lockVars, nonblock, rv, core>>

driver_open_ref(t) ==
  /\ pc[t] = "o_get"
  /\ kref' = kref + 1
  /\ Goto(t, "o_lock")
  /\ UNCHANGED <<interface, open_count, intfdata, minor, pm_usage,
                 dataVars, urbVars, lockVars, nonblock, rv, core>>

driver_open_lock(t) ==
  /\ pc[t] = "o_lock" /\ io_mutex = Free
  /\ io_mutex' = t
  /\ Goto(t, "o_pm")
  /\ UNCHANGED <<refVars, dataVars, urbVars, err_lock, limit_sem,
                 nonblock, rv, core>>

\* The first opener takes a runtime-power reference, for which the USB core
\* waits until a suspended device is awake again.
driver_open_count(t) ==
  /\ pc[t] = "o_pm"
  /\ \/ open_count # 0 /\ UNCHANGED pm_usage
     \/ /\ open_count = 0 /\ core \notin {"s_kill", "suspended"}
        /\ pm_usage' = pm_usage + 1
  /\ open_count' = open_count + 1
  /\ io_mutex' = Free
  /\ Goto(t, "open")
  /\ UNCHANGED <<kref, interface, intfdata, minor, dataVars, urbVars,
                 err_lock, limit_sem, nonblock, rv, core>>

\* usb_autopm_get_interface fails: open_count is put back and the lock freed.
driver_open_fail(t) ==
  /\ pc[t] = "o_pm" /\ open_count = 0
  /\ io_mutex' = Free
  /\ Goto(t, "o_put")
  /\ UNCHANGED <<refVars, dataVars, urbVars, err_lock, limit_sem,
                 nonblock, rv, core>>

\* kref_put in the error path of driver_open and at the end of driver_close.
driver_put(t) ==
  /\ pc[t] \in {"o_put", "c_put"}
  /\ kref' = kref - 1
  /\ Goto(t, "closed")
  /\ UNCHANGED <<interface, open_count, intfdata, minor, pm_usage,
                 dataVars, urbVars, lockVars, nonblock, rv, core>>

driver_close(t) ==
  /\ pc[t] = "open" /\ io_mutex = Free
  /\ open_count' = open_count - 1
  /\ pm_usage' = IF open_count' = 0 /\ interface THEN pm_usage - 1 ELSE pm_usage
  /\ Goto(t, "c_put")
  /\ UNCHANGED <<kref, interface, intfdata, minor, dataVars, urbVars,
                 lockVars, nonblock, rv, core>>

-----------------------------------------------------------------------------
(***************************************************************************)
(* driver_read.  A count below sizeof(struct rpc_status_raw) returns 0     *)
(* before anything is touched and is not shown.                            *)
(***************************************************************************)
driver_read(t) ==
  /\ t \in Readers
  /\ pc[t] = "open" /\ int_in_completion <= MaxStale
  /\ \E nb \in BOOLEAN : nonblock' = [nonblock EXCEPT ![t] = nb]
  /\ Goto(t, "r_lock")
  /\ UNCHANGED <<refVars, dataVars, urbVars, lockVars, rv, core>>

\* mutex_lock_interruptible, then the test for a disconnected device.
driver_read_lock(t) ==
  /\ pc[t] = "r_lock" /\ io_mutex = Free
  /\ \/ /\ interface
        /\ io_mutex' = t
        /\ Goto(t, "r_retry")
        /\ UNCHANGED <<nonblock, rv>>
     \/ ~interface /\ ReadReturn(t)
  /\ UNCHANGED <<refVars, dataVars, urbVars, err_lock, limit_sem, core>>

\* The retry label: is a transfer under way?
driver_read_retry(t) ==
  /\ pc[t] = "r_retry" /\ err_lock = Free
  /\ \/ ongoing_read /\ nonblock[t] /\ ReadReturn(t)
     \/ /\ ongoing_read /\ ~nonblock[t]
        /\ Goto(t, "r_wait")
        /\ UNCHANGED <<nonblock, rv, io_mutex>>
     \/ /\ ~ongoing_read
        /\ Goto(t, "r_err")
        /\ UNCHANGED <<nonblock, rv, io_mutex>>
  /\ UNCHANGED <<refVars, dataVars, urbVars, err_lock, limit_sem, core>>

driver_read_wait(t) ==
  /\ pc[t] = "r_wait" /\ int_in_completion > 0
  /\ int_in_completion' = int_in_completion - 1
  /\ Goto(t, "r_err")
  /\ UNCHANGED <<refVars, errors, int_in_filled, ongoing_read, unread,
                 urbVars, lockVars, nonblock, rv, core>>

\* A signal ends either interruptible wait of driver_read.
driver_read_signal(t) ==
  /\ \/ pc[t] = "r_lock" /\ UNCHANGED io_mutex
     \/ pc[t] = "r_wait" /\ io_mutex' = Free
  /\ Return(t)
  /\ UNCHANGED <<refVars, dataVars, urbVars, err_lock, limit_sem, core>>

\* rv = dev->errors, read with io_mutex but without err_lock.
driver_read_error(t) ==
  /\ pc[t] = "r_err"
  /\ rv' = [rv EXCEPT ![t] = errors]
  /\ Goto(t, IF errors = "ok" THEN "r_data" ELSE "r_clear")
  /\ UNCHANGED <<refVars, dataVars, urbVars, lockVars, nonblock, core>>

driver_read_clear(t) ==
  /\ pc[t] = "r_clear"
  /\ errors' = "ok" /\ int_in_filled' = FALSE /\ unread' = FALSE
  /\ ReadReturn(t)
  /\ UNCHANGED <<refVars, ongoing_read, int_in_completion, urbVars,
                 err_lock, limit_sem, core>>

\* copy_to_user of rpc_status when a report is there, else start a transfer.
driver_read_data(t) ==
  /\ pc[t] = "r_data"
  /\ Goto(t, IF int_in_filled THEN "r_copied" ELSE "r_fill")
  /\ unread' = (unread /\ ~int_in_filled)
  /\ UNCHANGED <<refVars, errors, int_in_filled, ongoing_read,
                 int_in_completion, urbVars, lockVars, nonblock, rv, core>>

driver_read_copied(t) ==
  /\ pc[t] = "r_copied"
  /\ int_in_filled' = FALSE /\ unread' = FALSE
  /\ ReadReturn(t)
  /\ UNCHANGED <<refVars, errors, ongoing_read, int_in_completion,
                 urbVars, err_lock, limit_sem, core>>

\* usb_fill_int_urb and ongoing_read = 1.
rpc_do_read_io(t) ==
  /\ pc[t] = "r_fill" /\ err_lock = Free
  /\ ongoing_read' = TRUE
  /\ Goto(t, "r_submit")
  /\ UNCHANGED <<refVars, errors, int_in_filled, int_in_completion, unread,
                 urbVars, lockVars, nonblock, rv, core>>

\* usb_submit_urb: a blocking reader goes back to retry, a nonblocking one
\* returns -EAGAIN.
rpc_do_read_io_submit(t) ==
  /\ pc[t] = "r_submit" /\ CanSubmit
  /\ inflight' = TRUE
  /\ \/ nonblock[t] /\ ReadReturn(t)
     \/ /\ ~nonblock[t]
        /\ Goto(t, "r_retry")
        /\ UNCHANGED <<nonblock, rv, io_mutex>>
  /\ UNCHANGED <<refVars, dataVars, handler, err_lock, limit_sem, core>>

\* usb_submit_urb fails (urb busy, endpoint gone, no memory).
rpc_do_read_io_reject(t) ==
  /\ pc[t] = "r_submit"
  /\ int_in_filled' = FALSE /\ unread' = FALSE
  /\ Goto(t, "r_fail")
  /\ UNCHANGED <<refVars, errors, ongoing_read, int_in_completion,
                 urbVars, lockVars, nonblock, rv, core>>

rpc_do_read_io_fail(t) ==
  /\ pc[t] = "r_fail" /\ err_lock = Free
  /\ ongoing_read' = FALSE
  /\ ReadReturn(t)
  /\ UNCHANGED <<refVars, errors, int_in_filled, int_in_completion, unread,
                 urbVars, err_lock, limit_sem, core>>

-----------------------------------------------------------------------------
(***************************************************************************)
(* driver_write.                                                           *)
(***************************************************************************)

\* A count other than 1 goes straight to the error label, which ups limit_sem.
driver_write_count(t) ==
  /\ t \in Writers
  /\ pc[t] = "open"
  /\ \E count \in WriteCounts : count # 1
  /\ limit_sem < WritesInFlight + MaxExtraUps
  /\ limit_sem' = limit_sem + 1
  /\ UNCHANGED <<refVars, dataVars, urbVars, io_mutex, err_lock, callVars, core>>

driver_write(t) ==
  /\ t \in Writers
  /\ pc[t] = "open" /\ 1 \in WriteCounts /\ int_in_completion <= MaxStale
  /\ \E nb \in BOOLEAN : nonblock' = [nonblock EXCEPT ![t] = nb]
  /\ Goto(t, "w_down")
  /\ UNCHANGED <<refVars, dataVars, urbVars, lockVars, rv, core>>

driver_write_down(t) ==
  /\ pc[t] = "w_down" /\ limit_sem > 0
  /\ limit_sem' = limit_sem - 1
  /\ nonblock' = [nonblock EXCEPT ![t] = FALSE]
  /\ Goto(t, "w_err")
  /\ UNCHANGED <<refVars, dataVars, urbVars, io_mutex, err_lock, rv, core>>

\* down_trylock fails, or a signal ends down_interruptible.
driver_write_nodown(t) ==
  /\ pc[t] = "w_down"
  /\ nonblock[t] => limit_sem = 0
  /\ Return(t)
  /\ UNCHANGED <<refVars, dataVars, urbVars, lockVars, core>>

\* retval = dev->errors; err_lock stays held while an error is cleared.  Without
\* one, copy_from_user and the test fanspeed > 100 may refuse the value.
driver_write_error(t) ==
  /\ pc[t] = "w_err" /\ err_lock = Free
  /\ rv' = [rv EXCEPT ![t] = errors]
  /\ \/ /\ errors = "ok"
        /\ \E l \in {"w_lock", "w_up"} : Goto(t, l)
        /\ UNCHANGED err_lock
     \/ errors # "ok" /\ Goto(t, "w_clear") /\ err_lock' = t
  /\ UNCHANGED <<refVars, dataVars, urbVars, io_mutex, limit_sem, nonblock, core>>

driver_write_clear(t) ==
  /\ pc[t] = "w_clear"
  /\ errors' = "ok" /\ err_lock' = Free
  /\ rv' = [rv EXCEPT ![t] = "ok"]
  /\ Goto(t, "w_up")
  /\ UNCHANGED <<refVars, int_in_filled, ongoing_read, int_in_completion,
                 unread, urbVars, io_mutex, limit_sem, nonblock, core>>

driver_write_lock(t) ==
  /\ pc[t] = "w_lock" /\ io_mutex = Free
  /\ \/ interface /\ io_mutex' = t /\ Goto(t, "w_ctl")
     \/ ~interface /\ Goto(t, "w_up") /\ UNCHANGED io_mutex
  /\ UNCHANGED <<refVars, dataVars, urbVars, err_lock, limit_sem,
                 nonblock, rv, core>>

\* usb_control_msg returns, with 1, an error or its 5 s timeout.
driver_write_ctl(t) ==
  /\ pc[t] = "w_ctl"
  /\ io_mutex' = Free
  /\ Goto(t, "w_up")
  /\ UNCHANGED <<refVars, dataVars, urbVars, err_lock, limit_sem,
                 nonblock, rv, core>>

driver_write_up(t) ==
  /\ pc[t] = "w_up"
  /\ limit_sem' = limit_sem + 1
  /\ Return(t)
  /\ UNCHANGED <<refVars, dataVars, urbVars, io_mutex, err_lock, core>>

-----------------------------------------------------------------------------
(***************************************************************************)
(* The host controller gives the urb back and rpc_read_int_callback runs.  *)
(* The urb has left the queue when its handler starts, so it can be        *)
(* submitted again while the handler is still running.                     *)
(***************************************************************************)
usb_giveback ==
  /\ inflight /\ handler = "idle"
  /\ inflight' = FALSE /\ handler' = "run"
  /\ UNCHANGED <<refVars, dataVars, lockVars, callVars, core>>

\* The part of the handler under err_lock: a report, or an error status.
rpc_read_int_callback(outcome) ==
  /\ handler = "run" /\ err_lock = Free
  /\ IF outcome = "ok"
       THEN int_in_filled' = TRUE /\ unread' = TRUE /\ UNCHANGED errors
       ELSE errors' = outcome /\ UNCHANGED <<int_in_filled, unread>>
  /\ ongoing_read' = FALSE
  /\ handler' = "signal"
  /\ UNCHANGED <<refVars, int_in_completion, inflight, lockVars, callVars, core>>

\* complete(&dev->int_in_completion).
rpc_read_int_complete ==
  /\ handler = "signal"
  /\ int_in_completion' = int_in_completion + 1
  /\ handler' = "idle"
  /\ UNCHANGED <<refVars, errors, int_in_filled, ongoing_read, unread,
                 inflight, lockVars, callVars, core>>

-----------------------------------------------------------------------------
(***************************************************************************)
(* Unbinding.  The USB core disables the endpoints and waits until no urb  *)
(* is queued on them, then calls rpc_disconnect.                           *)
(***************************************************************************)
usb_unbind ==
  /\ core \in {"bound", "suspended"}
  /\ core' = "flush"
  /\ UNCHANGED <<refVars, dataVars, urbVars, lockVars, callVars>>

rpc_disconnect ==
  /\ core = "flush" /\ ~inflight
  /\ intfdata' = FALSE
  /\ core' = "d_minor"
  /\ UNCHANGED <<kref, interface, open_count, minor, pm_usage,
                 dataVars, urbVars, lockVars, callVars>>

\* usb_deregister_dev takes minor_rwsem for writing: no open is under way.
rpc_disconnect_minor ==
  /\ core = "d_minor"
  /\ \A t \in Threads : pc[t] \notin InOpen
  /\ minor' = FALSE
  /\ core' = "d_lock"
  /\ UNCHANGED <<kref, interface, open_count, intfdata, pm_usage,
                 dataVars, urbVars, lockVars, callVars>>

rpc_disconnect_lock ==
  /\ core = "d_lock" /\ io_mutex = Free
  /\ interface' = FALSE
  /\ core' = "d_put"
  /\ UNCHANGED <<kref, open_count, intfdata, minor, pm_usage,
                 dataVars, urbVars, lockVars, callVars>>

\* Nothing is ever anchored at dev->submitted, so usb_kill_anchored_urbs
\* stops nothing; kref_put drops the reference rpc_probe took.
rpc_disconnect_put ==
  /\ core = "d_put"
  /\ kref' = kref - 1
  /\ core' = "gone"
  /\ UNCHANGED <<interface, open_count, intfdata, minor, pm_usage,
                 dataVars, urbVars, lockVars, callVars>>

-----------------------------------------------------------------------------
(***************************************************************************)
(* Port reset and power management.  rpc_draw_down finds the anchor empty  *)
(* and then waits in usb_kill_urb.                                         *)
(***************************************************************************)
rpc_pre_reset ==
  /\ core = "bound"
  /\ core' = "r_lock"
  /\ UNCHANGED <<refVars, dataVars, urbVars, lockVars, callVars>>

rpc_pre_reset_lock ==
  /\ core = "r_lock" /\ io_mutex = Free
  /\ io_mutex' = UsbCore
  /\ core' = "r_kill"
  /\ UNCHANGED <<refVars, dataVars, urbVars, err_lock, limit_sem, callVars>>

rpc_post_reset ==
  /\ core = "resetting"
  /\ errors' = "EPIPE"
  /\ io_mutex' = Free
  /\ core' = "bound"
  /\ UNCHANGED <<refVars, int_in_filled, ongoing_read, int_in_completion,
                 unread, urbVars, err_lock, limit_sem, callVars>>

\* Runtime suspend needs an idle usage count, system sleep frozen threads.
rpc_suspend ==
  /\ core = "bound"
  /\ \/ pm_usage = 0 /\ core' = "s_kill"
     \/ /\ \A t \in Threads : pc[t] \in {"closed", "open"}
        /\ core' = "z_kill"
  /\ UNCHANGED <<refVars, dataVars, urbVars, lockVars, callVars>>

\* rpc_draw_down returns: usb_kill_urb has seen the urb idle.
rpc_draw_down ==
  /\ UrbQuiet
  /\ \/ core = "r_kill" /\ core' = "resetting"
     \/ core = "s_kill" /\ core' = "suspended"
     \/ core = "z_kill" /\ core' = "asleep"
  /\ UNCHANGED <<refVars, dataVars, urbVars, lockVars, callVars>>

rpc_resume ==
  /\ core \in {"suspended", "asleep"}
  /\ core' = "bound"
  /\ UNCHANGED <<refVars, dataVars, urbVars, lockVars, callVars>>

-----------------------------------------------------------------------------
\* Calls a program may make or not.
UserCall(t) ==
  driver_open_find(t) \/ driver_read(t) \/ driver_write(t)
  \/ driver_write_count(t) \/ driver_close(t)

\* Steps of a call that is under way.
CallStep(t) ==
  \/ driver_open_ref(t) \/ driver_open_lock(t) \/ driver_open_count(t)
  \/ driver_put(t)
  \/ driver_read_lock(t) \/ driver_read_retry(t) \/ driver_read_wait(t)
  \/ driver_read_error(t) \/ driver_read_clear(t) \/ driver_read_data(t)
  \/ driver_read_copied(t) \/ rpc_do_read_io(t) \/ rpc_do_read_io_submit(t)
  \/ rpc_do_read_io_reject(t) \/ rpc_do_read_io_fail(t)
  \/ driver_write_down(t) \/ driver_write_error(t) \/ driver_write_clear(t)
  \/ driver_write_lock(t) \/ driver_write_ctl(t) \/ driver_write_up(t)

\* Signals and failures, which may never come.
Upset(t) ==
  driver_open_fail(t) \/ driver_read_signal(t) \/ driver_write_nodown(t)

Thread(t) == ~Frozen /\ (UserCall(t) \/ CallStep(t) \/ Upset(t))

Handler ==
  (\E outcome \in Errnos : rpc_read_int_callback(outcome)) \/ rpc_read_int_complete

\* What the USB core starts, and what it goes on with once it has started.
CoreStart == rpc_probe \/ usb_unbind \/ rpc_pre_reset \/ rpc_suspend
CoreStep ==
  \/ rpc_probe_register \/ rpc_probe_fail
  \/ rpc_disconnect \/ rpc_disconnect_minor
  \/ rpc_disconnect_lock \/ rpc_disconnect_put
  \/ rpc_pre_reset_lock \/ rpc_post_reset \/ rpc_draw_down \/ rpc_resume

Next ==
  \/ \E t \in Threads : Thread(t)
  \/ usb_giveback \/ Handler \/ CoreStart \/ CoreStep

Spec == Init /\ [][Next]_vars

(***************************************************************************)
(* Fairness.  Kernel mutexes and semaphores queue their waiters, so a call *)
(* that can take its lock again and again gets it (strong fairness); the   *)
(* handler and the USB core run on; and the host controller gives an urb   *)
(* back once it is told to unlink it.  Nothing makes a program call the    *)
(* driver, a signal arrive, or the device answer: "IO may take forever".   *)
(***************************************************************************)
Fairness ==
  /\ \A t \in Threads : SF_vars(~Frozen /\ CallStep(t))
  /\ WF_vars(Unlinked /\ usb_giveback)
  /\ WF_vars(Handler)
  /\ SF_vars(CoreStep)

FairSpec == Spec /\ Fairness

-----------------------------------------------------------------------------
CountersOK ==
  /\ kref \in Nat /\ open_count \in Nat /\ pm_usage \in Nat
  /\ int_in_completion \in Nat /\ limit_sem \in Nat

FieldsOK ==
  /\ interface \in BOOLEAN /\ intfdata \in BOOLEAN /\ minor \in BOOLEAN
  /\ errors \in Errnos /\ int_in_filled \in BOOLEAN
  /\ ongoing_read \in BOOLEAN /\ unread \in BOOLEAN
  /\ io_mutex \in Threads \cup {Free, UsbCore}
  /\ err_lock \in Threads \cup {Free}
  /\ inflight \in BOOLEAN /\ handler \in {"idle", "run", "signal"}
  /\ core \in Cores

CallsOK ==
  /\ pc \in [Threads -> PCs]
  /\ nonblock \in [Threads -> BOOLEAN]
  /\ rv \in [Threads -> Errnos]

TypeOK == CountersOK /\ FieldsOK /\ CallsOK

(***************************************************************************)
(* No call works on a freed structure: from the moment driver_open has     *)
(* found the device until driver_close has dropped its reference, the      *)
(* structure is alive, whatever rpc_disconnect does meanwhile.             *)
(***************************************************************************)
CallsOnLiveDevice == \A t \in Threads : pc[t] # "closed" => kref > 0

(***************************************************************************)
(* The reference count is exact: one for the binding and one for each file,*)
(* so the structure is freed, once, when the last of them goes.            *)
(***************************************************************************)
RefCountExact ==
  kref = Cardinality(Holders) + (IF core = "gone" THEN 0 ELSE 1)

(***************************************************************************)
(* "this lock makes sure that we don't submit URBs to gone devices": no    *)
(* transfer of either kind is started after rpc_disconnect cleared         *)
(* dev->interface.                                                         *)
(***************************************************************************)
NoIoAfterDisconnect ==
  \A t \in Threads : pc[t] \in {"r_fill", "r_submit", "w_ctl"} => interface

(***************************************************************************)
(* While the port is reset no urb is queued, no handler runs and no control*)
(* message is under way ("we are sure no URBs are active").                *)
(***************************************************************************)
QuietDuringReset ==
  core = "resetting" =>
    ~inflight /\ handler = "idle" /\ \A t \in Threads : pc[t] \notin IoHeld

(***************************************************************************)
(* A suspended device has no urb queued, even when a nonblocking reader    *)
(* started one and closed the file; and a device with a control message    *)
(* under way is never suspended.                                           *)
(***************************************************************************)
QuietWhileSuspended ==
  core \in {"suspended", "asleep"} =>
    ~inflight /\ handler = "idle"
      /\ \A t \in Threads : pc[t] \notin {"r_submit", "w_ctl"}

(***************************************************************************)
(* A reader that sleeps in wait_for_completion is woken by somebody: a     *)
(* completion is there to be taken, or the urb is queued, or its handler   *)
(* has yet to call complete().                                             *)
(***************************************************************************)
WaiterNotStranded ==
  \A t \in Threads :
    pc[t] = "r_wait" => int_in_completion > 0 \/ inflight \/ handler # "idle"

(***************************************************************************)
(* Runtime power management is balanced: as long as the driver is bound    *)
(* the core's usage count is one exactly while the file is open somewhere. *)
(***************************************************************************)
PmBalanced ==
  interface => pm_usage = (IF open_count > 0 THEN 1 ELSE 0)

(***************************************************************************)
(* No path of driver_write loses a slot of limit_sem: what is free and what*)
(* is in use together never fall below WRITES_IN_FLIGHT.                   *)
(***************************************************************************)
SlotsNotLost == limit_sem + Cardinality(In(SlotHeld)) >= WritesInFlight

(***************************************************************************)
(* A report is handed to user space at most once: what driver_read copies  *)
(* was put there by a transfer that no earlier read has been served from.  *)
(***************************************************************************)
NoDuplicateReport ==
  \A t \in Threads : pc[t] = "r_data" /\ int_in_filled => unread

(***************************************************************************)
(* Who waits for what.  A signal or a failure may end some of these waits, *)
(* but nobody owes one.  A file that is open waits for nothing: a close    *)
(* that has to wait for io_mutex holds nothing meanwhile.                  *)
(***************************************************************************)
Parties == Threads \cup {UsbCore, Urb}

CoreAt(points) == IF core \in points THEN {UsbCore} ELSE {}

IoWaiters  == In({"o_lock", "r_lock", "w_lock"}) \cup CoreAt({"r_lock", "d_lock"})
ErrWaiters == In({"r_retry", "r_fill", "r_fail", "w_err"})
                \cup (IF handler = "run" THEN {Urb} ELSE {})

\* usb_autopm_get_interface, for a device that is going to sleep or asleep.
PmWaiters ==
  IF open_count = 0 /\ core \in {"s_kill", "suspended"} THEN In({"o_pm"}) ELSE {}

ReportWaiters == IF int_in_completion = 0 THEN In({"r_wait"}) ELSE {}
SlotWaiters   == IF limit_sem = 0 THEN In({"w_down"}) ELSE {}

\* The endpoint is flushed, or usb_kill_urb waits for urb and handler.
UrbWaiters == CoreAt((IF inflight THEN {"flush"} ELSE {})
                       \cup (IF UrbQuiet THEN {} ELSE Killing))

\* The parties of S wait for one another: none of them can go on before
\* another one has.  A slot may come from any of its holders, the write lock
\* of minor_rwsem needs every open to end.
Stuck(S) ==
  \A p \in S :
    \/ p \in IoWaiters /\ io_mutex \in S
    \/ p \in ErrWaiters /\ err_lock \in S
    \/ p \in PmWaiters /\ UsbCore \in S
    \/ p \in ReportWaiters /\ (UrbQuiet \/ Urb \in S)
    \/ p \in SlotWaiters /\ In(SlotHeld) \subseteq S
    \/ p \in UrbWaiters /\ Urb \in S
    \/ p \in CoreAt({"d_minor"}) /\ In(InOpen) \cap S # {}

(***************************************************************************)
(* No deadlock: however io_mutex, err_lock, limit_sem, minor_rwsem, the    *)
(* completion, runtime power management and usb_kill_urb are waited for,   *)
(* and although a reader sleeps with io_mutex held, no set of threads, USB *)
(* core and urb is ever left waiting for one another.                      *)
(***************************************************************************)
NoDeadlock == \A S \in SUBSET Parties : Stuck(S) => S = {}

(***************************************************************************)
(* kref_get and kref_put implement the lifetime RpcLifetime promises: the  *)
(* structure is freed exactly when the driver is unbound and the last file *)
(* is closed, in either order, and no file is opened on a device that is   *)
(* gone.                                                                   *)
(***************************************************************************)
Lifetime == INSTANCE RpcLifetime WITH
  Handles <- Threads, bound <- core # "gone", files <- Holders, live <- kref > 0
LifetimeSpec == Lifetime!Spec

(***************************************************************************)
(* What a healthy device does and the driver cannot force: it answers every*)
(* poll of its interrupt endpoint in the end, not for ever with an error.  *)
(***************************************************************************)
DeviceAnswers == WF_vars(usb_giveback) /\ SF_vars(rpc_read_int_callback("ok"))

(***************************************************************************)
(* If the device answers, every read returns, with data or an error,       *)
(* although a writer may take the error that ended the transfer the reader *)
(* waits for.                                                              *)
(***************************************************************************)
ReadReturns ==
  DeviceAnswers => \A t \in Readers : pc[t] = "r_lock" ~> pc[t] = "open"

(***************************************************************************)
(* A disconnect comes to its end, whether the device answers or not:       *)
(* neither an open that holds minor_rwsem nor a reader that sleeps with    *)
(* io_mutex held keeps it waiting for ever.                                *)
(***************************************************************************)
DisconnectEnds == core = "flush" ~> core = "gone"

(***************************************************************************)
(* A port reset gets io_mutex and gives it back.  One thing alone can keep *)
(* rpc_pre_reset waiting for ever: a read that never returns, because the  *)
(* device is silent or because a writer takes the error of each transfer;  *)
(* rpc_pre_reset takes io_mutex before it would draw the urb down.         *)
(***************************************************************************)
NeverReturns(t) == <>[](pc[t] \in InRead /\ io_mutex = t)
ResetEnds ==
  (core = "r_lock" ~> core = "bound") \/ \E t \in Readers : NeverReturns(t)

-----------------------------------------------------------------------------
(***************************************************************************)
(* The parts that make the invariants above inductive.                     *)
(***************************************************************************)

\* Each lock is held by the thread, or the reset, that is inside its region.
LocksExact ==
  /\ \A t \in Threads : io_mutex = t <=> pc[t] \in IoHeld
  /\ io_mutex = UsbCore <=> core \in {"r_kill", "resetting"}
  /\ \A t \in Threads : err_lock = t <=> pc[t] = "w_clear"

\* The minor number is there exactly between usb_register_dev and
\* usb_deregister_dev, and an open that is under way keeps it there.
MinorExact ==
  /\ minor <=> core \notin {"gone", "probing", "d_lock", "d_put"}
  /\ \A t \in Threads : pc[t] \in InOpen => minor

OpenCountExact == open_count = Cardinality(In(InFile))

\* dev->interface is set while the driver is bound, and kept set by io_mutex.
InterfaceExact ==
  /\ core # "gone" => (interface <=> core # "d_put")
  /\ \A t \in Threads : pc[t] \in IoHeld => interface

Inductive ==
  /\ TypeOK /\ LocksExact /\ MinorExact /\ InterfaceExact
  /\ RefCountExact /\ OpenCountExact /\ PmBalanced /\ SlotsNotLost

-----------------------------------------------------------------------------
(***************************************************************************)
(* What comments in rpcdrv.c say and the code does not keep.               *)
(***************************************************************************)

\* "if IO is under way, we must not touch things": usb_fill_int_urb is never
\* applied to an urb that is queued.
UrbLeftAlone == \A t \in Threads : pc[t] = "r_fill" => ~inflight

\* "any error is reported once": the error a reader is about to report and
\* clear has not been taken by a concurrent writer in between.
ErrorReportedOnce == \A t \in Threads : pc[t] = "r_clear" => errors # "ok"

\* "to preserve notifications about reset": a writer does not clear the
\* -EPIPE of rpc_post_reset unless it is the error it reports.
ResetNotificationKept ==
  \A t \in Threads : pc[t] = "w_clear" /\ errors = "EPIPE" => rv[t] = "EPIPE"

\* "limiting the number of writes in progress".
WritesLimited == Cardinality(In(SlotHeld)) <= WritesInFlight
=============================================================================
