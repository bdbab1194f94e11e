------------------------------ MODULE LibraryLog ------------------------------
(***************************************************************************)
(* The message that the library has been loaded: log_library_loaded and    *)
(* flush_pending_log (lib.rs), try_python_log and set_log_callback         *)
(* (python.rs), with threads of a program in C and of the Python           *)
(* interpreter in one process.  The interpreter (its lock, gil, and what   *)
(* the callback and its destructor do, which may be made to wait at any    *)
(* point and may call the library again) is external.                      *)
(***************************************************************************)
EXTENDS Naturals, FiniteSets

CONSTANTS
  CThread,        \* threads that call bm_library_init, in C or through ctypes
  PyThread,       \* threads of the interpreter
  NoThread,
  MaxLogCalls     \* bound: the calls that are made

VARIABLES
  libLogged,  \* LIB_LOGGED
  pendingLog, \* PENDING_LOG holds a message
  callback,   \* PY_LOG_CALLBACK holds a callback
  lock,       \* the thread that has PY_LOG_CALLBACK locked
  gil,        \* the thread that runs Python
  pc,         \* where each thread is
  imported,   \* the module: "no", "running", "yes"
  logged,     \* how often the message was logged
  within,     \* threads that called in again from Python run with the lock held
  overlap,    \* two calls were between the test and the store
  logCalls    \* counter for the bound MaxLogCalls

logVars == <<libLogged, pendingLog, callback, lock, gil, pc, imported, logged, within,
             overlap, logCalls>>

Thread == CThread \cup PyThread

ASSUME LogAssumption ==
  CThread \cap PyThread = {} /\ NoThread \notin Thread /\ MaxLogCalls \in Nat

LogInit ==
  /\ libLogged = FALSE /\ pendingLog = FALSE /\ callback = FALSE /\ overlap = FALSE
  /\ lock = NoThread /\ gil = NoThread /\ imported = "no"
  /\ pc = [t \in Thread |-> "out"]
  /\ logged = 0 /\ logCalls = 0 /\ within = {}

Goes(t, from, to) == pc[t] = from /\ pc' = [pc EXCEPT ![t] = to]
Without(holder, t) == IF holder = t THEN NoThread ELSE holder

(* Between the test of log_library_loaded and its store.                   *)
Between == {"attach", "lock", "call", "store"}

(* Where Python runs with the callback locked: in the callback, and in the *)
(* destructor of one that was replaced.                                    *)
InPython == {"call", "drop"}

(* The call is over: the guards are dropped, Python may run elsewhere.     *)
Returns(t, from) ==
  /\ Goes(t, from, "out")
  /\ lock' = Without(lock, t) /\ gil' = Without(gil, t)
  /\ imported' = IF imported = "running" /\ t \in PyThread THEN "yes" ELSE imported

Calls == logCalls < MaxLogCalls /\ logCalls' = logCalls + 1

-----------------------------------------------------------------------------
LibraryInit(t) ==
  /\ Calls /\ t \in CThread /\ Goes(t, "out", "test")
  /\ UNCHANGED <<libLogged, pendingLog, callback, lock, gil, imported, logged, within, overlap>>

(* The module initialisation, which the interpreter runs once.             *)
Import(t) ==
  /\ Calls /\ t \in PyThread /\ gil = NoThread /\ imported = "no"
  /\ Goes(t, "out", "test")
  /\ gil' = t /\ imported' = "running"
  /\ UNCHANGED <<libLogged, pendingLog, callback, lock, logged, within, overlap>>

(* Mutation of MustLog: no test.                                           *)
MustLogAlways == TRUE

MustLog == ~libLogged

(* log_library_loaded: tests the flag, sets it when the message is out.    *)
Test(t) ==
  /\ IF MustLog
     THEN /\ Goes(t, "test", "attach") /\ UNCHANGED <<lock, gil, imported>>
          /\ overlap' = (overlap \/ \E u \in Thread : pc[u] \in Between)
     ELSE Returns(t, "test") /\ UNCHANGED overlap
  /\ UNCHANGED <<libLogged, pendingLog, callback, logged, within, logCalls>>

(* try_python_log: Python::attach.                                         *)
Attach(t) ==
  /\ gil \in {NoThread, t}
  /\ Goes(t, "attach", "lock")
  /\ gil' = t
  /\ UNCHANGED <<libLogged, pendingLog, callback, lock, imported, logged, within, overlap, logCalls>>

(* Mutation of TryLog: only the callback counts.                           *)
TryLogCallback(ok) == ok

(* try_log: what the callback does not take goes to stderr.                *)
TryLog(ok) == TRUE

(* try_python_log returns ok and drops its guard, and leaves Python if it  *)
(* entered it.  A message that cannot be logged would be kept.             *)
Tried(t, from, ok) ==
  /\ lock' = NoThread
  /\ IF TryLog(ok)
     THEN /\ Goes(t, from, "store") /\ logged' = logged + 1
          /\ gil' = IF t \in CThread THEN NoThread ELSE gil
          /\ UNCHANGED <<pendingLog, imported>>
     ELSE /\ Goes(t, from, "out") /\ pendingLog' = TRUE /\ gil' = NoThread
          /\ imported' = IF imported = "running" /\ t \in PyThread THEN "yes" ELSE imported
          /\ UNCHANGED logged

(* The lock is taken, and kept while the callback runs.                    *)
Lock(t) ==
  /\ lock = NoThread
  /\ IF callback
     THEN /\ Goes(t, "lock", "call") /\ lock' = t
          /\ UNCHANGED <<pendingLog, gil, imported, logged>>
     ELSE Tried(t, "lock", FALSE)
  /\ UNCHANGED <<libLogged, callback, within, overlap, logCalls>>

CallbackReturns(t) ==
  /\ gil = t
  /\ \E ok \in BOOLEAN : Tried(t, "call", ok)
  /\ UNCHANGED <<libLogged, callback, within, overlap, logCalls>>

(* The interpreter lets another thread run, and this one again.            *)
PythonYields(t) ==
  /\ pc[t] \in InPython /\ gil = t
  /\ gil' = NoThread
  /\ UNCHANGED <<libLogged, pendingLog, callback, lock, pc, imported, logged, within,
                 overlap, logCalls>>

PythonResumes(t) ==
  /\ pc[t] \in InPython /\ gil = NoThread
  /\ gil' = t
  /\ UNCHANGED <<libLogged, pendingLog, callback, lock, pc, imported, logged, within,
                 overlap, logCalls>>

(* Python that runs with the lock held calls set_log_callback, or          *)
(* bm_library_init, which returns at once if the flag is set.              *)
PythonReenters(t) ==
  /\ gil = t
  /\ \E from \in InPython, to \in {"slot"} \cup (IF MustLog THEN {"attach"} ELSE {}) :
       /\ Goes(t, from, to)
       /\ overlap' = (overlap \/ to = "attach")
  /\ within' = within \cup {t}
  /\ UNCHANGED <<libLogged, pendingLog, callback, lock, gil, imported, logged, logCalls>>

Store(t) ==
  /\ Returns(t, "store")
  /\ libLogged' = TRUE
  /\ UNCHANGED <<pendingLog, callback, logged, within, overlap, logCalls>>

-----------------------------------------------------------------------------
(* set_log_callback, with Python running in its thread.                    *)
SetCallback(t) ==
  /\ Calls /\ t \in PyThread /\ gil = NoThread /\ imported = "yes"
  /\ Goes(t, "out", "slot")
  /\ gil' = t
  /\ UNCHANGED <<libLogged, pendingLog, callback, lock, imported, logged, within, overlap>>

(* The callback is replaced, and the old one goes.                         *)
Slot(t) ==
  /\ lock = NoThread /\ Goes(t, "slot", IF callback THEN "drop" ELSE "flush")
  /\ lock' = t
  /\ callback' \in BOOLEAN
  /\ UNCHANGED <<libLogged, pendingLog, gil, imported, logged, within, overlap, logCalls>>

Dropped(t) ==
  /\ gil = t /\ Goes(t, "drop", "flush")
  /\ UNCHANGED <<libLogged, pendingLog, callback, lock, gil, imported, logged, within,
                 overlap, logCalls>>

(* flush_pending_log, with PY_LOG_CALLBACK still locked.                   *)
Flush(t) ==
  /\ IF libLogged \/ ~pendingLog
     THEN Returns(t, "flush") /\ UNCHANGED pendingLog
     ELSE /\ Goes(t, "flush", "attach")
          /\ pendingLog' = FALSE /\ UNCHANGED <<lock, gil, imported>>
  /\ UNCHANGED <<libLogged, callback, logged, within, overlap, logCalls>>

LogNext ==
  \E t \in Thread :
    \/ LibraryInit(t) \/ Import(t) \/ Test(t) \/ Attach(t) \/ Lock(t)
    \/ CallbackReturns(t) \/ PythonYields(t) \/ PythonResumes(t) \/ PythonReenters(t)
    \/ Store(t) \/ SetCallback(t) \/ Slot(t) \/ Dropped(t) \/ Flush(t)

LogSpec == LogInit /\ [][LogNext]_logVars

-----------------------------------------------------------------------------
(* Properties.                                                             *)

(* Only Python that the library runs with PY_LOG_CALLBACK locked makes     *)
(* anyone wait for ever.  Logging never waits for a lock its own thread    *)
(* has, although set_log_callback flushes under the lock: try_log never    *)
(* fails, so nothing is pending, and who calls bm_library_init from a      *)
(* callback finds the flag set.  set_log_callback waits for its own lock   *)
(* only if the callback, or the destructor of the one it replaced, called  *)
(* it again (python.rs:49); any other thread that has the lock goes on,    *)
(* unless its Python let another thread run, which may then want the lock  *)
(* and keep the interpreter from it (try_python_log).                      *)
WaitsOnlyForPython ==
  /\ ~pendingLog
  /\ \A t \in Thread : pc[t] = "lock" => lock # t
  /\ \A t \in Thread : pc[t] = "slot" /\ lock = t => t \in within
  /\ lock # NoThread /\ lock \notin within =>
       /\ pc[lock] \in InPython \cup {"flush"}
       /\ gil = lock \/ pc[lock] \in InPython

(* The message is logged once, unless two calls of log_library_loaded are  *)
(* between its test and its store at the same time: then once for each.    *)
(* When the module has been imported, it has been logged.                  *)
LoggedOnce ==
  /\ logged > 1 => overlap
  /\ imported = "yes" => libLogged /\ logged > 0
=============================================================================
