---------------------------- MODULE ModuleThread ----------------------------
(***************************************************************************)
(* A QKD module: the worker thread, which takes keys from the incoming     *)
(* pipe, processes them and writes them to the outgoing pipe, against the  *)
(* main thread, which starts, pauses, resumes, terminates or disconnects   *)
(* it (src/lib/module/module.cpp, module_internal.cpp, connection.cpp).    *)
(*                                                                         *)
(* The two share the state, NEW to TERMINATED, behind a mutex: a single    *)
(* reading or writing is one step, checking and then setting it is two.    *)
(* The main thread wakes the worker out of a blocking call by SIGINT.      *)
(* Nothing in the sources installs a handler for it: the process is killed,*)
(* or, where the parent ignores SIGINT, nothing happens; only with a       *)
(* handler of the application does the call return EINTR.                  *)
(***************************************************************************)
EXTENDS Integers, Sequences, FiniteSets

CONSTANTS
    Calls,            \* the calls D-Bus clients and the engine make
    Dispositions,     \* what SIGINT may do: "kill", "ignore", "handle"
    TerminateAfter,   \* terminate_after, 0 is never
    PipeCap,          \* keys the outgoing pipe holds (high water mark)
    (* bounds of the exploration *)
    MaxKeys,          \* keys that arrive
    MaxCalls          \* calls of the main thread

ASSUME CallsAssumption ==
    Calls \subseteq {"run", "start", "pause", "resume", "terminate", "disconnect"}
ASSUME DispositionsAssumption == Dispositions \subseteq {"kill", "ignore", "handle"}
ASSUME BoundsAssumption ==
    TerminateAfter \in Nat /\ PipeCap \in Nat /\ MaxKeys \in Nat /\ MaxCalls \in Nat

VARIABLES
    state,    \* the module's state
    main,     \* the main thread: its call, and where it stands in it
    thread,   \* there is a worker thread that was not joined
    at,       \* where the worker stands
    back,     \* where it goes on after release()
    key,      \* the key in the worker's hands, 0 the null key
    void,     \* the connections were reset
    left,     \* keys left before the module terminates itself
    came,     \* keys 1 .. came have arrived in the incoming pipe
    taken,    \* keys 1 .. taken were read from it
    pipe,     \* keys in the outgoing pipe
    out,      \* keys ever written to it
    dropped,  \* keys the module decided not to forward
    sigint,   \* what SIGINT does to this process
    alive,    \* the process was not killed
    calls,    \* calls made (bound)
    cuts,     \* history: calls so far that end or interrupt the work on a key
    revived   \* history: READY or RUNNING was written over a dying state

control == <<state, main, thread, at, back, void, sigint, alive, calls, revived>>
keys == <<key, left, came, taken, pipe, out, dropped, cuts>>
vars == <<control, keys>>

Dying == {"TERMINATING", "TERMINATED"}
Idle == [call |-> "none", at |-> "idle"]

Init ==
    /\ state = "NEW" /\ main = Idle
    /\ thread = FALSE /\ at = "done" /\ back = "done"
    /\ key = 0 /\ void = FALSE /\ left = TerminateAfter
    /\ came = 0 /\ taken = 0 /\ pipe = <<>> /\ out = <<>> /\ dropped = {}
    /\ sigint \in Dispositions /\ alive = TRUE
    /\ calls = 0 /\ cuts = 0 /\ revived = FALSE

(* set_state() with one of the working states. *)
SetWorking(s) ==
    /\ state' = s
    /\ revived' = (revived \/ state \in Dying)

-----------------------------------------------------------------------------
(* The main thread: D-Bus calls and timers, one after the other.           *)

Begin(c, step) ==
    /\ main = Idle /\ calls < MaxCalls /\ c \in Calls
    /\ main' = [call |-> c, at |-> step]
    /\ calls' = calls + 1

(* run() without a thread; with one it does nothing. *)
Launch ==
    /\ ~thread
    /\ state' = "NEW" /\ thread' = TRUE /\ at' = "enter"

CallRun ==
    /\ Begin("run", "return") /\ Launch
    /\ UNCHANGED <<back, void, sigint, alive, revived, keys>>

CallStart ==
    /\ Begin("start", "started")
    /\ \/ Launch
       \/ thread /\ UNCHANGED <<state, thread, at>>
    /\ UNCHANGED <<back, void, sigint, alive, revived, keys>>

CallPause ==
    /\ state = "RUNNING" /\ Begin("pause", "set")
    /\ UNCHANGED <<state, thread, at, back, void, sigint, alive, revived, keys>>

CallResume ==
    /\ state = "READY" /\ Begin("resume", "set")
    /\ UNCHANGED <<state, thread, at, back, void, sigint, alive, revived, keys>>

CallTerminate ==
    /\ state \notin Dying /\ Begin("terminate", "mark")
    /\ cuts' = cuts + 1
    /\ UNCHANGED <<state, thread, at, back, void, sigint, alive, revived,
                   key, left, came, taken, pipe, out, dropped>>

(* engine_instance::disconnect: interrupt_worker() and join(). *)
CallDisconnect ==
    /\ Begin("disconnect", "interrupt")
    /\ cuts' = cuts + 1
    /\ UNCHANGED <<state, thread, at, back, void, sigint, alive, revived,
                   key, left, came, taken, pipe, out, dropped>>

(* delayed_start() has waited for the worker to leave NEW. *)
Started ==
    /\ main.at = "started" /\ state # "NEW"
    /\ main' = IF state = "READY" THEN [main EXCEPT !.at = "set"] ELSE Idle
    /\ UNCHANGED <<state, thread, at, back, void, sigint, alive, calls, revived, keys>>

(* The second half of pause() and resume(). *)
Set ==
    /\ main.at = "set"
    /\ SetWorking(IF main.call = "pause" THEN "READY" ELSE "RUNNING")
    /\ main' = Idle
    /\ UNCHANGED <<thread, at, back, void, sigint, alive, calls, keys>>

(* Faulty: the worker is interrupted and joined in its working state. *)
MarkNothing ==
    /\ main.at = "mark"
    /\ main' = [main EXCEPT !.at = "interrupt"]
    /\ UNCHANGED <<state, thread, at, back, void, sigint, alive, calls, revived, keys>>

Mark ==
    /\ main.at = "mark"
    /\ state' = "TERMINATING"
    /\ main' = [main EXCEPT !.at = "interrupt"]
    /\ UNCHANGED <<thread, at, back, void, sigint, alive, calls, revived, keys>>

(* The worker's blocking call returns EINTR.  A receipt from the peer fails *)
(* and with it the work on the key; a write is given up unless RUNNING; a  *)
(* read is tried again, as after its timeout.                              *)
Interrupted ==
    \/ /\ at = "recv"
       /\ key' = 0 /\ at' = "decided"
    \/ /\ at = "write" /\ state # "RUNNING"
       /\ key' = 0 /\ at' = "counting"

Interrupt ==
    /\ main.at = "interrupt"
    /\ main' = [main EXCEPT !.at = "join"]
    /\ \/ /\ thread /\ at # "done" /\ sigint = "kill"
          /\ alive' = FALSE /\ UNCHANGED <<at, key>>
       \/ /\ thread /\ sigint = "handle"
          /\ Interrupted /\ UNCHANGED alive
       \/ /\ thread /\ at # "done" => sigint # "kill"   \* no effect or before the worker blocks
          /\ UNCHANGED <<at, key, alive>>
    /\ UNCHANGED <<state, thread, back, void, sigint, calls, revived,
                   left, came, taken, pipe, out, dropped, cuts>>

Join ==
    /\ main.at = "join" /\ (~thread \/ at = "done")
    /\ thread' = FALSE /\ main' = Idle
    /\ UNCHANGED <<state, at, back, void, sigint, alive, calls, revived, keys>>

Return ==
    /\ main.at = "return" /\ main' = Idle
    /\ UNCHANGED <<state, thread, at, back, void, sigint, alive, calls, revived, keys>>

-----------------------------------------------------------------------------
(* The worker thread: thread() and work().                                 *)

Goes(to) ==
    /\ at' = to
    /\ UNCHANGED <<main, thread, void, sigint, alive, calls>>

(* The first statement sets READY whatever the state is. *)
Enter ==
    /\ at = "enter" /\ SetWorking("READY") /\ Goes("top")
    /\ UNCHANGED <<back, keys>>

(* Waits while READY: the states before taking a key, before and after     *)
(* processing it are all checked this way.                                 *)
Awake == state # "READY"

Top ==
    /\ at = "top" /\ Awake
    /\ Goes(IF state = "RUNNING" THEN "read" ELSE "wind")
    /\ UNCHANGED <<state, revived, back, keys>>

(* accept() refuses disclosed keys. *)
ReadKey ==
    /\ at = "read" /\ ~void /\ taken < came
    /\ taken' = taken + 1
    /\ \/ /\ key' = taken + 1 /\ Goes("accepted") /\ UNCHANGED dropped
       \/ /\ dropped' = dropped \cup {taken + 1} /\ Goes("top") /\ UNCHANGED key
    /\ UNCHANGED <<state, revived, back, left, came, pipe, out, cuts>>

(* Without connections read() yields the null key at once. *)
ReadNull ==
    /\ at = "read" /\ void
    /\ Goes("accepted") /\ UNCHANGED <<state, revived, back, keys>>

ReadTimeout ==
    /\ at = "read" /\ ~void /\ taken = came
    /\ Goes(IF state = "RUNNING" THEN "top" ELSE "wind")
    /\ UNCHANGED <<state, revived, back, keys>>

(* The key in hand is given up. *)
Dismissed ==
    /\ key' = 0
    /\ UNCHANGED <<left, came, taken, pipe, out, dropped, cuts>>

(* Faulty: a pause ends the work on the key. *)
AcceptedNoWait ==
    /\ at = "accepted"
    /\ \/ state = "RUNNING" /\ Goes("process") /\ UNCHANGED keys
       \/ state = "READY" /\ Goes("top") /\ Dismissed
       \/ state \in Dying /\ Goes("wind") /\ Dismissed
    /\ UNCHANGED <<state, revived, back>>

Accepted ==
    /\ at = "accepted" /\ Awake
    /\ \/ state = "RUNNING" /\ Goes("process") /\ UNCHANGED keys
       \/ state # "RUNNING" /\ Goes("wind") /\ Dismissed
    /\ UNCHANGED <<state, revived, back>>

(* process() of a derived class forwards the key or not, and may exchange  *)
(* messages with the peer on the way.                                      *)
ProcessDone ==
    /\ at = "process" /\ Goes("decided")
    /\ \/ UNCHANGED <<key, dropped>>
       \/ key' = 0 /\ dropped' = dropped \cup ({key} \ {0})
    /\ UNCHANGED <<state, revived, back, left, came, taken, pipe, out, cuts>>

(* Blocks without a timeout; on a reset connection it fails at once. *)
ProcessRecv ==
    /\ at = "process"
    /\ \/ ~void /\ Goes("recv") /\ UNCHANGED keys
       \/ void /\ Goes("decided") /\ Dismissed
    /\ UNCHANGED <<state, revived, back>>

(* terminate() called from process(), as sifting and error estimation do:  *)
(* the module is released and process() goes on.                           *)
ProcessTerminates ==
    /\ at = "process" /\ state \notin Dying
    /\ Goes("wind") /\ back' = "process"
    /\ cuts' = cuts + 1
    /\ UNCHANGED <<state, revived, key, left, came, taken, pipe, out, dropped>>

Decided ==
    /\ at = "decided" /\ Awake
    /\ \/ /\ state = "RUNNING"
          /\ Goes(IF key # 0 THEN "write" ELSE "counting") /\ UNCHANGED keys
       \/ state # "RUNNING" /\ Goes("wind") /\ Dismissed
    /\ UNCHANGED <<state, revived, back>>

(* Faulty: an interrupted write is taken for a failed one and repeated.    *)
WriteTwice ==
    /\ at = "write"
    /\ ~void /\ Len(pipe) < PipeCap
    /\ pipe' = Append(pipe, key) /\ out' = Append(out, key)
    /\ \/ Goes("counting") /\ key' = 0
       \/ Goes("write") /\ UNCHANGED key
    /\ UNCHANGED <<state, revived, back, left, came, taken, dropped, cuts>>

(* Tried for ever while the pipe is full; on reset connections the key is  *)
(* taken for written.                                                      *)
Write ==
    /\ at = "write" /\ Goes("counting") /\ key' = 0
    /\ \/ /\ ~void /\ Len(pipe) < PipeCap
          /\ pipe' = Append(pipe, key) /\ out' = Append(out, key)
       \/ void /\ UNCHANGED <<pipe, out>>
    /\ UNCHANGED <<state, revived, back, left, came, taken, dropped, cuts>>

(* Faulty: terminates when the counter was 0 before. *)
CountLate ==
    /\ at = "counting"
    /\ left' = IF left = 0 THEN 0 ELSE left - 1
    /\ \/ left = 0 /\ TerminateAfter > 0 /\ state \notin Dying /\ Goes("wind") /\ back' = "top"
       \/ ~(left = 0 /\ TerminateAfter > 0 /\ state \notin Dying) /\ Goes("top") /\ UNCHANGED back
    /\ UNCHANGED <<state, revived, key, came, taken, pipe, out, dropped, cuts>>

(* The last key counted terminates the module; the loop then goes on with  *)
(* the state it read before.                                               *)
Count ==
    /\ at = "counting"
    /\ left' = IF left = 0 THEN 0 ELSE left - 1
    /\ \/ left = 1 /\ state \notin Dying /\ Goes("wind") /\ back' = "top"
       \/ ~(left = 1 /\ state \notin Dying) /\ Goes("top") /\ UNCHANGED back
    /\ UNCHANGED <<state, revived, key, came, taken, pipe, out, dropped, cuts>>

(* release(): from terminate() on the worker's own thread and at the end   *)
(* of thread().                                                            *)
Wind ==
    /\ at = "wind" /\ state' = "TERMINATING" /\ Goes("release")
    /\ UNCHANGED <<revived, back, keys>>

Release ==
    /\ at = "release" /\ state' = "TERMINATED"
    /\ at' = back /\ back' = "done" /\ void' = TRUE
    /\ UNCHANGED <<main, thread, sigint, alive, calls, revived, keys>>

-----------------------------------------------------------------------------
(* The surroundings: the previous module, the next one, the peer.          *)

Arrive ==
    /\ came < MaxKeys /\ came' = came + 1
    /\ UNCHANGED <<control, key, left, taken, pipe, out, dropped, cuts>>

Drain ==
    /\ pipe # <<>> /\ pipe' = Tail(pipe)
    /\ UNCHANGED <<control, key, left, came, taken, out, dropped, cuts>>

(* A message of the peer: recv() refuses it in a dying state. *)
Answer ==
    /\ at = "recv"
    /\ \/ state \notin Dying /\ Goes("process") /\ UNCHANGED keys
       \/ state \in Dying /\ Goes("decided") /\ Dismissed
    /\ UNCHANGED <<state, revived, back>>

MainCall ==
    \/ CallRun \/ CallStart \/ CallPause \/ CallResume \/ CallTerminate \/ CallDisconnect
MainStep == Started \/ Set \/ Mark \/ Interrupt \/ Join \/ Return
Worker ==
    \/ Enter \/ Top \/ ReadKey \/ ReadNull \/ ReadTimeout \/ Accepted
    \/ ProcessDone \/ ProcessRecv \/ ProcessTerminates \/ Decided
    \/ Write \/ Count \/ Wind \/ Release
World == Arrive \/ Drain \/ Answer

Next == alive /\ (MainCall \/ MainStep \/ Worker \/ World)

(* Both threads are scheduled; neighbours, peer and callers owe nothing.   *)
Fairness == WF_vars(alive /\ MainStep) /\ WF_vars(alive /\ Worker)

Spec == Init /\ [][Next]_vars /\ Fairness

-----------------------------------------------------------------------------
Places == {"enter", "top", "read", "accepted", "process", "recv", "decided",
           "write", "counting", "wind", "release", "done"}

(* Type correctness of the two threads. *)
TypeOK ==
    /\ state \in {"NEW", "READY", "RUNNING"} \cup Dying
    /\ main \in [call : Calls \cup {"none"},
                 at : {"idle", "started", "set", "mark", "interrupt", "join", "return"}]
    /\ at \in Places /\ back \in {"done", "top", "process"}
    /\ thread \in BOOLEAN /\ void \in BOOLEAN /\ alive \in BOOLEAN /\ revived \in BOOLEAN
    /\ came \in 0 .. MaxKeys /\ taken \in 0 .. came /\ key \in 0 .. taken
    /\ left \in 0 .. TerminateAfter
    /\ out \in Seq(1 .. taken) /\ pipe \in Seq(1 .. taken) /\ dropped \subseteq 1 .. taken
    /\ sigint \in Dispositions /\ calls \in 0 .. MaxCalls
    /\ cuts \in Nat

Written == {out[i] : i \in DOMAIN out}
Missing == (1 .. taken) \ (Written \cup dropped \cup {key})

(* Pausing and resuming costs no key, however it meets the worker: a key   *)
(* taken from the pipe is written, turned down or in hand, but for one key *)
(* per call that terminates or interrupts the worker.                      *)
KeysKept == Cardinality(Missing) <= cuts

(* No key is written twice, turned down and written, or overtakes another, *)
(* whatever writes were interrupted.                                       *)
WrittenInOrder ==
    /\ \A i, j \in DOMAIN out : i < j => out[i] < out[j]
    /\ Written \cap dropped = {}
    /\ key \notin Written \cup dropped

(* The key that uses up terminate_after is the last one taken: the count   *)
(* cannot be passed by pauses, by a terminate() under way or by the loop   *)
(* that goes on after the module has terminated itself.                    *)
LastKeyIsLast ==
    [][TerminateAfter > 0 /\ left = 0 => taken' = taken]_vars

(* A call that must end: terminate() returns, unless its state was         *)
(* overwritten by READY or RUNNING, or the worker waits for ever for its   *)
(* peer or for room in the pipe.                                           *)
TerminateReturns ==
    \/ []<>(main.call # "terminate" \/ ~alive \/ revived)
    \/ <>[](at \in {"recv", "write"})

(* pause() "pauses current processing", resume() goes on: a module ends    *)
(* only when terminate() or disconnect() was called, by others or by its   *)
(* own process(), or terminate_after is used up.                           *)
EndsOnlyWhenTold == (state \in Dying) => (cuts > 0 \/ (TerminateAfter > 0 /\ left = 0))
=============================================================================
