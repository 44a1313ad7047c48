------------------------- MODULE ModuleThread_proofs -------------------------
(***************************************************************************)
(* Theorems about a module and its worker thread, for any number of keys   *)
(* and calls, any capacity of the pipe and any terminate_after.            *)
(***************************************************************************)
EXTENDS ModuleThread, FiniteSetTheorems, TLAPS

(* Where the worker stands: without a thread it is done, and a place to go *)
(* on at after release() is kept only while it is on its way there.  Only  *)
(* terminate() marks the state.                                            *)
Control ==
    /\ ~thread => at = "done"
    /\ at \notin {"wind", "release"} => back = "done"
    /\ main.at = "mark" => main.call = "terminate"

(* The key in the worker's hands is the last one taken.  There is none     *)
(* between two keys, nor on the way out unless process() goes on.          *)
InHand ==
    /\ at \in {"enter", "top", "read", "counting", "done"} => key = 0
    /\ at \in {"wind", "release"} /\ back # "process" => key = 0
    /\ at = "write" => key # 0
    /\ key # 0 => key = taken

(* Keys go out in the order they came, those turned down do not, and the   *)
(* one in hand is newer than all of them.                                  *)
Order ==
    /\ \A i, j \in DOMAIN out : i < j => out[i] < out[j]
    /\ \A i \in DOMAIN out : out[i] \notin dropped /\ (key # 0 => out[i] < key)
    /\ key \notin dropped

(* terminate() has marked the state and not returned.                      *)
Terminating == main.call = "terminate" /\ main.at \in {"interrupt", "join"}

(* With the count used up and the connections not reset yet the worker is  *)
(* on its way out: it releases the module itself, or meets the state that  *)
(* terminate() has marked, which nobody overwrites meanwhile.              *)
Counted ==
    TerminateAfter > 0 /\ left = 0 /\ ~void =>
        \/ at \in {"wind", "release"}
        \/ at = "top" /\ state \in Dying /\ Terminating

Marked ==
    state \in Dying /\ ~void => at \in {"release", "done"} \/ Terminating

(* READY and NEW are met only where no key is in hand: terminate() that    *)
(* was overwritten finds the worker waiting for its first key.             *)
Fresh == (state = "NEW") => (at \in {"enter", "done"})
Struck ==
    main.at = "interrupt" =>
        \/ main.call = "disconnect"
        \/ main.call = "terminate" /\ (state \in Dying \/ (at = "top" /\ state = "READY"))

(* Every call that ends the work on a key is counted when it is made and   *)
(* may cost its key later: it has not marked or struck yet, or the worker  *)
(* holds, or is about to take, a key that the dying module will give up.   *)
Pending ==
    IF main.at = "mark" \/ (main.at = "interrupt" /\ main.call = "disconnect") THEN 1 ELSE 0
Doomed ==
    IF /\ key # 0 \/ (at = "read" /\ ~void)
       /\ state \in Dying \/ void \/ (at \in {"wind", "release"} /\ back = "process")
    THEN 1 ELSE 0
Owed == Cardinality(Missing) + Pending + Doomed <= cuts

IInv ==
    /\ TypeOK /\ Control /\ InHand /\ Order /\ Counted /\ Marked
    /\ Fresh /\ Struck /\ Owed

(* Sequences over 1 .. m.                                                  *)
LEMMA SeqGrows ==
    ASSUME NEW m \in Nat, NEW s \in Seq(1 .. m)
    PROVE  s \in Seq(1 .. m + 1)
OBVIOUS

(* Appending an element of S to a sequence over S. *)
LEMMA SeqAppends ==
    ASSUME NEW S, NEW s \in Seq(S), NEW x \in S
    PROVE  Append(s, x) \in Seq(S)
OBVIOUS

(* The tail of a sequence over S is one. *)
LEMMA SeqTail ==
    ASSUME NEW S, NEW s \in Seq(S), s # <<>>
    PROVE  Tail(s) \in Seq(S)
OBVIOUS

(* Every step keeps the type.                                              *)
LEMMA TypeStep == ASSUME TypeOK, Control, InHand, Next PROVE TypeOK'
<1> USE CallsAssumption, DispositionsAssumption, BoundsAssumption DEF Dying, Idle, Places
<1>0. taken \in Nat /\ came \in Nat /\ key \in Nat /\ (key # 0 => key \in 1 .. taken)
  BY DEF TypeOK
<1>CallRun. CASE CallRun
  BY <1>CallRun DEF CallRun, Begin, Launch, TypeOK, control, keys
<1>CallStart. CASE CallStart
  <2>1. CASE Launch
    BY <1>CallStart, <2>1 DEF CallStart, Begin, Launch, TypeOK, control, keys
  <2>2. CASE UNCHANGED <<state, thread, at>>
    BY <1>CallStart, <2>2 DEF CallStart, Begin, TypeOK, control, keys
  <2> QED
    BY <1>CallStart, <2>1, <2>2 DEF CallStart
<1>CallPause. CASE CallPause
  BY <1>CallPause DEF CallPause, Begin, TypeOK, control, keys
<1>CallResume. CASE CallResume
  BY <1>CallResume DEF CallResume, Begin, TypeOK, control, keys
<1>CallTerminate. CASE CallTerminate
  BY <1>CallTerminate DEF CallTerminate, Begin, TypeOK, control, keys
<1>CallDisconnect. CASE CallDisconnect
  BY <1>CallDisconnect DEF CallDisconnect, Begin, TypeOK, control, keys
<1>Started. CASE Started
  BY <1>Started DEF Started, TypeOK, control, keys
<1>Set. CASE Set
  BY <1>Set DEF Set, SetWorking, TypeOK, control, keys
<1>Mark. CASE Mark
  BY <1>Mark DEF Mark, TypeOK, control, keys
<1>Interrupt. CASE Interrupt
  <2>1. /\ main' = [main EXCEPT !.at = "join"]
        /\ UNCHANGED <<state, thread, back, void, sigint, calls, revived,
                       left, came, taken, pipe, out, dropped, cuts>>
    BY <1>Interrupt DEF Interrupt
  <2>2. at' \in Places /\ key' \in {0, key}
    BY <1>Interrupt DEF Interrupt, Interrupted, TypeOK
  <2>3. alive' \in BOOLEAN
    <3>1. alive' = FALSE \/ alive' = alive
      BY <1>Interrupt DEF Interrupt
    <3> QED
      BY <3>1 DEF TypeOK
  <2>4. main' \in [call : Calls \cup {"none"},
                  at : {"idle", "started", "set", "mark", "interrupt", "join", "return"}]
    BY <2>1 DEF TypeOK
  <2>5. /\ came' \in 0 .. MaxKeys /\ taken' \in 0 .. came' /\ key' \in 0 .. taken'
        /\ left' \in 0 .. TerminateAfter /\ dropped' \subseteq 1 .. taken'
        /\ out' \in Seq(1 .. taken') /\ pipe' \in Seq(1 .. taken')
    BY <1>0, <2>1, <2>2 DEF TypeOK
  <2>6. thread' \in BOOLEAN /\ void' \in BOOLEAN /\ revived' \in BOOLEAN
    BY <2>1 DEF TypeOK
  <2> QED
    BY <2>1, <2>2, <2>3, <2>4, <2>5, <2>6 DEF TypeOK
<1>Join. CASE Join
  <2>1. /\ thread' = FALSE /\ main' = Idle
        /\ UNCHANGED <<state, at, back, void, sigint, alive, calls, revived, key, left, came,
                       taken, pipe, out, dropped, cuts>>
    BY <1>Join DEF Join, keys
  <2>2. main' \in [call : Calls \cup {"none"},
                  at : {"idle", "started", "set", "mark", "interrupt", "join", "return"}]
    BY ONLY <2>1 DEF Idle
  <2>3. /\ came' \in 0 .. MaxKeys /\ taken' \in 0 .. came' /\ key' \in 0 .. taken'
        /\ left' \in 0 .. TerminateAfter /\ dropped' \subseteq 1 .. taken'
        /\ out' \in Seq(1 .. taken') /\ pipe' \in Seq(1 .. taken')
    BY ONLY TypeOK, <2>1 DEF TypeOK
  <2>4. /\ state' \in {"NEW", "READY", "RUNNING"} \cup Dying
        /\ at' \in Places /\ back' \in {"done", "top", "process"}
        /\ thread' \in BOOLEAN /\ void' \in BOOLEAN /\ alive' \in BOOLEAN
        /\ revived' \in BOOLEAN /\ sigint' \in Dispositions /\ calls' \in 0 .. MaxCalls
        /\ cuts' \in Nat
    BY ONLY TypeOK, <2>1 DEF TypeOK
  <2> QED
    BY ONLY <2>2, <2>3, <2>4 DEF TypeOK
<1>Return. CASE Return
  <2>1. /\ main' = Idle
        /\ UNCHANGED <<state, thread, at, back, void, sigint, alive, calls, revived, key, left,
                       came, taken, pipe, out, dropped, cuts>>
    BY <1>Return DEF Return, keys
  <2>2. main' \in [call : Calls \cup {"none"},
                  at : {"idle", "started", "set", "mark", "interrupt", "join", "return"}]
    BY ONLY <2>1 DEF Idle
  <2>3. /\ came' \in 0 .. MaxKeys /\ taken' \in 0 .. came' /\ key' \in 0 .. taken'
        /\ left' \in 0 .. TerminateAfter /\ dropped' \subseteq 1 .. taken'
        /\ out' \in Seq(1 .. taken') /\ pipe' \in Seq(1 .. taken')
    BY ONLY TypeOK, <2>1 DEF TypeOK
  <2>4. /\ state' \in {"NEW", "READY", "RUNNING"} \cup Dying
        /\ at' \in Places /\ back' \in {"done", "top", "process"}
        /\ thread' \in BOOLEAN /\ void' \in BOOLEAN /\ alive' \in BOOLEAN
        /\ revived' \in BOOLEAN /\ sigint' \in Dispositions /\ calls' \in 0 .. MaxCalls
        /\ cuts' \in Nat
    BY ONLY TypeOK, <2>1 DEF TypeOK
  <2> QED
    BY ONLY <2>2, <2>3, <2>4 DEF TypeOK
<1>Enter. CASE Enter
  BY <1>Enter DEF Enter, SetWorking, Goes, TypeOK, control, keys
<1>Top. CASE Top
  BY <1>Top DEF Top, Awake, Goes, TypeOK, control, keys
<1>ReadNull. CASE ReadNull
  BY <1>ReadNull DEF ReadNull, Goes, TypeOK, control, keys
<1>ReadTimeout. CASE ReadTimeout
  BY <1>ReadTimeout DEF ReadTimeout, Goes, TypeOK, control, keys
<1>Accepted. CASE Accepted
  <2>1. at' \in Places
        /\ UNCHANGED <<main, thread, void, sigint, alive, calls, state, revived, back>>
    BY <1>Accepted DEF Accepted, Goes
  <2>2. key' \in {0, key} /\ UNCHANGED <<left, came, taken, pipe, out, dropped, cuts>>
    BY <1>Accepted DEF Accepted, Dismissed, keys
  <2> QED
    BY <1>0, <2>1, <2>2 DEF TypeOK
<1>ProcessRecv. CASE ProcessRecv
  <2>1. at' \in Places
        /\ UNCHANGED <<main, thread, void, sigint, alive, calls, state, revived, back>>
    BY <1>ProcessRecv DEF ProcessRecv, Goes
  <2>2. key' \in {0, key} /\ UNCHANGED <<left, came, taken, pipe, out, dropped, cuts>>
    BY <1>ProcessRecv DEF ProcessRecv, Dismissed, keys
  <2> QED
    BY <1>0, <2>1, <2>2 DEF TypeOK
<1>ProcessTerminates. CASE ProcessTerminates
  BY <1>ProcessTerminates DEF ProcessTerminates, Goes, TypeOK, control, keys
<1>Decided. CASE Decided
  <2>1. at' \in Places
        /\ UNCHANGED <<main, thread, void, sigint, alive, calls, state, revived, back>>
    BY <1>Decided DEF Decided, Goes
  <2>2. key' \in {0, key} /\ UNCHANGED <<left, came, taken, pipe, out, dropped, cuts>>
    BY <1>Decided DEF Decided, Dismissed, keys
  <2> QED
    BY <1>0, <2>1, <2>2 DEF TypeOK
<1>Count. CASE Count
  BY <1>Count DEF Count, Goes, TypeOK, control, keys
<1>Wind. CASE Wind
  BY <1>Wind DEF Wind, Goes, TypeOK, control, keys
<1>Release. CASE Release
  BY <1>Release DEF Release, TypeOK, control, keys
<1>Arrive. CASE Arrive
  BY <1>Arrive DEF Arrive, TypeOK, control, keys
<1>Answer. CASE Answer
  <2>1. at' \in Places
        /\ UNCHANGED <<main, thread, void, sigint, alive, calls, state, revived, back>>
    BY <1>Answer DEF Answer, Goes
  <2>2. key' \in {0, key} /\ UNCHANGED <<left, came, taken, pipe, out, dropped, cuts>>
    BY <1>Answer DEF Answer, Dismissed, keys
  <2> QED
    BY <1>0, <2>1, <2>2 DEF TypeOK
<1>4. CASE ReadKey
  <2>1. taken + 1 \in 0 .. came /\ out \in Seq(1 .. taken + 1) /\ pipe \in Seq(1 .. taken + 1)
    BY <1>4, SeqGrows, <1>0 DEF ReadKey, TypeOK
  <2>2. dropped' \subseteq 1 .. taken + 1
    <3>1. 1 .. taken \subseteq 1 .. taken + 1 /\ taken + 1 \in 1 .. taken + 1
      BY <1>0
    <3>2. dropped' \subseteq dropped \cup {taken + 1} /\ dropped \subseteq 1 .. taken
      BY <1>4 DEF ReadKey, TypeOK
    <3> QED
      BY <3>1, <3>2
  <2> QED
    BY <1>4, <1>0, <2>1, <2>2 DEF TypeOK, ReadKey, Goes, control, keys
<1>5. CASE ProcessDone
  <2>1. dropped' \subseteq 1 .. taken
    BY <1>0, <1>5 DEF TypeOK, ProcessDone
  <2> QED
    BY <1>5, <2>1 DEF TypeOK, ProcessDone, Goes, control, keys
<1>6. CASE Write
  <2>1. key \in 1 .. taken
    BY <1>6, <1>0 DEF Write, InHand
  <2>2. Append(pipe, key) \in Seq(1 .. taken) /\ Append(out, key) \in Seq(1 .. taken)
    BY <2>1, SeqAppends DEF TypeOK
  <2>3. taken' = taken /\ pipe' \in Seq(1 .. taken) /\ out' \in Seq(1 .. taken)
    BY <1>6, <2>2 DEF TypeOK, Write
  <2>4. at' = "counting" /\ key' = 0
        /\ UNCHANGED <<main, thread, void, sigint, alive, calls, state, revived, back,
                       left, came, dropped, cuts>>
    BY <1>6 DEF Write, Goes
  <2> QED
    BY <2>3, <2>4, <1>0 DEF TypeOK
<1>7. CASE Drain
  <2>1. pipe' \in Seq(1 .. taken) /\ taken' = taken
    BY <1>7, SeqTail DEF Drain, TypeOK
  <2> QED
    BY <1>7, <2>1 DEF Drain, TypeOK, control, keys
<1> QED
  BY <1>CallRun, <1>CallStart, <1>CallPause, <1>CallResume, <1>CallTerminate,
     <1>CallDisconnect, <1>Started, <1>Set, <1>Mark, <1>Interrupt, <1>Join, <1>Return,
     <1>Enter, <1>Top, <1>ReadNull, <1>ReadTimeout, <1>Accepted, <1>ProcessRecv,
     <1>ProcessTerminates, <1>Decided, <1>Count, <1>Wind, <1>Release, <1>Arrive, <1>Answer,
     <1>4, <1>5, <1>6, <1>7
     DEF Next, MainCall, MainStep, Worker, World

(* Every step keeps the place of the worker and its key in order.          *)
LEMMA PlaceStep == ASSUME TypeOK, Control, InHand, Next PROVE Control' /\ InHand'
<1> USE DEF Dying, Idle, Places
<1>1. CASE MainCall
  BY <1>1 DEF MainCall, CallRun, CallStart, CallPause, CallResume, CallTerminate,
              CallDisconnect, Begin, Launch, TypeOK, Control, InHand, control, keys
<1>2. CASE MainStep
  BY <1>2 DEF MainStep, Started, Set, SetWorking, Mark, Interrupt, Interrupted, Join,
              Return, TypeOK, Control, InHand, control, keys
<1>3. CASE Worker
  BY <1>3 DEF Worker, Enter, SetWorking, Top, Awake, ReadKey, ReadNull, ReadTimeout,
     Accepted,
              ProcessDone, ProcessRecv, ProcessTerminates, Decided, Write, Count, Wind, Release,
              Goes, Dismissed, TypeOK, Control, InHand, control, keys
<1>4. CASE World
  BY <1>4 DEF World, Arrive, Drain, Answer, Goes, Dismissed, TypeOK, Control, InHand,
              control, keys
<1> QED
  BY <1>1, <1>2, <1>3, <1>4 DEF Next

(* Every step keeps the order of the keys.                                 *)
LEMMA OrderStep == ASSUME TypeOK, InHand, Order, Next PROVE Order'
<1>0. /\ out \in Seq(1 .. taken) /\ dropped \subseteq 1 .. taken
      /\ taken \in Nat /\ key \in 0 .. taken
  BY DEF TypeOK
<1>1. CASE Write
  <2>1. CASE void
    BY <1>1, <2>1, <1>0 DEF Write, Order
  <2>2. CASE ~void
    <3>1. /\ out' = Append(out, key) /\ key' = 0 /\ dropped' = dropped /\ key # 0
      BY <1>1, <2>2 DEF Write, InHand
    <3>2. /\ DOMAIN out' = 1 .. Len(out) + 1 /\ Len(out) \in Nat
          /\ \A i \in 1 .. Len(out) : out'[i] = out[i] /\ out[i] \in 1 .. taken
          /\ out'[Len(out) + 1] = key /\ DOMAIN out = 1 .. Len(out)
      BY <3>1, <1>0
    <3> QED
      BY <3>1, <3>2, <1>0 DEF Order
  <2> QED
    BY <2>1, <2>2
<1>2. CASE ReadKey
  <2>1. \A i \in DOMAIN out : out[i] \in 1 .. taken
    BY <1>0
  <2>2. key = 0 /\ out' = out /\ dropped' \subseteq dropped \cup {taken + 1}
        /\ ((key' = taken + 1 /\ dropped' = dropped) \/ key' = 0)
    BY <1>2 DEF ReadKey, InHand
  <2> QED
    BY <2>1, <2>2, <1>0 DEF Order
<1>3. CASE ProcessDone
  BY <1>3, <1>0 DEF ProcessDone, Order
<1>4. CASE key' \in {0, key} /\ UNCHANGED <<out, dropped>>
  BY <1>4, <1>0 DEF Order
<1>5. CASE MainCall \/ MainStep \/ World
  <2>1. key' \in {0, key} /\ UNCHANGED <<out, dropped>>
    BY <1>5 DEF MainCall, CallRun, CallStart, CallPause, CallResume, CallTerminate,
              CallDisconnect, MainStep, Started, Set, Mark, Interrupt, Interrupted, Join,
              Return, World, Arrive, Drain, Answer, Dismissed, keys
  <2> QED
    BY <2>1, <1>4
<1>6. CASE Worker /\ ~(Write \/ ReadKey \/ ProcessDone)
  <2>1. key' \in {0, key} /\ UNCHANGED <<out, dropped>>
    BY <1>6 DEF Worker, Enter, Top, ReadNull, ReadTimeout, Accepted, ProcessRecv,
              ProcessTerminates, Decided, Count, Wind, Release, Dismissed, keys
  <2> QED
    BY <2>1, <1>4
<1> QED
  BY <1>1, <1>2, <1>3, <1>5, <1>6 DEF Next, Worker

(* Every step keeps the worker on its way out once the count is used up.   *)
LEMMA CountStep ==
    ASSUME TypeOK, Control, Counted, Marked, Next PROVE Counted' /\ Marked'
<1> USE BoundsAssumption DEF Dying, Idle, Places, Terminating
<1>CallRun. CASE CallRun
  BY <1>CallRun DEF CallRun, Begin, Launch, TypeOK, Control, Counted, Marked, control, keys
<1>CallStart. CASE CallStart
  BY <1>CallStart DEF CallStart, Begin, Launch, TypeOK, Control, Counted, Marked, control,
     keys
<1>CallPause. CASE CallPause
  BY <1>CallPause DEF CallPause, Begin, TypeOK, Control, Counted, Marked, control, keys
<1>CallResume. CASE CallResume
  BY <1>CallResume DEF CallResume, Begin, TypeOK, Control, Counted, Marked, control, keys
<1>CallTerminate. CASE CallTerminate
  BY <1>CallTerminate DEF CallTerminate, Begin, TypeOK, Control, Counted, Marked, control,
     keys
<1>CallDisconnect. CASE CallDisconnect
  BY <1>CallDisconnect DEF CallDisconnect, Begin, TypeOK, Control, Counted, Marked,
     control, keys
<1>Started. CASE Started
  BY <1>Started DEF Started, TypeOK, Control, Counted, Marked, control, keys
<1>Set. CASE Set
  BY <1>Set DEF Set, SetWorking, TypeOK, Control, Counted, Marked, control, keys
<1>Mark. CASE Mark
  BY <1>Mark DEF Mark, TypeOK, Control, Counted, Marked, control, keys
<1>Interrupt. CASE Interrupt
  BY <1>Interrupt DEF Interrupt, Interrupted, TypeOK, Control, Counted, Marked, control,
     keys
<1>Join. CASE Join
  BY <1>Join DEF Join, TypeOK, Control, Counted, Marked, control, keys
<1>Return. CASE Return
  BY <1>Return DEF Return, TypeOK, Control, Counted, Marked, control, keys
<1>Enter. CASE Enter
  BY <1>Enter DEF Enter, SetWorking, Goes, TypeOK, Control, Counted, Marked, control, keys
<1>Top. CASE Top
  BY <1>Top DEF Top, Awake, Goes, TypeOK, Control, Counted, Marked, control, keys
<1>ReadNull. CASE ReadNull
  BY <1>ReadNull DEF ReadNull, Goes, TypeOK, Control, Counted, Marked, control, keys
<1>ReadTimeout. CASE ReadTimeout
  BY <1>ReadTimeout DEF ReadTimeout, Goes, TypeOK, Control, Counted, Marked, control, keys
<1>Accepted. CASE Accepted
  BY <1>Accepted DEF Accepted, Awake, Goes, Dismissed, TypeOK, Control, Counted, Marked,
     control, keys
<1>ProcessRecv. CASE ProcessRecv
  BY <1>ProcessRecv DEF ProcessRecv, Goes, Dismissed, TypeOK, Control, Counted, Marked,
     control, keys
<1>ProcessTerminates. CASE ProcessTerminates
  BY <1>ProcessTerminates DEF ProcessTerminates, Goes, TypeOK, Control, Counted, Marked,
     control, keys
<1>Decided. CASE Decided
  BY <1>Decided DEF Decided, Goes, Dismissed, TypeOK, Control, Counted, Marked, control,
     keys
<1>Count. CASE Count
  BY <1>Count DEF Count, Goes, TypeOK, Control, Counted, Marked, control, keys
<1>Wind. CASE Wind
  BY <1>Wind DEF Wind, Goes, TypeOK, Control, Counted, Marked, control, keys
<1>Release. CASE Release
  BY <1>Release DEF Release, TypeOK, Control, Counted, Marked, control, keys
<1>Arrive. CASE Arrive
  BY <1>Arrive DEF Arrive, TypeOK, Control, Counted, Marked, control, keys
<1>Answer. CASE Answer
  BY <1>Answer DEF Answer, Goes, Dismissed, TypeOK, Control, Counted, Marked, control, keys
<1>ReadKey. CASE ReadKey
  BY <1>ReadKey DEF ReadKey, Goes, TypeOK, Control, Counted, Marked, control, keys
<1>ProcessDone. CASE ProcessDone
  BY <1>ProcessDone DEF ProcessDone, Goes, TypeOK, Control, Counted, Marked, control, keys
<1>Write. CASE Write
  BY <1>Write DEF Write, Goes, TypeOK, Control, Counted, Marked, control, keys
<1>Drain. CASE Drain
  BY <1>Drain DEF Drain, TypeOK, Control, Counted, Marked, control, keys
<1> QED
  BY <1>CallRun, <1>CallStart, <1>CallPause, <1>CallResume, <1>CallTerminate,
     <1>CallDisconnect, <1>Started, <1>Set, <1>Mark, <1>Interrupt, <1>Join, <1>Return,
     <1>Enter, <1>Top, <1>ReadNull, <1>ReadTimeout, <1>Accepted, <1>ProcessRecv,
     <1>ProcessTerminates, <1>Decided, <1>Count, <1>Wind, <1>Release, <1>Arrive, <1>Answer,
     <1>ReadKey, <1>ProcessDone, <1>Write, <1>Drain
     DEF Next, MainCall, MainStep, Worker, World

(* Every step keeps READY and NEW away from a key in hand.                 *)
LEMMA FreshStep ==
    ASSUME TypeOK, Control, InHand, Fresh, Struck, Next PROVE Fresh' /\ Struck'
<1> USE DEF Dying, Idle, Places
<1>CallRun. CASE CallRun
  BY <1>CallRun DEF CallRun, Begin, Launch, TypeOK, Control, InHand, Fresh,
     Struck, control, keys
<1>CallStart. CASE CallStart
  BY <1>CallStart DEF CallStart, Begin, Launch, TypeOK, Control, InHand, Fresh,
     Struck, control, keys
<1>CallPause. CASE CallPause
  BY <1>CallPause DEF CallPause, Begin, TypeOK, Control, InHand, Fresh,
     Struck, control, keys
<1>CallResume. CASE CallResume
  BY <1>CallResume DEF CallResume, Begin, TypeOK, Control, InHand, Fresh,
     Struck, control, keys
<1>CallTerminate. CASE CallTerminate
  BY <1>CallTerminate DEF CallTerminate, Begin, TypeOK, Control, InHand, Fresh,
     Struck, control, keys
<1>CallDisconnect. CASE CallDisconnect
  BY <1>CallDisconnect DEF CallDisconnect, Begin, TypeOK, Control, InHand, Fresh,
     Struck, control, keys
<1>Started. CASE Started
  BY <1>Started DEF Started, TypeOK, Control, InHand, Fresh,
     Struck, control, keys
<1>Set. CASE Set
  BY <1>Set DEF Set, SetWorking, TypeOK, Control, InHand, Fresh,
     Struck, control, keys
<1>Mark. CASE Mark
  BY <1>Mark DEF Mark, TypeOK, Control, InHand, Fresh,
     Struck, control, keys
<1>Interrupt. CASE Interrupt
  BY <1>Interrupt DEF Interrupt, Interrupted, TypeOK, Control, InHand, Fresh,
     Struck, control, keys
<1>Join. CASE Join
  BY <1>Join DEF Join, TypeOK, Control, InHand, Fresh,
     Struck, control, keys
<1>Return. CASE Return
  BY <1>Return DEF Return, TypeOK, Control, InHand, Fresh,
     Struck, control, keys
<1>Enter. CASE Enter
  BY <1>Enter DEF Enter, SetWorking, Goes, TypeOK, Control, InHand, Fresh,
     Struck, control, keys
<1>Top. CASE Top
  BY <1>Top DEF Top, Awake, Goes, TypeOK, Control, InHand, Fresh,
     Struck, control, keys
<1>ReadKey. CASE ReadKey
  BY <1>ReadKey DEF ReadKey, Goes, TypeOK, Control, InHand, Fresh,
     Struck, control, keys
<1>ReadNull. CASE ReadNull
  BY <1>ReadNull DEF ReadNull, Goes, TypeOK, Control, InHand, Fresh,
     Struck, control, keys
<1>ReadTimeout. CASE ReadTimeout
  BY <1>ReadTimeout DEF ReadTimeout, Goes, TypeOK, Control, InHand, Fresh,
     Struck, control, keys
<1>Accepted. CASE Accepted
  BY <1>Accepted DEF Accepted, Awake, Goes, Dismissed, TypeOK, Control, InHand, Fresh,
     Struck, control, keys
<1>ProcessDone. CASE ProcessDone
  BY <1>ProcessDone DEF ProcessDone, Goes, TypeOK, Control, InHand, Fresh,
     Struck, control, keys
<1>ProcessRecv. CASE ProcessRecv
  BY <1>ProcessRecv DEF ProcessRecv, Goes, Dismissed, TypeOK, Control, InHand, Fresh,
     Struck, control, keys
<1>ProcessTerminates. CASE ProcessTerminates
  BY <1>ProcessTerminates DEF ProcessTerminates, Goes, TypeOK, Control, InHand, Fresh,
     Struck, control, keys
<1>Decided. CASE Decided
  BY <1>Decided DEF Decided, Awake, Goes, Dismissed, TypeOK, Control, InHand, Fresh,
     Struck, control, keys
<1>Write. CASE Write
  BY <1>Write DEF Write, Goes, TypeOK, Control, InHand, Fresh,
     Struck, control, keys
<1>Count. CASE Count
  BY <1>Count DEF Count, Goes, TypeOK, Control, InHand, Fresh,
     Struck, control, keys
<1>Wind. CASE Wind
  BY <1>Wind DEF Wind, Goes, TypeOK, Control, InHand, Fresh,
     Struck, control, keys
<1>Release. CASE Release
  BY <1>Release DEF Release, TypeOK, Control, InHand, Fresh,
     Struck, control, keys
<1>Arrive. CASE Arrive
  BY <1>Arrive DEF Arrive, TypeOK, Control, InHand, Fresh,
     Struck, control, keys
<1>Drain. CASE Drain
  BY <1>Drain DEF Drain, TypeOK, Control, InHand, Fresh,
     Struck, control, keys
<1>Answer. CASE Answer
  BY <1>Answer DEF Answer, Goes, Dismissed, TypeOK, Control, InHand, Fresh,
     Struck, control, keys
<1> QED
  BY <1>CallRun, <1>CallStart, <1>CallPause, <1>CallResume, <1>CallTerminate,
     <1>CallDisconnect, <1>Started, <1>Set, <1>Mark, <1>Interrupt, <1>Join, <1>Return,
     <1>Enter, <1>Top, <1>ReadKey, <1>ReadNull, <1>ReadTimeout, <1>Accepted, <1>ProcessDone,
     <1>ProcessRecv, <1>ProcessTerminates, <1>Decided, <1>Write, <1>Count, <1>Wind,
     <1>Release, <1>Arrive, <1>Drain, <1>Answer
     DEF Next, MainCall, MainStep, Worker, World

(* A key is missed when it leaves the worker's hands and goes nowhere.      *)
GivesUp == IF key # 0 /\ key' = 0 /\ UNCHANGED <<out, dropped>> THEN 1 ELSE 0

(* Every step that gives up a key is owed it, or adds to what is owed.     *)
LEMMA DebtStep ==
    ASSUME TypeOK, Control, InHand, Order, Fresh, Struck, Next
    PROVE  Pending' + Doomed' + GivesUp + cuts <= Pending + Doomed + cuts'
<1> USE DEF Dying, Idle, Places, Pending, Doomed, GivesUp
<1>0. cuts \in Nat
  BY DEF TypeOK
<1>CallRun. CASE CallRun
  BY <1>0, <1>CallRun DEF CallRun, Begin, Launch, TypeOK, Control, InHand, Fresh,
     Struck, control, keys
<1>CallStart. CASE CallStart
  BY <1>0, <1>CallStart DEF CallStart, Begin, Launch, TypeOK, Control, InHand, Fresh,
     Struck, control, keys
<1>CallPause. CASE CallPause
  BY <1>0, <1>CallPause DEF CallPause, Begin, TypeOK, Control, InHand, Fresh,
     Struck, control, keys
<1>CallResume. CASE CallResume
  BY <1>0, <1>CallResume DEF CallResume, Begin, TypeOK, Control, InHand, Fresh,
     Struck, control, keys
<1>CallTerminate. CASE CallTerminate
  BY <1>0, <1>CallTerminate DEF CallTerminate, Begin, TypeOK, Control, InHand, Fresh,
     Struck, control, keys
<1>CallDisconnect. CASE CallDisconnect
  BY <1>0, <1>CallDisconnect DEF CallDisconnect, Begin, TypeOK, Control, InHand, Fresh,
     Struck, control, keys
<1>Started. CASE Started
  BY <1>0, <1>Started DEF Started, TypeOK, Control, InHand, Fresh,
     Struck, control, keys
<1>Set. CASE Set
  BY <1>0, <1>Set DEF Set, SetWorking, TypeOK, Control, InHand, Fresh,
     Struck, control, keys
<1>Mark. CASE Mark
  BY <1>0, <1>Mark DEF Mark, TypeOK, Control, InHand, Fresh,
     Struck, control, keys
<1>Interrupt. CASE Interrupt
  BY <1>0, <1>Interrupt DEF Interrupt, Interrupted, TypeOK, Control, InHand, Fresh,
     Struck, control, keys
<1>Join. CASE Join
  BY <1>0, <1>Join DEF Join, TypeOK, Control, InHand, Fresh,
     Struck, control, keys
<1>Return. CASE Return
  BY <1>0, <1>Return DEF Return, TypeOK, Control, InHand, Fresh,
     Struck, control, keys
<1>Enter. CASE Enter
  BY <1>0, <1>Enter DEF Enter, SetWorking, Goes, TypeOK, Control, InHand, Fresh,
     Struck, control, keys
<1>Top. CASE Top
  BY <1>0, <1>Top DEF Top, Awake, Goes, TypeOK, Control, InHand, Fresh,
     Struck, control, keys
<1>ReadKey. CASE ReadKey
  BY <1>0, <1>ReadKey DEF ReadKey, Goes, TypeOK, Control, InHand, Fresh,
     Struck, control, keys
<1>ReadNull. CASE ReadNull
  BY <1>0, <1>ReadNull DEF ReadNull, Goes, TypeOK, Control, InHand, Fresh,
     Struck, control, keys
<1>ReadTimeout. CASE ReadTimeout
  BY <1>0, <1>ReadTimeout DEF ReadTimeout, Goes, TypeOK, Control, InHand, Fresh,
     Struck, control, keys
<1>Accepted. CASE Accepted
  BY <1>0, <1>Accepted DEF Accepted, Awake, Goes, Dismissed, TypeOK, Control, InHand, Fresh,
     Struck, control, keys
<1>ProcessDone. CASE ProcessDone
  <2>1. GivesUp = 0
    <3>1. key # 0 /\ key' = 0 => key \in dropped' /\ key \notin dropped
      BY <1>ProcessDone DEF ProcessDone, Order
    <3> QED
      BY <3>1
  <2>2. Doomed' <= Doomed /\ Pending' = Pending /\ cuts' = cuts
    BY <1>ProcessDone DEF ProcessDone, Goes, TypeOK
  <2> QED
    BY <1>0, <2>1, <2>2
<1>ProcessRecv. CASE ProcessRecv
  BY <1>0, <1>ProcessRecv DEF ProcessRecv, Goes, Dismissed, TypeOK, Control, InHand, Fresh,
     Struck, control, keys
<1>ProcessTerminates. CASE ProcessTerminates
  BY <1>0, <1>ProcessTerminates DEF ProcessTerminates, Goes, TypeOK, Control, InHand, Fresh,
     Struck, control, keys
<1>Decided. CASE Decided
  BY <1>0, <1>Decided DEF Decided, Awake, Goes, Dismissed, TypeOK, Control, InHand, Fresh,
     Struck, control, keys
<1>Write. CASE Write
  BY <1>0, <1>Write DEF Write, Goes, TypeOK, Control, InHand, Fresh,
     Struck, control, keys
<1>Count. CASE Count
  BY <1>0, <1>Count DEF Count, Goes, TypeOK, Control, InHand, Fresh,
     Struck, control, keys
<1>Wind. CASE Wind
  BY <1>0, <1>Wind DEF Wind, Goes, TypeOK, Control, InHand, Fresh,
     Struck, control, keys
<1>Release. CASE Release
  BY <1>0, <1>Release DEF Release, TypeOK, Control, InHand, Fresh,
     Struck, control, keys
<1>Arrive. CASE Arrive
  BY <1>0, <1>Arrive DEF Arrive, TypeOK, Control, InHand, Fresh,
     Struck, control, keys
<1>Drain. CASE Drain
  BY <1>0, <1>Drain DEF Drain, TypeOK, Control, InHand, Fresh,
     Struck, control, keys
<1>Answer. CASE Answer
  BY <1>0, <1>Answer DEF Answer, Goes, Dismissed, TypeOK, Control, InHand, Fresh,
     Struck, control, keys
<1> QED
  BY <1>CallRun, <1>CallStart, <1>CallPause, <1>CallResume, <1>CallTerminate,
     <1>CallDisconnect, <1>Started, <1>Set, <1>Mark, <1>Interrupt, <1>Join, <1>Return,
     <1>Enter, <1>Top, <1>ReadKey, <1>ReadNull, <1>ReadTimeout, <1>Accepted, <1>ProcessDone,
     <1>ProcessRecv, <1>ProcessTerminates, <1>Decided, <1>Write, <1>Count, <1>Wind,
     <1>Release, <1>Arrive, <1>Drain, <1>Answer
     DEF Next, MainCall, MainStep, Worker, World

(* The keys missed are finitely many.                                      *)
LEMMA MissingFinite ==
    ASSUME TypeOK PROVE IsFiniteSet(Missing) /\ Cardinality(Missing) \in Nat
<1>1. taken \in Int
  BY DEF TypeOK
<1>2. IsFiniteSet(1 .. taken)
  BY <1>1, FS_Interval
<1>3. Missing \subseteq 1 .. taken
  BY DEF Missing
<1> QED
  BY <1>2, <1>3, FS_Subset, FS_CardinalityType

(* No step misses more than the one key it gives up.                       *)
LEMMA MissingStep ==
    ASSUME TypeOK, TypeOK', InHand, Next
    PROVE  Cardinality(Missing') <= Cardinality(Missing) + GivesUp
<1>0. /\ taken \in Nat /\ key \in 0 .. taken
      /\ out \in Seq(1 .. taken) /\ out' \in Seq(1 .. taken')
  BY DEF TypeOK
<1>1. ASSUME Missing' \subseteq Missing PROVE Cardinality(Missing') <= Cardinality(Missing) + GivesUp
  <2>1. Cardinality(Missing') <= Cardinality(Missing)
    BY <1>1, MissingFinite, FS_Subset
  <2>2. Cardinality(Missing') \in Nat
    BY <1>1, MissingFinite, FS_Subset, FS_CardinalityType
  <2> QED
    BY <2>1, <2>2, MissingFinite DEF GivesUp
<1>2. ASSUME key' = 0, UNCHANGED <<taken, out, dropped>>
      PROVE  Cardinality(Missing') <= Cardinality(Missing) + GivesUp
  <2>1. CASE key = 0
    BY <1>1, <1>2, <2>1 DEF Missing, Written
  <2>2. CASE key # 0
    <3>1. Missing' \subseteq Missing \cup {key}
      BY <1>2 DEF Missing, Written
    <3>2. /\ IsFiniteSet(Missing \cup {key})
          /\ Cardinality(Missing \cup {key}) <= Cardinality(Missing) + 1
      BY MissingFinite, FS_AddElement
    <3>3. /\ Cardinality(Missing') <= Cardinality(Missing \cup {key})
          /\ Cardinality(Missing') \in Nat /\ Cardinality(Missing \cup {key}) \in Nat
      BY <3>1, <3>2, FS_Subset, FS_CardinalityType
    <3>4. GivesUp = 1
      BY <1>2, <2>2 DEF GivesUp
    <3> QED
      BY <3>2, <3>3, <3>4, MissingFinite
  <2> QED
    BY <2>1, <2>2
<1>3. CASE UNCHANGED <<key, taken, out, dropped>>
  BY <1>1, <1>3 DEF Missing, Written
<1>4. CASE ReadKey
  <2>1. /\ key = 0 /\ taken' = taken + 1 /\ out' = out
        /\ \/ key' = taken + 1 /\ dropped' = dropped
           \/ key' = 0 /\ dropped' = dropped \cup {taken + 1}
    BY <1>4 DEF ReadKey, InHand
  <2>2. 1 .. taken + 1 = (1 .. taken) \cup {taken + 1}
    BY <1>0
  <2>3. 0 \notin 1 .. taken
    OBVIOUS
  <2>4. Missing' \subseteq Missing
    BY <2>1, <2>2, <2>3 DEF Missing, Written
  <2> QED
    BY <1>1, <2>4
<1>5. CASE ProcessDone
  <2>1. UNCHANGED <<taken, out>> /\ (UNCHANGED <<key, dropped>>
           \/ (key' = 0 /\ dropped' = dropped \cup ({key} \ {0})))
    BY <1>5 DEF ProcessDone
  <2>2. Missing' \subseteq Missing
    BY <2>1 DEF Missing, Written
  <2> QED
    BY <1>1, <2>2
<1>6. CASE Write
  <2>1. CASE void
    BY <1>2, <1>6, <2>1 DEF Write
  <2>2. CASE ~void
    <3>1. out' = Append(out, key) /\ key' = 0 /\ UNCHANGED <<taken, dropped>>
      BY <1>6, <2>2 DEF Write
    <3>2. Written \cup {key} \subseteq Written'
      <4>1. /\ DOMAIN out = 1 .. Len(out) /\ DOMAIN out' = 1 .. Len(out) + 1
            /\ Len(out) \in Nat /\ out'[Len(out) + 1] = key
            /\ \A i \in 1 .. Len(out) : out'[i] = out[i]
        BY <1>0, <3>1
      <4>2. Len(out) + 1 \in DOMAIN out' /\ DOMAIN out \subseteq DOMAIN out'
        BY <4>1
      <4> QED
        BY <4>1, <4>2 DEF Written
    <3>3. Missing' \subseteq Missing
      BY <3>1, <3>2 DEF Missing
    <3> QED
      BY <1>1, <3>3
  <2> QED
    BY <2>1, <2>2
<1>7. CASE MainCall \/ MainStep \/ World
  <2>1. key' \in {0, key} /\ UNCHANGED <<taken, out, dropped>>
    BY <1>7 DEF MainCall, CallRun, CallStart, CallPause, CallResume, CallTerminate,
              CallDisconnect, MainStep, Started, Set, Mark, Interrupt, Interrupted, Join,
              Return, World, Arrive, Drain, Answer, Dismissed, keys
  <2> QED
    BY <2>1, <1>2, <1>3
<1>8. CASE Worker /\ ~(Write \/ ReadKey \/ ProcessDone)
  <2>1. key' \in {0, key} /\ UNCHANGED <<taken, out, dropped>>
    BY <1>8 DEF Worker, Enter, Top, ReadNull, ReadTimeout, Accepted, ProcessRecv,
              ProcessTerminates, Decided, Count, Wind, Release, Dismissed, keys
  <2> QED
    BY <2>1, <1>2, <1>3
<1> QED
  BY <1>4, <1>5, <1>6, <1>7, <1>8 DEF Next, Worker

(* The arithmetic of the books of keys: read, in hand, queued and written. *)
LEMMA Sums ==
    \A c, d, p, q, e, f, g, k, l \in Int :
        q + f + g + k <= p + e + l /\ d <= c + g /\ c + p + e <= k => d + q + f <= l
OBVIOUS

(* Every step stays within what is owed.                                   *)
LEMMA OwedStep ==
    ASSUME TypeOK, Control, InHand, Order, Fresh, Struck, Owed, Next PROVE Owed'
<1>0. TypeOK'
  BY TypeStep
<1>1. Cardinality(Missing) \in Nat /\ Cardinality(Missing') \in Nat
  <2>1. taken' \in Int
    BY <1>0 DEF TypeOK
  <2>2. IsFiniteSet(1 .. taken') /\ Missing' \subseteq 1 .. taken'
    BY <2>1, FS_Interval DEF Missing
  <2> QED
    BY <2>2, MissingFinite, FS_Subset, FS_CardinalityType
<1>2. /\ Pending \in Int /\ Doomed \in Int /\ Pending' \in Int /\ Doomed' \in Int
      /\ GivesUp \in Int /\ cuts \in Int /\ cuts' \in Int
  BY <1>0 DEF Pending, Doomed, GivesUp, TypeOK
<1>3. Pending' + Doomed' + GivesUp + cuts <= Pending + Doomed + cuts'
  BY DebtStep
<1>4. Cardinality(Missing') <= Cardinality(Missing) + GivesUp
  BY <1>0, MissingStep
<1>5. Cardinality(Missing) + Pending + Doomed <= cuts
  BY DEF Owed
<1>6. Cardinality(Missing') + Pending' + Doomed' <= cuts'
  <2>1. /\ Cardinality(Missing) \in Int /\ Cardinality(Missing') \in Int
    BY <1>1
  <2> QED
    BY <2>1, <1>2, <1>3, <1>4, <1>5, Sums, Zenon
<1> QED
  BY <1>6 DEF Owed

(* The inductive invariant.                                                *)
LEMMA InitInvariant == Init => IInv
<1> SUFFICES ASSUME Init PROVE IInv
  OBVIOUS
<1>1. TypeOK
  <2>1. <<>> \in Seq(1 .. 0) /\ {} \subseteq 1 .. 0 /\ 0 \in 0 .. MaxKeys /\ 0 \in 0 .. 0
    BY BoundsAssumption
  <2>2. left \in 0 .. TerminateAfter /\ calls \in 0 .. MaxCalls
    BY BoundsAssumption DEF Init
  <2>3. main \in [call : Calls \cup {"none"},
                 at : {"idle", "started", "set", "mark", "interrupt", "join", "return"}]
    BY DEF Init, Idle
  <2>4. came \in 0 .. MaxKeys /\ taken \in 0 .. came /\ key \in 0 .. taken
    BY <2>1 DEF Init
  <2>5. out \in Seq(1 .. taken) /\ pipe \in Seq(1 .. taken) /\ dropped \subseteq 1 .. taken
    BY <2>1 DEF Init
  <2> QED
    BY <2>2, <2>3, <2>4, <2>5, DispositionsAssumption DEF Init, TypeOK, Dying, Places
<1>2. Control /\ InHand /\ Order /\ Counted /\ Marked
  BY DEF Init, Control, InHand, Order, Counted, Marked, Terminating, Dying, Idle
<1>3. Fresh /\ Struck
  BY DEF Init, Fresh, Struck, Idle
<1>4. Owed
  <2>1. Missing = {}
    BY DEF Init, Missing
  <2>2. Pending = 0 /\ Doomed = 0 /\ cuts = 0
    BY DEF Init, Pending, Doomed, Idle
  <2> QED
    BY <2>1, <2>2, FS_EmptySet DEF Owed
<1> QED
  BY <1>1, <1>2, <1>3, <1>4 DEF IInv

(* Every step of a thread, a peer or a caller keeps the invariant. *)
LEMMA NextInvariant == IInv /\ [Next]_vars => IInv'
<1> SUFFICES ASSUME IInv, [Next]_vars PROVE IInv'
  OBVIOUS
<1>1. CASE Next
  <2>1. TypeOK'
    BY <1>1, TypeStep DEF IInv
  <2> QED
    BY <1>1, <2>1, PlaceStep, OrderStep, CountStep, FreshStep, OwedStep DEF IInv
<1>2. CASE UNCHANGED vars
  <2>1. /\ TypeOK' /\ Control' /\ InHand' /\ Order' /\ Counted' /\ Marked' /\ Fresh'
        /\ Struck'
    BY <1>2 DEF vars, control, keys, IInv, TypeOK, Control, InHand, Order, Counted, Marked,
                Terminating, Fresh, Struck
  <2>2. Owed'
    BY <1>2 DEF vars, control, keys, IInv, Owed, Pending, Doomed, Missing, Written
  <2> QED
    BY <2>1, <2>2 DEF IInv
<1> QED
  BY <1>1, <1>2

(* THEOREM: the inductive invariant holds in every reachable state of the module. *)
THEOREM Invariance == Spec => []IInv
BY InitInvariant, NextInvariant, PTL DEF Spec

(* Both threads keep the type, whatever the calls and the keys.            *)
THEOREM TypeCorrect == Spec => []TypeOK
<1>1. IInv => TypeOK
  BY DEF IInv
<1> QED
  BY <1>1, Invariance, PTL

(* No key is written twice, turned down and written, or overtakes another, *)
(* for any number of keys and interruptions (module.cpp:1634-1662).        *)
THEOREM KeysInOrder == Spec => []WrittenInOrder
<1>1. IInv => WrittenInOrder
  <2> SUFFICES ASSUME IInv PROVE WrittenInOrder
    OBVIOUS
  <2>1. out \in Seq(1 .. taken) /\ taken \in Nat /\ key \in 0 .. taken
    BY DEF IInv, TypeOK
  <2>2. \A i \in DOMAIN out : out[i] \in 1 .. taken
    BY <2>1
  <2> QED
    BY <2>1, <2>2 DEF IInv, Order, WrittenInOrder, Written
<1> QED
  BY <1>1, Invariance, PTL

(* Pausing and resuming costs no key, and a call that terminates or        *)
(* interrupts the worker at most one, for any number of keys and calls     *)
(* (module.cpp:1595-1678).                                                 *)
THEOREM NoKeyLost == Spec => []KeysKept
<1>1. IInv => KeysKept
  <2> SUFFICES ASSUME IInv PROVE KeysKept
    OBVIOUS
  <2>1. Pending \in {0, 1} /\ Doomed \in {0, 1} /\ cuts \in Nat
    BY DEF Pending, Doomed, IInv, TypeOK
  <2>2. Cardinality(Missing) \in Nat
    BY MissingFinite DEF IInv
  <2> QED
    BY <2>1, <2>2 DEF KeysKept, IInv, Owed
<1> QED
  BY <1>1, Invariance, PTL

(* The key that uses up terminate_after is the last one taken, for any     *)
(* terminate_after and whatever the main thread does (module.cpp:1667).    *)
THEOREM LastIsLast == Spec => LastKeyIsLast
<1>1. IInv /\ [Next]_vars => [TerminateAfter > 0 /\ left = 0 => taken' = taken]_vars
  <2> SUFFICES ASSUME IInv, Next, TerminateAfter > 0, left = 0 PROVE taken' = taken
    BY DEF vars, keys
  <2>1. ~ReadKey
    BY DEF ReadKey, IInv, Counted
  <2> QED
    BY <2>1 DEF Next, MainCall, CallRun, CallStart, CallPause, CallResume, CallTerminate,
              CallDisconnect, MainStep, Started, Set, Mark, Interrupt, Join,
              Return, World, Arrive, Drain, Answer, Dismissed, keys, Worker, Enter, Top,
              ReadNull, ReadTimeout, Accepted, ProcessDone, ProcessRecv, ProcessTerminates,
              Decided, Write, Count, Wind, Release
<1> QED
  BY <1>1, Invariance, PTL DEF Spec, LastKeyIsLast
=============================================================================
