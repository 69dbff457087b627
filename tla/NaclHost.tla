------------------------------ MODULE NaclHost ------------------------------
(***************************************************************************)
(* platform_nacl.cc with con_posix.c: in a browser the machine runs in a   *)
(* thread of its own, and its sleep() waits for the timer of the module's  *)
(* main thread.  They share a mutex, which is locked from the start and    *)
(* which the one locks and the other unlocks, and a flag.  The machine     *)
(* stands at the prompt here, which asks for a character until it has one. *)
(***************************************************************************)
EXTENDS Integers

CONSTANT MaxKeys   \* bound on what the user types
KeysAssumption == MaxKeys \in Nat

VARIABLES
  mutex,           \* "locked" or "free"
  thread_block,
  machine,         \* where the machine's thread is: "none" before Boot()
  main, timer,     \* where TimerCallback() is; whether one is on its way
  stdin,           \* characters typed and not yet read
  fifo_flag,       \* whether con_peek() has read one
  typed, taken     \* history: characters typed, and returned to the prompt

shared == <<mutex, thread_block>>
input == <<stdin, fifo_flag, typed, taken>>
vars == <<shared, machine, main, timer, input>>

\* The constructor.
Init == /\ mutex = "locked" /\ thread_block = FALSE
        /\ machine = "none" /\ main = "idle" /\ timer = FALSE
        /\ stdin = 0 /\ fifo_flag = FALSE /\ typed = 0 /\ taken = 0
-----------------------------------------------------------------------------
(* The main thread: messages of the page, one at a time, and the timer.     *)

\* HandleMessage(): the page sends B once, when its files are there.
Boot == /\ main = "idle" /\ machine = "none"
        /\ machine' = "ask" /\ timer' = TRUE
        /\ UNCHANGED <<shared, main, input>>
Key == /\ main = "idle" /\ typed < MaxKeys
       /\ typed' = typed + 1 /\ stdin' = stdin + 1
       /\ UNCHANGED <<shared, machine, main, timer, fifo_flag, taken>>

\* TimerCallback(), which calls for the next one at its end.
TimerLook == /\ main = "idle" /\ timer
             /\ timer' = FALSE
             /\ main' = IF thread_block THEN "clear" ELSE "again"
             /\ UNCHANGED <<shared, machine, input>>
TimerClear == /\ main = "clear" /\ main' = "unlock"
              /\ thread_block' = FALSE
              /\ UNCHANGED <<mutex, machine, timer, input>>
TimerUnlock == /\ main = "unlock" /\ main' = "again"
               /\ mutex' = "free"
               /\ UNCHANGED <<thread_block, machine, timer, input>>
TimerAgain == /\ main = "again" /\ main' = "idle" /\ timer' = TRUE
              /\ UNCHANGED <<shared, machine, input>>
-----------------------------------------------------------------------------
(* The machine's thread: con_getchar(), which calls con_peek() when there   *)
(* is no character, which calls sleep(), which is Block().                  *)

At(here, next) == machine = here /\ machine' = next

Take == /\ At("ask", "ask") /\ fifo_flag
        /\ fifo_flag' = FALSE /\ taken' = taken + 1
        /\ UNCHANGED <<shared, main, timer, stdin, typed>>
Block == /\ At("ask", "set") /\ ~fifo_flag
         /\ UNCHANGED <<shared, main, timer, input>>
BlockSet == /\ At("set", "lock")
            /\ thread_block' = TRUE
            /\ UNCHANGED <<mutex, main, timer, input>>
BlockLock == /\ At("lock", "read") /\ mutex = "free"
             /\ mutex' = "locked"
             /\ UNCHANGED <<thread_block, main, timer, input>>
\* fgetc() does not wait: without input it returns -1.
Read == /\ At("read", "ask")
        /\ fifo_flag' = (stdin > 0)
        /\ stdin' = IF stdin > 0 THEN stdin - 1 ELSE 0
        /\ UNCHANGED <<shared, main, timer, typed, taken>>

Timer == TimerLook \/ TimerClear \/ TimerUnlock \/ TimerAgain
Machine == Take \/ Block \/ BlockSet \/ BlockLock \/ Read
Next == Boot \/ Key \/ Timer \/ Machine

\* The browser calls back; both threads run; the page boots the machine.
Spec == /\ Init /\ [][Next]_vars
        /\ WF_vars(Boot) /\ WF_vars(Timer) /\ WF_vars(Machine)
-----------------------------------------------------------------------------
(* Properties.                                                              *)

\* Each wait takes a tick of its own: the machine never runs with the mutex
\* free, when its next wait would be none, and the timer never unlocks a mutex
\* that is free.
OneTickEach == /\ mutex = "free" => machine = "lock" /\ ~thread_block
               /\ main = "unlock" => mutex = "locked" /\ machine = "lock"

\* Whenever the timer looks at the flag, the machine wakes up again, and what
\* is typed reaches the prompt.
Wakes == (machine = "lock") ~> (machine = "read")
KeysTaken == \A n \in 1 .. MaxKeys : (typed >= n) ~> (taken >= n)
=============================================================================
