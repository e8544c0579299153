----------------------------- MODULE AtomicBus ------------------------------
(***************************************************************************)
(* What the core relies on when it uses the bus of top.v: a request is     *)
(* performed as a whole or not at all, at one moment between the moment it *)
(* is asked and the moment it is answered, and a read is answered with     *)
(* what the cell holds at that moment.  A cell is a location that keeps    *)
(* what is written to it: a word of SRAM, or the LED register.             *)
(*                                                                         *)
(* A reset may cut a request off.  It then either was performed or was     *)
(* not: no cell is ever left with a part of a write.                       *)
(***************************************************************************)
EXTENDS Naturals

CONSTANTS
  Cell,           \* the locations that keep what is written to them
  Volatile,       \* the cells a reset clears
  Word,           \* the values of a location
  Request,        \* what the core may ask
  Other,          \* the data a slave other than a cell answers with
  Target(_),      \* the location a request is about
  IsRead(_),      \* whether a request writes nothing
  Written(_, _),  \* Written(r, w): the value of a cell that held w, after r
  Zero            \* what a cleared cell holds

VARIABLES
  up,             \* the reset line is released
  phase,          \* "idle", "asked" or "done" (performed, not yet answered)
  req,            \* the request, meaningful unless idle
  store,          \* what the cells hold
  answer          \* the last read data the core took

vars == <<up, phase, req, store, answer>>

Perform(s, r) ==
  IF Target(r) \in Cell THEN [s EXCEPT ![Target(r)] = Written(r, @)] ELSE s

Cleared(s) == [c \in Cell |-> IF c \in Volatile THEN Zero ELSE s[c]]

Init ==
  /\ up = FALSE
  /\ phase \in {"idle", "asked", "done"}
  /\ req \in Request
  /\ store \in [Cell -> Word]
  /\ answer \in Word \cup {Other}

Ask ==
  /\ phase = "idle"
  /\ phase' = "asked"
  /\ req' \in Request
  /\ UNCHANGED <<store, answer>>

Serve ==
  /\ phase = "asked"
  /\ phase' = "done"
  /\ store' = Perform(store, req)
  /\ UNCHANGED <<req, answer>>

(* The answer, given in the step that performs the request or after it.    *)
Answer ==
  /\ phase # "idle"
  /\ phase' = "idle"
  /\ store' = IF phase = "asked" THEN Perform(store, req) ELSE store
  /\ answer' \in IF Target(req) \notin Cell THEN {Other}
                 ELSE IF IsRead(req) THEN {store[Target(req)]} ELSE Word
  /\ UNCHANGED req

Running == up /\ up' /\ (Ask \/ Serve \/ Answer)

(* The line falls, stays low or is released.  What was asked is performed  *)
(* or dropped, but never a part of it.                                     *)
Reset ==
  /\ ~(up /\ up')
  /\ up' \in BOOLEAN
  /\ phase' \in {"idle", "asked", "done"}
  /\ up' => phase' = "idle"
  /\ phase = "idle" => req' \in Request
  /\ phase # "idle" => req' = req
  /\ \/ store' = Cleared(store)
     \/ phase # "idle" /\ store' = Cleared(Perform(store, req))
  /\ answer' \in Word \cup {Other}

Next == Running \/ Reset

Spec == Init /\ [][Next]_vars

=============================================================================
