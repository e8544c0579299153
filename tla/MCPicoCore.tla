----------------------------- MODULE MCPicoCore -----------------------------
(* PicoCore on a memory of a few words: the reset vector, the interrupt    *)
(* handler and one more.                                                   *)
EXTENDS PicoCore

ProgramKinds == {"alu", "taken", "passed", "jal", "jalr", "shift", "load", "store",
                 "badload", "illegal", "retirq", "maskirq", "waitirq"}
WakeKinds    == {"load", "retirq", "maskirq", "waitirq", "timer"}

=============================================================================
