------------------------------ MODULE MCPxaRegs ------------------------------
(***************************************************************************)
(* A table with the shapes of the real one, on 3-bit words: a register in  *)
(* full, its fields, two of which overlap as PWMCTL0_PRESCALE and          *)
(* PWMCTL0_SD do; a register at address 0, with a name that stands twice.  *)
(***************************************************************************)
EXTENDS PxaRegs, TLC

CONSTANTS p1, p2
Invokers == {p1, p2}
Swapped  == Permutations(Invokers)

Row3(n, a, s, m) == [name |-> n, addr |-> a, shift |-> s, mask |-> m]
Table == <<Row3("ICSR", 0, 0, {0, 1, 2}), Row3("ICSR_TFL", 0, 1, {0}), Row3("SPR", 0, 1, {0, 1}),
           Row3("PWMCTL", 1, 0, {0, 1, 2}), Row3("PRESCALE", 1, 0, {0, 1}),
           Row3("SD", 1, 1, {0}), Row3("SPR", 1, 0, {0, 1})>>
HardwareBits == [a \in 0..1 |-> IF a = 0 THEN {0} ELSE {}]

SetTo(n, vals) == [do |-> "set", name |-> n, vals |-> vals]
Invocations == {[do |-> "dump", names |-> Names \ {"PRESCALE"}],
                SetTo("PRESCALE", {{0}}), SetTo("PRESCALE", {{1, 2}}), SetTo("SD", Word),
                SetTo("ICSR_TFL", {{0}}), SetTo("SPR", {{}})}
=============================================================================
