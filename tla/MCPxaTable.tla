----------------------------- MODULE MCPxaTable ------------------------------
(***************************************************************************)
(* One pxaregs on its real table and 32-bit words: every name is set to    *)
(* all zeros and all ones, in registers of all ones and all zeros, and     *)
(* everything is dumped.  States that a store has led to are checked, and  *)
(* not continued from.                                                     *)
(***************************************************************************)
EXTENDS PxaTable, PxaRegs

CONSTANT p1

Patterns == {{}, 0..31}
Quiet == [a \in Addrs |-> {}]
Settings == {[do |-> "set", name |-> n, vals |-> Patterns] : n \in Names}
Dumps == {[do |-> "dump", names |-> S] : S \in {Names, {"FBR0", "FBR1"}}}
SettingsAndDumps == Settings \cup Dumps

(* What the constants are given: names of values, which TLC works out once *)
Table == RegTable
NoHardware == Quiet
Invocations == SettingsAndDumps

Memories == {[a \in Addrs |-> w] : w \in Patterns}
TableInit == mem \in Memories /\ proc = [p \in Procs |-> Idle]
TableSpec == TableInit /\ [][Next]_vars
BeforeAnyStore == mem \in Memories

-----------------------------------------------------------------------------
(* The table that was written by hand, at every row that a setreg looks    *)
(* for: no name stands for two rows, as UARTD's do in the part that only   *)
(* one board compiles; the rows of a register stand together under the one *)
(* for its whole word; and no two fields have a bit in common but two of   *)
(* each pulse width modulator.                                             *)
Entangled(j, k) ==
    {Regs[j].name, Regs[k].name} \in
      {{"PWMCTL0_PRESCALE", "PWMCTL0_SD"}, {"PWMCTL1_PRESCALE", "PWMCTL1_SD"}}
Fields == {j \in DOMAIN Regs : ~Whole(Regs[j])}
RowSound(j) ==
    /\ Unique(j) /\ InPlace(j)
    /\ j \in Fields => \A k \in Fields \ {j} : Overlap(j, k) => Entangled(j, k)
TableSound ==
    \A p \in Procs : proc[p].pc = "load" => \A j \in Rows(proc[p].name) : RowSound(j)

(* "to dump named register" (the usage): `pxaregs fbr' shows both of the   *)
(* frame buffers' base registers.                                          *)
FrameBuffersShown ==
    [][\A p \in Procs :
         proc[p].pc = "dump" /\ proc'[p] # Idle /\ proc'[p].names = {"FBR0", "FBR1"}
         /\ Regs[proc[p].i].name \in proc[p].names =>
           proc[p].i \in {proc'[p].heading.row, proc'[p].field.row}]_vars
=============================================================================
