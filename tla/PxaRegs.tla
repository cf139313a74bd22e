------------------------------- MODULE PxaRegs -------------------------------
(***************************************************************************)
(* pxaregs, which shows and sets the PXA250's registers through /dev/mem.  *)
(* Several invocations run at a time, next to hardware that changes bits   *)
(* of its own accord; nothing locks a register between the load and the    *)
(* store of a read-modify-write.                                           *)
(*                                                                         *)
(* A 32-bit word is the set of its bits that are 1, out of 0..Width-1.  An *)
(* invocation is a record of the local variables it has come to use.       *)
(***************************************************************************)
EXTENDS Naturals, Sequences

CONSTANTS Procs,    \* invocations
          Width,    \* bits of a word
          Regs,     \* the table: a sequence of [name, addr, shift, mask]
          Volatile, \* the bits of each register that the hardware changes
          Calls     \* what invocations are asked to do

Bit   == 0..(Width - 1)
Word  == SUBSET Bit
Addrs == {Regs[i].addr : i \in DOMAIN Regs}
Names == {Regs[i].name : i \in DOMAIN Regs}

Shl(w, s) == {b \in Bit : b >= s /\ b - s \in w}
Shr(w, s) == {b \in Bit : b + s \in w}

(* A dump lists the rows whose names contain its argument; all rows without *)
(* one.  `vals' is what sscanf may leave in `val': any word when it cannot *)
(* read the argument, for nothing looks at its result.                     *)
Call == [do : {"dump"}, names : SUBSET Names]
          \cup [do : {"set"}, name : Names, vals : SUBSET Word]

(* No row of the table shifts a bit out of the word. *)
Entry == {e \in [name : STRING, addr : Nat, shift : Nat, mask : Word] :
            \A b \in e.mask : b + e.shift \in Bit}

ASSUME WidthAssumption == Width \in Nat \ {0}
ASSUME RegsAssumption  == Regs \in Seq(Entry)
ASSUME VolatileAssumption == Volatile \in [Addrs -> Word]
ASSUME CallsAssumption == Calls \subseteq Call

VARIABLES mem,  \* the registers
          proc  \* the invocations

vars == <<mem, proc>>

-----------------------------------------------------------------------------
Differ(v, w) == (v \ w) \cup (w \ v)
FieldOf(e)   == Shl(e.mask, e.shift)
Value(e, w)  == Shr(w, e.shift) \cap e.mask
Whole(e)     == e.shift = 0 /\ e.mask = Bit

MutantMergedUnmasked(e, old, v) == (old \ FieldOf(e)) \cup Shl(v, e.shift)
MutantMergedOr(e, old, v) == old \cup Shl(v \cap e.mask, e.shift)

MutantMergedWide(e, old, v) == (old \ FieldOf(e)) \cup {b + e.shift : b \in v}

(* The read-modify-write: mask out the field, put the value in *)
Merged(e, old, v) == (old \ FieldOf(e)) \cup Shl(v \cap e.mask, e.shift)

Rows(n)  == {j \in DOMAIN Regs : Regs[j].name = n}
Known(n) == \E j \in Rows(n) : Rows(n) = {j}

Idle == [pc |-> "idle"]
NoHeading == [row |-> 0, word |-> {}]
NoField   == [row |-> 0, value |-> {}]

(* main in a new process, with its static variables: i is the loop index,  *)
(* heading and field the last register and the last field printed.         *)
Begin(c) ==
    IF c.do = "dump"
    THEN [pc |-> "dump", names |-> c.names, i |-> 1, lastaddr |-> 0, newaddr |-> TRUE,
          data |-> {}, heading |-> NoHeading, field |-> NoField]
    ELSE [pc |-> "load", name |-> c.name, vals |-> c.vals]

Init == mem \in [Addrs -> Word] /\ proc = [p \in Procs |-> Idle]

Start(p, c) ==
    /\ proc[p] = Idle
    /\ proc' = [proc EXCEPT ![p] = Begin(c)] /\ UNCHANGED mem

Exit(p) == proc' = [proc EXCEPT ![p] = Idle]

-----------------------------------------------------------------------------
(* dumpall, dumpmatching and dumpentry: one row of the table a step *)

DumpSkip(p) ==
    /\ proc[p].pc = "dump" /\ proc[p].i \in DOMAIN Regs
    /\ Regs[proc[p].i].name \notin proc[p].names
    /\ proc' = [proc EXCEPT ![p].i = @ + 1] /\ UNCHANGED mem

MutantFresh(d) ==
    LET a == Regs[d.i].addr
    IN  IF a # d.lastaddr
        THEN [d EXCEPT !.newaddr = FALSE, !.lastaddr = a, !.data = mem[a],
                       !.heading = [row |-> d.i, word |-> mem[a]]]
        ELSE d

(* The register is read, and headed, only when its address is a new one.   *)
Fresh(d) ==
    LET a == Regs[d.i].addr
    IN  IF d.newaddr \/ a # d.lastaddr
        THEN [d EXCEPT !.newaddr = FALSE, !.lastaddr = a, !.data = mem[a],
                       !.heading = [row |-> d.i, word |-> mem[a]]]
        ELSE d

DumpEntry(p) ==
    /\ proc[p].pc = "dump" /\ proc[p].i \in DOMAIN Regs
    /\ Regs[proc[p].i].name \in proc[p].names
    /\ LET e == Regs[proc[p].i]   d == Fresh(proc[p])
       IN  proc' = [proc EXCEPT ![p] =
                      [d EXCEPT !.i = @ + 1,
                                !.field = IF Whole(e) THEN @
                                          ELSE [row |-> d.i, value |-> Value(e, d.data)]]]
    /\ UNCHANGED mem

DumpDone(p) ==
    /\ proc[p].pc = "dump" /\ proc[p].i \notin DOMAIN Regs
    /\ Exit(p) /\ UNCHANGED mem

-----------------------------------------------------------------------------
(* setreg: the name must stand for exactly one row *)

Refuse(p) ==
    /\ proc[p].pc = "load" /\ ~Known(proc[p].name)
    /\ Exit(p) /\ UNCHANGED mem

(* getmem; `raced' is history, the bits that change from here on *)
Load(p) ==
    /\ proc[p].pc = "load"
    /\ Known(proc[p].name)
    /\ \E j \in Rows(proc[p].name), v \in proc[p].vals :
         proc' = [proc EXCEPT ![p] =
                       [pc |-> "store", row |-> j, val |-> v,
                        word |-> Merged(Regs[j], mem[Regs[j].addr], v), raced |-> {}]]
    /\ UNCHANGED mem

(* What changes at a register is noted for every setreg that has read it. *)
Noted(a, new) ==
    [p \in Procs |-> IF proc[p].pc = "store" /\ Regs[proc[p].row].addr = a
                     THEN [proc[p] EXCEPT !.raced = @ \cup Differ(mem[a], new)] ELSE proc[p]]
Put(a, new) == mem' = [mem EXCEPT ![a] = new]

(* putmem *)
Store(p) ==
    /\ proc[p].pc = "store"
    /\ LET a == Regs[proc[p].row].addr
       IN  /\ Put(a, proc[p].word)
           /\ proc' = [Noted(a, proc[p].word) EXCEPT ![p] = Idle]

(* open("/dev/mem") or mmap fails (putmem opens the device once more), or  *)
(* the process is killed.                                                  *)
Fail(p) ==
    /\ proc[p] # Idle
    /\ Exit(p) /\ UNCHANGED mem

(* The hardware sets and clears the bits that are its own. *)
Hardware(a, b) ==
    /\ Put(a, Differ(mem[a], {b}))
    /\ proc' = Noted(a, Differ(mem[a], {b}))

Invocation(p) == \/ \E c \in Calls : Start(p, c)
                 \/ DumpSkip(p) \/ DumpEntry(p) \/ DumpDone(p)
                 \/ Refuse(p) \/ Load(p) \/ Store(p) \/ Fail(p)
Next == \/ \E p \in Procs : Invocation(p)
        \/ \E a \in Addrs : \E b \in Volatile[a] : Hardware(a, b)

Spec == Init /\ [][Next]_vars

-----------------------------------------------------------------------------
(* Type invariant *)
Dumping == [pc : {"dump"}, names : SUBSET Names, i : 1..(Len(Regs) + 1), lastaddr : Nat,
            newaddr : BOOLEAN, data : Word, heading : [row : 0..Len(Regs), word : Word],
            field : [row : 0..Len(Regs), value : Word]]
Loading == [pc : {"load"}, name : Names, vals : SUBSET Word]
Storing == [pc : {"store"}, row : DOMAIN Regs, val : Word, word : Word, raced : Word]
TypeOK ==
    /\ mem \in [Addrs -> Word]
    /\ proc \in [Procs -> {Idle} \cup Dumping \cup Loading \cup Storing]

(* A setreg that returns 0 has its value in its field, leaves the other    *)
(* registers alone, and undoes in the rest of its own register at most what *)
(* changed since it read it: a racing setreg or the hardware lose their    *)
(* bits to it, but no bit that stood still is disturbed.                   *)
StoreExact ==
    [][\A p \in Procs : proc[p].pc = "store" /\ proc'[p] = Idle /\ mem' # mem =>
         LET e == Regs[proc[p].row]
         IN  /\ \A a \in Addrs \ {e.addr} : mem'[a] = mem[a]
             /\ Value(e, mem'[e.addr]) = proc[p].val \cap e.mask
             /\ Differ(mem[e.addr], mem'[e.addr]) \subseteq FieldOf(e) \cup proc[p].raced]_vars

(* However many invocations race, a bit that is neither the hardware's nor *)
(* part of a field somebody sets never changes.                            *)
Settable(a) == UNION {FieldOf(Regs[j]) : j \in
                 {k \in DOMAIN Regs : /\ Regs[k].addr = a
                                      /\ \E c \in Calls : c.do = "set" /\ c.name = Regs[k].name}}
SpareBitsStand ==
    [][\A a \in Addrs : Differ(mem[a], mem'[a]) \subseteq Volatile[a] \cup Settable(a)]_vars

(* Every field line belongs to the register whose heading stands above it  *)
(* and shows the word printed there, although other processes and the      *)
(* hardware change the register between two lines.                         *)
Prints(d) ==
    LET e == Regs[d.field.row]
    IN  /\ d.heading # NoHeading /\ Regs[d.heading.row].addr = e.addr
        /\ d.field.value = Value(e, d.heading.word)
FieldsOfHeading ==
    [][\A p \in Procs : proc[p].pc = "dump" /\ proc'[p] # Idle /\ proc'[p].field # proc[p].field
         => Prints(proc'[p])]_vars

-----------------------------------------------------------------------------
(* What the rows of a table owe one another: a name of their own, and to   *)
(* head their register, as its first row and whole, or to stand right      *)
(* behind another row of it.                                               *)
Unique(j)     == Rows(Regs[j].name) = {j}
Heads(j)      == Whole(Regs[j]) /\ \A k \in 1..(j - 1) : Regs[k].addr # Regs[j].addr
InPlace(j)    == Heads(j) \/ (j > 1 /\ Regs[j - 1].addr = Regs[j].addr)
Overlap(j, k) == Regs[j].addr = Regs[k].addr /\ FieldOf(Regs[j]) \cap FieldOf(Regs[k]) # {}

HeadedRows == \A j \in DOMAIN Regs : InPlace(j)

(* Setting a field, to any value and wider ones too, leaves every row of   *)
(* the table that does not overlap it as it reads, unless others changed   *)
(* that row's bits since the setreg read the register.                     *)
FieldsApart ==
    [][\A p \in Procs : proc[p].pc = "store" /\ proc'[p] = Idle /\ mem' # mem =>
         LET j == proc[p].row
             Lost(k) == Regs[k].addr = Regs[j].addr
                          /\ FieldOf(Regs[k]) \cap proc[p].raced # {}
         IN  \A k \in DOMAIN Regs :
               Overlap(j, k) \/ Lost(k)
                 \/ Value(Regs[k], mem'[Regs[k].addr]) = Value(Regs[k], mem[Regs[k].addr])]_vars

(* A dump of everything heads each register once, in full: the rows of a   *)
(* register stand together with the row for its whole word before them, or *)
(* the word would be read and printed again, perhaps changed, part way     *)
(* through its fields and under the name of one of them.                   *)
HeadedOnce ==
    [][\A p \in Procs :
         proc[p].pc = "dump" /\ proc[p].names = Names /\ proc'[p] # Idle
         /\ proc'[p].heading # proc[p].heading => Heads(proc'[p].heading.row)]_vars
=============================================================================
