---------------------------- MODULE PxaRegsProofs ----------------------------
(***************************************************************************)
(* Theorems about pxaregs, for every register table, word width and number *)
(* of invocations.                                                         *)
(***************************************************************************)
EXTENDS PxaRegs, TLAPS

State == {Idle} \cup Dumping \cup Loading \cup Storing

(* What an invocation knows: where its output and its word come from.      *)
LoadGood(q) == q.pc = "load" => \E c \in Calls : c.do = "set" /\ c.name = q.name
DumpGood(q) ==
    q.pc = "dump" /\ ~q.newaddr => /\ q.heading.row \in DOMAIN Regs
                                   /\ Regs[q.heading.row].addr = q.lastaddr
                                   /\ q.heading.word = q.data
StoreGood(m, q) ==
    q.pc = "store" =>
      LET e == Regs[q.row]
      IN  /\ FieldOf(e) \subseteq Settable(e.addr)
          /\ q.raced \subseteq Volatile[e.addr] \cup Settable(e.addr)
          /\ Value(e, q.word) = q.val \cap e.mask
          /\ Differ(m[e.addr], q.word) \subseteq FieldOf(e) \cup q.raced
Good(m, q) == LoadGood(q) /\ DumpGood(q) /\ StoreGood(m, q)
IInv == TypeOK /\ \A p \in Procs : Good(mem, proc[p])

(* The rows of the table are entries at addresses of the table. *)
LEMMA RowType ==
  /\ DOMAIN Regs = 1..Len(Regs) /\ Len(Regs) \in Nat
  /\ \A j \in DOMAIN Regs : Regs[j] \in Entry /\ Regs[j].addr \in Addrs /\ Regs[j].name \in Names
  BY RegsAssumption DEF Addrs, Names

(* Merging a value into a word changes only the field, and the field then  *)
(* reads as the masked value: no bit of it is shifted out.                 *)
LEMMA MergedField ==
  ASSUME NEW e \in Entry, NEW old \in Word, NEW v \in Word
  PROVE  /\ Merged(e, old, v) \in Word
         /\ Value(e, Merged(e, old, v)) = v \cap e.mask
         /\ Differ(old, Merged(e, old, v)) \subseteq FieldOf(e)
<1>1. e.mask \in Word /\ e.shift \in Nat /\ \A b \in e.mask : b + e.shift \in Bit
  BY DEF Entry
<1>2. Bit \subseteq Nat
  BY WidthAssumption DEF Bit
<1>3. Merged(e, old, v) \in Word
  BY DEF Merged, Shl, Word
<1>4. Shl(v \cap e.mask, e.shift) \subseteq FieldOf(e)
  BY DEF FieldOf, Shl
<1>5. Value(e, Merged(e, old, v)) = v \cap e.mask
  <2>1. ASSUME NEW b \in e.mask
        PROVE  b + e.shift \in Merged(e, old, v) <=> b \in v
    <3>1. b \in Bit /\ b + e.shift \in Bit /\ b \in Nat
      BY <1>1, <1>2 DEF Word
    <3>2. b + e.shift >= e.shift /\ (b + e.shift) - e.shift = b
      BY <1>1, <3>1
    <3>3. b + e.shift \in FieldOf(e)
      BY <3>1, <3>2 DEF FieldOf, Shl
    <3>4. b + e.shift \in Shl(v \cap e.mask, e.shift) <=> b \in v
      BY <3>1, <3>2 DEF Shl
    <3>5. QED BY <3>3, <3>4 DEF Merged
  <2>2. v \cap e.mask \subseteq Bit
    BY <1>1 DEF Word
  <2>3. QED BY <1>1, <2>1, <2>2 DEF Value, Shr, Word
<1>6. Differ(old, Merged(e, old, v)) \subseteq FieldOf(e)
  BY <1>4 DEF Differ, Merged
<1>7. QED BY <1>3, <1>5, <1>6

(* A step of one invocation that leaves memory alone. *)
LEMMA LocalStep ==
  ASSUME IInv, NEW p \in Procs, NEW q \in State, Good(mem, q),
         proc' = [proc EXCEPT ![p] = q], UNCHANGED mem
  PROVE  IInv'
<1>1. TypeOK'
  BY DEF IInv, TypeOK, State
<1>2. ASSUME NEW r \in Procs PROVE Good(mem', proc'[r])
  BY DEF IInv, TypeOK
<1>3. QED BY <1>1, <1>2 DEF IInv, Good, LoadGood, DumpGood, StoreGood

(* An invocation that is idle knows nothing. *)
LEMMA IdleGood == \A m : Good(m, Idle) /\ Idle \in State
  BY DEF Good, LoadGood, DumpGood, StoreGood, Idle, State

(* A change of a register within what may change is noted by every setreg  *)
(* that has read it.                                                       *)
LEMMA NotedGood ==
  ASSUME IInv, NEW a \in Addrs, NEW new \in Word, Put(a, new), NEW p \in Procs,
         Differ(mem[a], new) \subseteq Volatile[a] \cup Settable(a)
  PROVE  mem' \in [Addrs -> Word] /\ Noted(a, new)[p] \in State /\ Good(mem', Noted(a, new)[p])
<1> DEFINE q == proc[p]   n == Noted(a, new)[p]
<1>1. mem \in [Addrs -> Word] /\ q \in State /\ Good(mem, q)
  BY DEF IInv, TypeOK, State
<1>2. mem' \in [Addrs -> Word] /\ mem' = [mem EXCEPT ![a] = new]
  BY <1>1 DEF Put
<1>3. CASE q.pc = "store" /\ Regs[q.row].addr = a
  <2>1. q \in Storing
    BY <1>1, <1>3 DEF State, Idle, Dumping, Loading
  <2>2. n = [q EXCEPT !.raced = @ \cup Differ(mem[a], new)]
    BY <1>3 DEF Noted
  <2>3. Differ(mem[a], new) \in Word
    BY <1>1 DEF Differ, Word
  <2>4. n \in Storing /\ n.pc = "store" /\ n.row = q.row /\ n.val = q.val /\ n.word = q.word
          /\ n.raced = q.raced \cup Differ(mem[a], new)
    BY <2>1, <2>2, <2>3 DEF Storing, Word
  <2>5. mem'[a] = new
    BY <1>1, <1>2
  <2>6. Differ(new, q.word) \subseteq Differ(mem[a], q.word) \cup Differ(mem[a], new)
    BY DEF Differ
  <2>7. StoreGood(mem', n)
    BY <1>1, <1>3, <2>4, <2>5, <2>6 DEF Good, StoreGood
  <2>8. QED BY <1>2, <2>4, <2>7 DEF Good, LoadGood, DumpGood, State
<1>4. CASE ~(q.pc = "store" /\ Regs[q.row].addr = a)
  <2>1. n = q
    BY <1>4 DEF Noted
  <2>2. q.pc = "store" => q.row \in DOMAIN Regs
    BY <1>1 DEF State, Idle, Dumping, Loading, Storing
  <2>3. q.pc = "store" => mem'[Regs[q.row].addr] = mem[Regs[q.row].addr]
    BY <1>1, <1>2, <1>4, <2>2, RowType
  <2>4. StoreGood(mem', q)
    BY <1>1, <2>3 DEF Good, StoreGood
  <2>5. QED BY <1>1, <1>2, <2>1, <2>4 DEF Good
<1>5. QED BY <1>3, <1>4

(* The first record of an invocation is good. *)
LEMMA BeginGood == \A m : \A c \in Calls : Begin(c) \in State /\ Good(m, Begin(c))
<1> SUFFICES ASSUME NEW m, NEW c \in Calls
             PROVE  Begin(c) \in State /\ Good(m, Begin(c))
  OBVIOUS
<1>1. c \in Call
  BY CallsAssumption
<1>2. CASE c.do = "dump"
  <2>1. c.names \in SUBSET Names
    BY <1>1, <1>2 DEF Call
  <2>2. Begin(c) = [pc |-> "dump", names |-> c.names, i |-> 1, lastaddr |-> 0, newaddr |-> TRUE,
                    data |-> {}, heading |-> NoHeading, field |-> NoField]
    BY <1>2 DEF Begin
  <2>3. 1 \in 1..(Len(Regs) + 1) /\ 0 \in 0..Len(Regs) /\ {} \in Word
    BY RowType DEF Word
  <2>4. Begin(c) \in Dumping
    BY <2>1, <2>2, <2>3 DEF Dumping, NoHeading, NoField
  <2>5. Good(m, Begin(c))
    BY <2>2 DEF Good, LoadGood, DumpGood, StoreGood
  <2>6. QED BY <2>4, <2>5 DEF State
<1>3. CASE c.do # "dump"
  <2>1. c.do = "set" /\ c.name \in Names /\ c.vals \in SUBSET Word
    BY <1>1, <1>3 DEF Call
  <2>2. Begin(c) = [pc |-> "load", name |-> c.name, vals |-> c.vals]
    BY <1>3 DEF Begin
  <2>3. QED BY <2>1, <2>2 DEF Good, LoadGood, DumpGood, StoreGood, State, Loading
<1>4. QED BY <1>2, <1>3

(* What Fresh returns: the record with the register of row i read. *)
LEMMA FreshGood ==
  ASSUME mem \in [Addrs -> Word], NEW d \in Dumping, DumpGood(d), d.i \in DOMAIN Regs
  PROVE  /\ Fresh(d) \in Dumping /\ ~Fresh(d).newaddr /\ DumpGood(Fresh(d))
         /\ Fresh(d).i = d.i /\ Fresh(d).field = d.field
         /\ Fresh(d).lastaddr = Regs[d.i].addr
<1> DEFINE a == Regs[d.i].addr
           f == [d EXCEPT !.newaddr = FALSE, !.lastaddr = a, !.data = mem[a],
                          !.heading = [row |-> d.i, word |-> mem[a]]]
<1>1. a \in Nat /\ mem[a] \in Word /\ d.i \in 0..Len(Regs)
  BY RowType DEF Entry
<1>2. CASE d.newaddr \/ a # d.lastaddr
  <2>1. Fresh(d) = f
    BY <1>2 DEF Fresh
  <2>2. f \in Dumping
    BY <1>1 DEF Dumping
  <2>3. f.newaddr = FALSE /\ f.lastaddr = a /\ f.data = mem[a] /\ f.i = d.i /\ f.field = d.field
          /\ f.heading = [row |-> d.i, word |-> mem[a]]
    BY DEF Dumping
  <2>4. QED BY <2>1, <2>2, <2>3 DEF DumpGood
<1>3. CASE ~(d.newaddr \/ a # d.lastaddr)
  BY <1>3 DEF Fresh
<1>4. QED BY <1>2, <1>3

(* The new record q of an invocation that has printed a row *)
Entered(p, q) == /\ Good(mem, q) /\ proc' = [proc EXCEPT ![p] = q]
                 /\ q.field # proc[p].field => Prints(q)

(* A row printed: the record stays good and the field is the heading's. *)
LEMMA EntryGood ==
  ASSUME IInv, NEW p \in Procs, DumpEntry(p)
  PROVE  UNCHANGED mem /\ \E q \in State : Entered(p, q)
<1> DEFINE d == proc[p]   e == Regs[d.i]   f == Fresh(d)
           q == [f EXCEPT !.i = @ + 1,
                          !.field = IF Whole(e) THEN @
                                    ELSE [row |-> f.i, value |-> Value(e, f.data)]]
<1>1. d \in Dumping /\ d.i \in DOMAIN Regs /\ DumpGood(d) /\ mem \in [Addrs -> Word]
  BY DEF DumpEntry, IInv, TypeOK, Good, Idle, Loading, Storing
<1>2. /\ f \in Dumping /\ ~f.newaddr /\ DumpGood(f)
      /\ f.i = d.i /\ f.field = d.field /\ f.lastaddr = e.addr
  BY <1>1, FreshGood
<1>3. UNCHANGED mem /\ proc' = [proc EXCEPT ![p] = q]
  BY DEF DumpEntry
<1>4. Value(e, f.data) \in Word
  BY DEF Value, Shr, Word
<1>5. f.i + 1 \in 1..(Len(Regs) + 1) /\ f.i \in 0..Len(Regs)
  BY <1>1, <1>2, RowType
<1>6. q \in Dumping
  BY <1>2, <1>4, <1>5 DEF Dumping
<1>7. /\ q.pc = "dump" /\ q.newaddr = f.newaddr /\ q.lastaddr = f.lastaddr
      /\ q.data = f.data /\ q.heading = f.heading
      /\ q.field = IF Whole(e) THEN f.field ELSE [row |-> f.i, value |-> Value(e, f.data)]
  BY <1>2 DEF Dumping
<1>8. /\ f.heading.row \in DOMAIN Regs /\ Regs[f.heading.row].addr = f.lastaddr
      /\ f.heading.word = f.data
  BY <1>2 DEF DumpGood, Dumping
<1>9. Good(mem, q)
  BY <1>2, <1>7, <1>8 DEF Good, LoadGood, DumpGood, StoreGood
<1>10. q.field # d.field => Prints(q)
  BY <1>2, <1>7, <1>8, RowType DEF Prints, NoHeading
<1>11. Entered(p, q) /\ q \in State
  BY <1>3, <1>6, <1>9, <1>10 DEF State, Entered
<1>12. QED BY <1>3, <1>11

(* getmem and the merge: the word to store differs in the field only. *)
LEMMA LoadStep ==
  ASSUME IInv, NEW p \in Procs, Load(p)
  PROVE  IInv'
<1>1. proc[p] \in Loading /\ LoadGood(proc[p]) /\ mem \in [Addrs -> Word]
  BY DEF Load, IInv, TypeOK, Good, Idle, Dumping, Storing
<1>2. PICK j \in Rows(proc[p].name), v \in proc[p].vals :
        proc' = [proc EXCEPT ![p] =
                   [pc |-> "store", row |-> j, val |-> v,
                    word |-> Merged(Regs[j], mem[Regs[j].addr], v), raced |-> {}]]
  BY DEF Load
<1> DEFINE e == Regs[j]   w == Merged(e, mem[e.addr], v)
           q == [pc |-> "store", row |-> j, val |-> v, word |-> w, raced |-> {}]
<1>3. /\ j \in DOMAIN Regs /\ e \in Entry /\ e.addr \in Addrs
      /\ v \in Word /\ mem[e.addr] \in Word
  BY <1>1, RowType DEF Loading, Rows
<1>4. w \in Word /\ Value(e, w) = v \cap e.mask /\ Differ(mem[e.addr], w) \subseteq FieldOf(e)
  BY <1>3, MergedField
<1>5. q \in State
  <2>1. {} \in Word
    BY DEF Word
  <2>2. QED BY <1>3, <1>4, <2>1 DEF State, Storing
<1>6. FieldOf(e) \subseteq Settable(e.addr)
  <2>1. e.name = proc[p].name
    BY <1>2 DEF Rows
  <2>2. proc[p].pc = "load"
    BY <1>1 DEF Loading
  <2>3. \E c \in Calls : c.do = "set" /\ c.name = e.name
    BY <1>1, <2>1, <2>2 DEF LoadGood
  <2>4. QED BY <1>3, <2>3 DEF Settable
<1>7. Good(mem, q)
  BY <1>4, <1>6 DEF Good, LoadGood, DumpGood, StoreGood
<1>8. UNCHANGED mem
  BY DEF Load
<1>9. QED BY <1>2, <1>5, <1>7, <1>8, LocalStep

(* A change of memory, by a setreg that ends or by the hardware. *)
LEMMA PutStep ==
  ASSUME IInv, NEW a \in Addrs, NEW new \in Word, Put(a, new),
         Differ(mem[a], new) \subseteq Volatile[a] \cup Settable(a),
         \/ proc' = Noted(a, new)
         \/ \E p \in Procs : proc' = [Noted(a, new) EXCEPT ![p] = Idle]
  PROVE  IInv'
<1>1. mem' \in [Addrs -> Word]
        /\ \A r \in Procs : Noted(a, new)[r] \in State /\ Good(mem', Noted(a, new)[r])
  <2>1. CASE Procs = {}
    BY <2>1 DEF Put, IInv, TypeOK
  <2>2. QED BY <2>1, NotedGood
<1>2. Noted(a, new) \in [Procs -> State]
  <2>1. Noted(a, new) = [r \in Procs |-> Noted(a, new)[r]]
    BY DEF Noted
  <2>2. QED BY <1>1, <2>1
<1>3. proc' \in [Procs -> State] /\ \A r \in Procs : Good(mem', proc'[r])
  <2>1. CASE proc' = Noted(a, new)
    BY <1>1, <1>2, <2>1
  <2>2. ASSUME NEW p \in Procs, proc' = [Noted(a, new) EXCEPT ![p] = Idle]
        PROVE  proc' \in [Procs -> State] /\ \A r \in Procs : Good(mem', proc'[r])
    BY <1>1, <1>2, <2>2, IdleGood
  <2>3. QED BY <2>1, <2>2
<1>4. TypeOK'
  BY <1>1, <1>3 DEF TypeOK, State
<1>5. QED BY <1>3, <1>4 DEF IInv, Good, LoadGood, DumpGood, StoreGood

(* What a store writes is a word, within what may change. *)
LEMMA StoreWord ==
  ASSUME IInv, NEW p \in Procs, proc[p].pc = "store"
  PROVE  /\ proc[p] \in Storing /\ proc[p].word \in Word
         /\ Regs[proc[p].row].addr \in Addrs
         /\ StoreGood(mem, proc[p])
         /\ Differ(mem[Regs[proc[p].row].addr], proc[p].word)
               \subseteq Volatile[Regs[proc[p].row].addr] \cup Settable(Regs[proc[p].row].addr)
<1>1. proc[p] \in Storing /\ StoreGood(mem, proc[p])
  BY DEF IInv, TypeOK, Good, Idle, Dumping, Loading
<1>2. proc[p].word \in Word /\ Regs[proc[p].row].addr \in Addrs
  BY <1>1, RowType DEF Storing
<1>3. QED BY <1>1, <1>2 DEF StoreGood

(* The hardware flips a bit that is its own. *)
LEMMA FlippedBit ==
  ASSUME IInv, NEW a \in Addrs, NEW b \in Volatile[a]
  PROVE  Differ(mem[a], {b}) \in Word /\ Differ(mem[a], Differ(mem[a], {b})) \subseteq Volatile[a]
<1>1. mem[a] \in Word /\ b \in Bit
  BY VolatileAssumption DEF IInv, TypeOK, Word
<1>2. QED BY <1>1 DEF Differ, Word

(* The initial states satisfy the invariant. *)
LEMMA IInvInit == Init => IInv
  BY IdleGood DEF Init, IInv, TypeOK, State

(* The end of an invocation that leaves memory alone. *)
LEMMA ExitStep ==
  ASSUME IInv, NEW p \in Procs, Exit(p), UNCHANGED mem
  PROVE  IInv'
  BY IdleGood, LocalStep DEF Exit

(* Every step keeps the invariant. *)
LEMMA IInvNext == IInv /\ [Next]_vars => IInv'
<1> SUFFICES ASSUME IInv, [Next]_vars PROVE IInv'
  OBVIOUS
<1>1. ASSUME NEW p \in Procs, Invocation(p) PROVE IInv'
  <2>1. ASSUME NEW c \in Calls, Start(p, c) PROVE IInv'
    BY <2>1, BeginGood, LocalStep DEF Start
  <2>2. CASE DumpSkip(p)
    <3> DEFINE d == proc[p]   q == [d EXCEPT !.i = @ + 1]
    <3>1. d \in Dumping /\ d.i \in DOMAIN Regs /\ DumpGood(d)
      BY <2>2 DEF DumpSkip, IInv, TypeOK, Good, Idle, Loading, Storing
    <3>2. d.i + 1 \in 1..(Len(Regs) + 1)
      BY <3>1, RowType
    <3>3. q \in Dumping /\ DumpGood(q) /\ q.pc = "dump"
      BY <3>1, <3>2 DEF Dumping, DumpGood
    <3>4. q \in State /\ Good(mem, q)
      BY <3>3 DEF State, Good, LoadGood, StoreGood
    <3>5. proc' = [proc EXCEPT ![p] = q] /\ UNCHANGED mem
      BY <2>2 DEF DumpSkip
    <3>6. QED BY <3>4, <3>5, LocalStep
  <2>3. CASE DumpEntry(p)
    <3>1. UNCHANGED mem /\ \E q \in State : Entered(p, q)
      BY <2>3, EntryGood
    <3>2. QED BY <3>1, LocalStep DEF Entered
  <2>4. CASE DumpDone(p) \/ Refuse(p) \/ Fail(p)
    BY <2>4, ExitStep DEF DumpDone, Refuse, Fail
  <2>5. CASE Load(p)
    BY <2>5, LoadStep
  <2>6. CASE Store(p)
    <3> DEFINE a == Regs[proc[p].row].addr   w == proc[p].word
    <3>1. a \in Addrs /\ w \in Word /\ Differ(mem[a], w) \subseteq Volatile[a] \cup Settable(a)
      BY <2>6, StoreWord DEF Store
    <3>2. Put(a, w) /\ proc' = [Noted(a, w) EXCEPT ![p] = Idle]
      BY <2>6 DEF Store
    <3>3. QED BY <3>1, <3>2, PutStep
  <2>7. QED BY <1>1, <2>1, <2>2, <2>3, <2>4, <2>5, <2>6 DEF Invocation
<1>2. ASSUME NEW a \in Addrs, NEW b \in Volatile[a], Hardware(a, b) PROVE IInv'
  BY <1>2, FlippedBit, PutStep DEF Hardware
<1>3. CASE UNCHANGED vars
  BY <1>3 DEF vars, IInv, TypeOK, Good, LoadGood, DumpGood, StoreGood
<1>4. QED BY <1>1, <1>2, <1>3 DEF Next

(* The strengthened invariant holds in every reachable state. *)
THEOREM Inductive == Spec => []IInv
<1>1. QED BY IInvInit, IInvNext, PTL DEF Spec

(* Registers stay words and every invocation is in one of its four shapes. *)
THEOREM TypeCorrect == Spec => []TypeOK
<1>1. IInv => TypeOK
  BY DEF IInv
<1>2. QED BY <1>1, Inductive, PTL

(* Where memory changes: one register, by a store or by the hardware. *)
LEMMA MemoryEffect ==
  ASSUME IInv, Next, mem' # mem
  PROVE  \/ \E p \in Procs : Store(p)
         \/ \E a \in Addrs : \E b \in Volatile[a] : Hardware(a, b)
  BY DEF Next, Invocation, Start, DumpSkip, DumpEntry, DumpDone, Refuse, Load, Fail

(* A bit nobody sets and the hardware does not own never changes. *)
THEOREM SpareBitsNeverChange == Spec => SpareBitsStand
<1> DEFINE A == \A a \in Addrs : Differ(mem[a], mem'[a]) \subseteq Volatile[a] \cup Settable(a)
<1>1. IInv /\ [Next]_vars => [A]_vars
  <2> SUFFICES ASSUME IInv, Next PROVE A
    OBVIOUS
  <2>1. mem \in [Addrs -> Word]
    BY DEF IInv, TypeOK
  <2>2. CASE mem' = mem
    BY <2>2 DEF Differ
  <2>3. ASSUME NEW p \in Procs, Store(p) PROVE A
    <3> DEFINE a == Regs[proc[p].row].addr   w == proc[p].word
    <3>1. a \in Addrs /\ Differ(mem[a], w) \subseteq Volatile[a] \cup Settable(a)
      BY <2>3, StoreWord DEF Store
    <3>2. mem' = [mem EXCEPT ![a] = w]
      BY <2>3 DEF Store, Put
    <3>3. QED BY <2>1, <3>1, <3>2 DEF Differ
  <2>4. ASSUME NEW a \in Addrs, NEW b \in Volatile[a], Hardware(a, b) PROVE A
    <3>1. mem' = [mem EXCEPT ![a] = Differ(mem[a], {b})]
      BY <2>4 DEF Hardware, Put
    <3>2. Differ(mem[a], Differ(mem[a], {b})) \subseteq Volatile[a]
      BY FlippedBit
    <3>3. QED BY <2>1, <3>1, <3>2 DEF Differ
  <2>5. QED BY <2>2, <2>3, <2>4, MemoryEffect
<1>2. QED BY <1>1, Inductive, PTL DEF Spec, SpareBitsStand

(* A setreg that has ended in a step that changed memory has stored. *)
LEMMA Stored ==
  ASSUME IInv, Next, NEW p \in Procs, proc[p].pc = "store", mem' # mem, proc'[p] = Idle
  PROVE  Store(p)
<1>1. proc[p] \in Storing
  BY StoreWord
<1>2. ASSUME NEW a \in Addrs, NEW new PROVE Noted(a, new)[p].pc = "store"
  BY <1>1 DEF Noted, Storing
<1>3. ASSUME NEW r \in Procs, Store(r) PROVE r = p
  <2>1. Regs[proc[r].row].addr \in Addrs
    BY <1>3, StoreWord DEF Store
  <2>2. SUFFICES ASSUME r # p PROVE FALSE
    OBVIOUS
  <2>3. proc'[p] = Noted(Regs[proc[r].row].addr, proc[r].word)[p]
    BY <1>3, <2>2 DEF Store, Noted
  <2>4. QED BY <1>2, <2>1, <2>3 DEF Idle
<1>4. ASSUME NEW a \in Addrs, NEW b \in Volatile[a], Hardware(a, b) PROVE FALSE
  BY <1>2, <1>4 DEF Hardware, Idle
<1>5. QED BY <1>3, <1>4, MemoryEffect

(* A completed setreg has its value in its field, and what else it changes *)
(* in the register had changed since the register was read.                *)
THEOREM StoresAreExact == Spec => StoreExact
<1> DEFINE A == \A p \in Procs : proc[p].pc = "store" /\ proc'[p] = Idle /\ mem' # mem =>
         LET e == Regs[proc[p].row]
         IN  /\ \A a \in Addrs \ {e.addr} : mem'[a] = mem[a]
             /\ Value(e, mem'[e.addr]) = proc[p].val \cap e.mask
             /\ Differ(mem[e.addr], mem'[e.addr]) \subseteq FieldOf(e) \cup proc[p].raced
<1>1. IInv /\ [Next]_vars => [A]_vars
  <2> SUFFICES ASSUME IInv, Next, NEW p \in Procs,
                      proc[p].pc = "store", mem' # mem, proc'[p] = Idle
               PROVE  LET e == Regs[proc[p].row]
                      IN  /\ \A a \in Addrs \ {e.addr} : mem'[a] = mem[a]
                          /\ Value(e, mem'[e.addr]) = proc[p].val \cap e.mask
                          /\ Differ(mem[e.addr], mem'[e.addr]) \subseteq FieldOf(e) \cup proc[p].raced
    OBVIOUS
  <2>1. mem \in [Addrs -> Word] /\ proc[p] \in Storing
    BY StoreWord DEF IInv, TypeOK
  <2>3. Store(p)
    BY Stored
  <2>4. Regs[proc[p].row].addr \in Addrs /\ StoreGood(mem, proc[p])
    BY StoreWord
  <2>5. mem' = [mem EXCEPT ![Regs[proc[p].row].addr] = proc[p].word]
    BY <2>3 DEF Store, Put
  <2>6. mem'[Regs[proc[p].row].addr] = proc[p].word
          /\ \A a \in Addrs \ {Regs[proc[p].row].addr} : mem'[a] = mem[a]
    BY <2>1, <2>4, <2>5
  <2> DEFINE e == Regs[proc[p].row]
  <2>7. /\ Value(e, proc[p].word) = proc[p].val \cap e.mask
        /\ Differ(mem[e.addr], proc[p].word) \subseteq FieldOf(e) \cup proc[p].raced
    BY <2>1, <2>4 DEF StoreGood, Storing
  <2>8. /\ \A a \in Addrs \ {e.addr} : mem'[a] = mem[a]
        /\ Value(e, mem'[e.addr]) = proc[p].val \cap e.mask
        /\ Differ(mem[e.addr], mem'[e.addr]) \subseteq FieldOf(e) \cup proc[p].raced
    BY <2>6, <2>7
  <2>9. QED BY <2>8
<1>2. QED BY <1>1, Inductive, PTL DEF Spec, StoreExact

(* What an invocation that dumps before or after a step has done in it *)
LEMMA DumpStep ==
  ASSUME IInv, [Next]_vars, NEW p \in Procs, proc[p].pc = "dump" \/ proc'[p].pc = "dump"
  PROVE  \/ proc'[p] \in {proc[p], Idle}
         \/ \E c \in Calls : proc[p] = Idle /\ proc'[p] = Begin(c)
         \/ DumpSkip(p)
         \/ DumpEntry(p)
<1>1. proc \in [Procs -> State]
  BY DEF IInv, TypeOK, State
<1>2. ASSUME NEW a, NEW new, proc'[p] = Noted(a, new)[p] PROVE proc'[p] = proc[p]
  <2>1. CASE proc[p].pc = "store"
    <3>1. proc[p] \in Storing
      BY <1>1, <2>1 DEF State, Idle, Dumping, Loading
    <3>2. Noted(a, new)[p].pc = "store"
      BY <2>1, <3>1 DEF Noted, Storing
    <3>3. QED BY <1>2, <2>1, <3>2
  <2>2. CASE proc[p].pc # "store"
    BY <1>2, <2>2 DEF Noted
  <2>3. QED BY <2>1, <2>2
<1>3. ASSUME NEW r \in Procs, Invocation(r), r # p PROVE proc'[p] = proc[p]
  <2>1. CASE Store(r)
    <3>1. proc'[p] = Noted(Regs[proc[r].row].addr, proc[r].word)[p]
      BY <1>3, <2>1 DEF Store, Noted
    <3>2. QED BY <1>2, <3>1
  <2>2. CASE Load(r)
    BY <1>1, <1>3, <2>2 DEF Load
  <2>3. CASE DumpEntry(r)
    <3>1. PICK q \in State : Entered(r, q)
      BY <2>3, EntryGood
    <3>2. QED BY <1>1, <1>3, <3>1 DEF Entered
  <2>4. CASE DumpSkip(r) \/ DumpDone(r) \/ Refuse(r) \/ Fail(r) \/ \E c \in Calls : Start(r, c)
    BY <1>1, <1>3, <2>4 DEF DumpSkip, DumpDone, Refuse, Fail, Start, Exit
  <2>5. QED BY <1>3, <2>1, <2>2, <2>3, <2>4 DEF Invocation
<1>4. ASSUME Invocation(p)
      PROVE  \/ proc'[p] = Idle \/ DumpSkip(p) \/ DumpEntry(p)
             \/ \E c \in Calls : proc[p] = Idle /\ proc'[p] = Begin(c)
  <2>1. ASSUME NEW c \in Calls, Start(p, c) PROVE proc[p] = Idle /\ proc'[p] = Begin(c)
    BY <1>1, <2>1 DEF Start
  <2>2. CASE DumpDone(p) \/ Refuse(p) \/ Fail(p) \/ Store(p)
    BY <1>1, <2>2 DEF DumpDone, Refuse, Fail, Exit, Store, Noted
  <2>3. ~Load(p)
    BY <1>1 DEF Load
  <2>4. QED BY <1>4, <2>1, <2>2, <2>3 DEF Invocation
<1>5. ASSUME NEW a \in Addrs, NEW b \in Volatile[a], Hardware(a, b) PROVE proc'[p] = proc[p]
  <2>1. proc'[p] = Noted(a, Differ(mem[a], {b}))[p]
    BY <1>5 DEF Hardware
  <2>2. QED BY <1>2, <2>1
<1>6. CASE UNCHANGED vars
  BY <1>6 DEF vars
<1>7. QED BY <1>3, <1>4, <1>5, <1>6 DEF Next

(* Every field is printed from the word its heading shows. *)
THEOREM FieldsMatchHeadings == Spec => FieldsOfHeading
<1> DEFINE A == \A p \in Procs :
         proc[p].pc = "dump" /\ proc'[p] # Idle /\ proc'[p].field # proc[p].field
           => Prints(proc'[p])
<1>1. IInv /\ [Next]_vars => [A]_vars
  <2> SUFFICES ASSUME IInv, Next, NEW p \in Procs,
                      proc[p].pc = "dump", proc'[p] # Idle, proc'[p].field # proc[p].field
               PROVE  Prints(proc'[p])
    OBVIOUS
  <2>1. proc \in [Procs -> State] /\ proc[p] \in Dumping
    BY DEF IInv, TypeOK, State, Idle, Loading, Storing
  <2>2. DumpEntry(p)
    <3>1. DumpSkip(p) \/ DumpEntry(p)
      BY DumpStep DEF Idle
    <3>2. ~DumpSkip(p)
      <4>1. SUFFICES ASSUME DumpSkip(p) PROVE FALSE
        OBVIOUS
      <4>2. proc'[p] = [proc[p] EXCEPT !.i = @ + 1]
        BY <2>1, <4>1 DEF DumpSkip
      <4>3. QED BY <2>1, <4>2 DEF Dumping
    <3>3. QED BY <3>1, <3>2
  <2>3. PICK q \in State : Entered(p, q)
    BY <2>2, EntryGood
  <2>4. proc'[p] = q /\ (q.field # proc[p].field => Prints(q))
    BY <2>1, <2>3 DEF Entered
  <2>5. QED BY <2>4
<1>2. QED BY <1>1, Inductive, PTL DEF Spec, FieldsOfHeading

(* A row reads the same in two words that do not differ in its bits. *)
LEMMA SameValue ==
  ASSUME NEW e \in Entry, NEW v \in Word, NEW w \in Word, Differ(v, w) \cap FieldOf(e) = {}
  PROVE  Value(e, v) = Value(e, w)
<1>1. e.mask \in Word /\ e.shift \in Nat /\ Bit \subseteq Nat
  BY WidthAssumption DEF Entry, Bit
<1>2. ASSUME NEW b \in e.mask PROVE b + e.shift \in v <=> b + e.shift \in w
  <2>1. b \in Nat /\ b + e.shift \in Bit
    BY <1>1 DEF Entry, Word
  <2>2. b + e.shift >= e.shift /\ (b + e.shift) - e.shift = b
    BY <1>1, <2>1
  <2>3. b + e.shift \in FieldOf(e)
    BY <2>1, <2>2 DEF FieldOf, Shl
  <2>4. QED BY <2>3 DEF Differ
<1>3. QED BY <1>2 DEF Value, Shr

(* A setreg changes what no other row reads, but for rows that overlap its *)
(* own and for bits that others changed meanwhile.                         *)
THEOREM FieldsStayApart == Spec => FieldsApart
<1> DEFINE E == \A p \in Procs : proc[p].pc = "store" /\ proc'[p] = Idle /\ mem' # mem =>
         LET e == Regs[proc[p].row]
         IN  /\ \A a \in Addrs \ {e.addr} : mem'[a] = mem[a]
             /\ Value(e, mem'[e.addr]) = proc[p].val \cap e.mask
             /\ Differ(mem[e.addr], mem'[e.addr]) \subseteq FieldOf(e) \cup proc[p].raced
           A == \A p \in Procs : proc[p].pc = "store" /\ proc'[p] = Idle /\ mem' # mem =>
         LET j == proc[p].row
             Lost(k) == Regs[k].addr = Regs[j].addr
                          /\ FieldOf(Regs[k]) \cap proc[p].raced # {}
         IN  \A k \in DOMAIN Regs :
               Overlap(j, k) \/ Lost(k)
                 \/ Value(Regs[k], mem'[Regs[k].addr]) = Value(Regs[k], mem[Regs[k].addr])
<1>1. IInv /\ IInv' /\ [E]_vars => [A]_vars
  <2> SUFFICES ASSUME IInv, IInv', E, NEW p \in Procs,
                      proc[p].pc = "store", proc'[p] = Idle, mem' # mem, NEW k \in DOMAIN Regs,
                      ~Overlap(proc[p].row, k),
                      ~(/\ Regs[k].addr = Regs[proc[p].row].addr
                        /\ FieldOf(Regs[k]) \cap proc[p].raced # {})
               PROVE  Value(Regs[k], mem'[Regs[k].addr]) = Value(Regs[k], mem[Regs[k].addr])
    BY Zenon
  <2> DEFINE e == Regs[proc[p].row]   f == Regs[k]
  <2>1. f \in Entry /\ f.addr \in Addrs /\ mem[f.addr] \in Word /\ mem'[f.addr] \in Word
    BY RowType DEF IInv, TypeOK
  <2>2. /\ \A a \in Addrs \ {e.addr} : mem'[a] = mem[a]
        /\ Differ(mem[e.addr], mem'[e.addr]) \subseteq FieldOf(e) \cup proc[p].raced
    BY Zenon
  <2>3. CASE f.addr # e.addr
    BY <2>1, <2>2, <2>3
  <2>4. CASE f.addr = e.addr
    <3>1. FieldOf(e) \cap FieldOf(f) = {} /\ FieldOf(f) \cap proc[p].raced = {}
      BY <2>4 DEF Overlap
    <3>2. Differ(mem[f.addr], mem'[f.addr]) \cap FieldOf(f) = {}
      BY <2>2, <2>4, <3>1
    <3>3. QED BY <2>1, <3>2, SameValue
  <2>5. QED BY <2>3, <2>4
<1>2. QED BY <1>1, Inductive, StoresAreExact, PTL DEF StoreExact, FieldsApart

(* Where a dump of everything stands: right behind the row it read last. *)
Behind(q) ==
    q.pc = "dump" /\ q.names = Names =>
      IF q.newaddr THEN q.i = 1 ELSE q.i > 1 /\ q.lastaddr = Regs[q.i - 1].addr
LEMMA BehindStep ==
  ASSUME IInv, [Next]_vars, NEW p \in Procs, Behind(proc[p])
  PROVE  Behind(proc'[p])
<1> SUFFICES ASSUME proc'[p].pc = "dump", proc'[p].names = Names
             PROVE  IF proc'[p].newaddr THEN proc'[p].i = 1
                    ELSE proc'[p].i > 1 /\ proc'[p].lastaddr = Regs[proc'[p].i - 1].addr
  BY DEF Behind
<1>1. proc \in [Procs -> State] /\ mem \in [Addrs -> Word]
  BY DEF IInv, TypeOK, State
<1>2. CASE proc'[p] \in {proc[p], Idle}
  BY <1>2 DEF Behind, Idle
<1>3. ASSUME NEW c \in Calls, proc'[p] = Begin(c) PROVE proc'[p].newaddr /\ proc'[p].i = 1
  BY <1>3 DEF Begin
<1>4. CASE DumpSkip(p)
  <2>1. proc[p] \in Dumping /\ proc'[p] = [proc[p] EXCEPT !.i = @ + 1]
    BY <1>1, <1>4 DEF DumpSkip, State, Idle, Loading, Storing
  <2>2. proc'[p].names = proc[p].names
    BY <2>1 DEF Dumping
  <2>3. QED BY <1>4, <2>2, RowType DEF DumpSkip
<1>5. CASE DumpEntry(p)
  <2> DEFINE d == proc[p]   f == Fresh(d)   j == d.i
  <2>1. d \in Dumping /\ j \in DOMAIN Regs /\ j \in Nat /\ j >= 1 /\ DumpGood(d)
    BY <1>1, <1>5, RowType DEF DumpEntry, State, Idle, Loading, Storing, Good, IInv
  <2>2. f \in Dumping /\ ~f.newaddr /\ f.i = j /\ f.lastaddr = Regs[j].addr
    BY <1>1, <2>1, FreshGood
  <2>3. proc'[p].i = j + 1 /\ ~proc'[p].newaddr /\ proc'[p].lastaddr = Regs[j].addr
    BY <1>1, <1>5, <2>2 DEF DumpEntry, Dumping
  <2>4. QED BY <2>1, <2>3
<1>6. QED BY <1>2, <1>3, <1>4, <1>5, DumpStep

(* When every row heads its register or follows a row of it, a dump of     *)
(* everything heads each register once, under the row for its whole word.  *)
THEOREM HeadingsOnce == HeadedRows => (Spec => HeadedOnce)
<1> SUFFICES ASSUME HeadedRows PROVE Spec => HeadedOnce
  OBVIOUS
<1> DEFINE B == \A p \in Procs : Behind(proc[p])
           A == \A p \in Procs :
         proc[p].pc = "dump" /\ proc[p].names = Names /\ proc'[p] # Idle
         /\ proc'[p].heading # proc[p].heading => Heads(proc'[p].heading.row)
<1>1. Init => B
  BY DEF Init, Behind, Idle
<1>2. IInv /\ B /\ [Next]_vars => B'
  BY BehindStep DEF Behind
<1>3. IInv /\ B /\ [Next]_vars => [A]_vars
  <2> SUFFICES ASSUME IInv, B, Next, NEW p \in Procs,
                      proc[p].pc = "dump", proc[p].names = Names, proc'[p] # Idle,
                      proc'[p].heading # proc[p].heading
               PROVE  Heads(proc'[p].heading.row)
    OBVIOUS
  <2> DEFINE d == proc[p]   j == d.i
  <2>1. proc \in [Procs -> State] /\ mem \in [Addrs -> Word] /\ d \in Dumping /\ DumpGood(d)
    BY DEF IInv, TypeOK, State, Good, Idle, Loading, Storing
  <2>2. DumpSkip(p) \/ DumpEntry(p)
    BY DumpStep DEF Idle
  <2>3. DumpEntry(p)
    <3>1. ~DumpSkip(p)
      BY RowType DEF DumpSkip
    <3>2. QED BY <2>2, <3>1
  <2>4. j \in DOMAIN Regs /\ j \in Nat /\ j >= 1
    BY <2>3, RowType DEF DumpEntry
  <2>5. Fresh(d) \in Dumping
    BY <2>1, <2>4, FreshGood
  <2>6. proc'[p].heading = Fresh(d).heading
    BY <2>1, <2>3, <2>5 DEF DumpEntry, Dumping
  <2>7. (d.newaddr \/ Regs[j].addr # d.lastaddr) /\ Fresh(d).heading.row = j
    BY <2>1, <2>6 DEF Fresh, Dumping
  <2>8. ~(j > 1 /\ Regs[j - 1].addr = Regs[j].addr)
    BY <2>7 DEF Behind
  <2>9. QED BY <2>4, <2>6, <2>7, <2>8 DEF HeadedRows, InPlace
<1>4. QED BY <1>1, <1>2, <1>3, Inductive, PTL DEF Spec, HeadedOnce
=============================================================================
