----------------------------- MODULE ZramProofs -----------------------------
(***************************************************************************)
(* Theorems about the zram script, for any numbers of CPUs.                *)
(***************************************************************************)
EXTENDS Zram, FiniteSetTheorems, TLAPS

Loop == {"reset", "size", "mkswap", "swapon"}

(* While no CPU comes or goes there is one number of devices. *)
OneNumber == ~changed => {loaded, script.num, script.had} \subseteq {0, cpus}

(* What a start has done so far, and the module it has *)
StartGood ==
    script.part = "start" =>
      /\ script.pc = "count" => on = script.found /\ loaded = script.had
      /\ script.pc = "probe" => script.i = 0 /\ on = script.found /\ loaded = script.had
      /\ script.pc \in Loop =>
           /\ loaded = IF script.had = 0 THEN script.num ELSE script.had
           /\ \A j \in on : j \in script.found \/ j < script.i
           /\ \A j \in Device : j < script.i => j \in on
      /\ script.pc = "done" => script.num > 0 /\ \A j \in Device : j < script.num => j \in on
      /\ script.pc \notin {"look", "swapoff", "rmmod"}

(* What a stop has left on so far *)
StopGood ==
    script.part = "stop" =>
      /\ script.pc \in {"look", "swapoff"} => \A j \in on : j >= script.i
      /\ script.pc = "swapoff" => \E j \in on : Matches(script.i, j)
      /\ script.pc = "rmmod" => \A j \in on : j >= script.num
      /\ script.pc \notin Loop \cup {"probe"}

Idle == /\ script.part = "none" => script.pc = "done"
        /\ script.pc = "count" => script.i = 0 /\ script.num = 0

(* The device in hand is one of the module's. *)
Loaded == /\ script.pc \in {"size", "mkswap", "swapon"} => script.i < loaded
          /\ script.pc = "swapon" => script.i \in formatted

IInv == TypeOK /\ Loaded /\ OneNumber /\ StartGood /\ StopGood /\ Idle /\ StartAborts /\ StopAborts

Script == [part : {"none", "start", "stop"}, again : BOOLEAN, num : Cpus \cup {0},
           i : Nat, found : SUBSET Device, had : Cpus \cup {0},
           pc : {"count", "probe", "reset", "size", "mkswap", "swapon",
                 "look", "swapoff", "rmmod"} \cup Ended]

-----------------------------------------------------------------------------
LEMMA InDevice == \A i \in Nat : \A n \in Cpus \cup {0} : i < n => i \in Device
  BY CpusAssumption DEF Device

LEMMA DeviceNat == \A i \in Device : i \in Nat
  BY CpusAssumption DEF Device

LEMMA Typed ==
  ASSUME IInv
  PROVE  /\ cpus \in Cpus /\ cpus \in Nat /\ loaded \in Cpus \cup {0} /\ loaded \in Nat
         /\ size \in [Device -> Nat]
         /\ on \subseteq formatted /\ \A i \in formatted : i \in Device /\ i \in Nat /\ i < loaded
         /\ script \in Script /\ script.num \in Cpus \cup {0} /\ script.num \in Nat
         /\ script.i \in Nat /\ script.had \in Nat /\ script.had \in Cpus \cup {0}
         /\ script.pc \notin Ended \cup {"count"} => script.i < script.num /\ script.i \in Device
         /\ changed \in BOOLEAN /\ changes \in 0..MaxChanges
<1>1. TypeOK
  BY DEF IInv
<1>2. script \in Script
  BY <1>1 DEF TypeOK, Script
<1>3. /\ script.num \in Cpus \cup {0} /\ script.i \in Nat /\ script.had \in Cpus \cup {0}
  BY <1>2 DEF Script
<1>4. /\ cpus \in Cpus /\ loaded \in Cpus \cup {0} /\ size \in [Device -> Nat]
      /\ on \subseteq formatted /\ \A i \in formatted : i \in Device /\ i < loaded
      /\ script.pc \notin Ended \cup {"count"} => script.i < script.num
      /\ changed \in BOOLEAN /\ changes \in 0..MaxChanges
  BY <1>1 DEF TypeOK
<1>5. cpus \in Nat /\ loaded \in Nat /\ script.num \in Nat /\ script.had \in Nat
  <2>1. \A n \in Cpus \cup {0} : n \in Nat
    BY CpusAssumption
  <2>2. QED BY <1>3, <1>4, <2>1
<1>6. script.i < script.num => script.i \in Device
  BY <1>3, InDevice
<1>7. \A i \in formatted : i \in Nat
  BY <1>4, DeviceNat
<1>8. QED BY <1>2, <1>3, <1>4, <1>5, <1>6, <1>7

LEMMA IInvInit == Init => IInv
<1> SUFFICES ASSUME Init PROVE IInv
  OBVIOUS
<1>1. NoSizes \in [Device -> Nat]
  BY DEF NoSizes
<1>2. changes \in 0..MaxChanges /\ changed \in BOOLEAN
  <2>1. changes = 0 /\ changed = FALSE
    BY DEF Init
  <2>2. changes \in 0..MaxChanges
    BY <2>1, BoundAssumption
  <2>3. QED BY <2>1, <2>2, Zenon
<1>3. script \in Script /\ script.pc = "done" /\ script.part = "none" /\ script.num = 0 /\ script.had = 0
  BY DEF Init, Finished, Script, Ended
<1>4. TypeOK
  BY <1>1, <1>2, <1>3 DEF Init, TypeOK, Script, Ended
<1>5. QED BY <1>3, <1>4 DEF Init, IInv, Loaded, OneNumber, StartGood, StopGood, Idle, StartAborts, StopAborts, Loop

-----------------------------------------------------------------------------
(* What a step does to the script: it goes on to pc with device i. *)
Goes(pc, i) ==
    /\ script'.pc = pc /\ script'.i = i
    /\ script'.part = script.part /\ script'.again = script.again /\ script'.num = script.num
    /\ script'.found = script.found /\ script'.had = script.had

LEMMA GoGoes ==
  ASSUME IInv, NEW pc, Go(pc)
  PROVE  Goes(pc, script.i)
  BY Typed DEF Go, Goes, Script

LEMMA AdvanceGoes ==
  ASSUME IInv, NEW pc, NEW after, Advance(pc, after)
  PROVE  \/ script.i + 1 < script.num /\ Goes(pc, script.i + 1)
         \/ script.i + 1 >= script.num /\ Goes(after, script.i)
  BY Typed DEF Advance, Goes, Script

(* The types follow when the kernel's do. *)
Kernel == /\ loaded \in Cpus \cup {0} /\ size \in [Device -> Nat]
          /\ on \subseteq formatted /\ \A i \in formatted : i \in Device /\ i < loaded

LEMMA GoesType ==
  ASSUME IInv, NEW pc \in {"reset", "size", "mkswap", "swapon", "look", "swapoff", "rmmod"} \cup Ended,
         NEW i \in Nat, Go(pc) \/ script' = [script EXCEPT !.i = i, !.pc = pc], Goes(pc, i),
         pc \notin Ended => i < script.num, Kernel', Quiet
  PROVE  TypeOK'
<1>1. script' \in Script
  BY Typed DEF Go, Script
<1>2. script'.pc \notin Ended \cup {"count"} => script'.i < script'.num
  BY DEF Goes
<1>3. QED BY <1>1, <1>2, Typed DEF Kernel, Quiet, TypeOK, Script, Ended

-----------------------------------------------------------------------------
(* One part of the script runs at a time, so that the other says nothing. *)
LEMMA StartNext ==
  ASSUME TypeOK', script'.part = "start", OneNumber', StartGood', Idle', StartAborts', Loaded'
  PROVE  IInv'
  BY DEF IInv, StopGood, StopAborts

LEMMA StopNext ==
  ASSUME TypeOK', script'.part = "stop", OneNumber', StopGood', Idle', StopAborts'
  PROVE  IInv'
  BY DEF IInv, StartGood, StartAborts, Loaded, StopGood, Loop

LEMMA NumberKept ==
  ASSUME IInv, script'.num \in {script.num, cpus}, script'.had \in {script.had, loaded, 0},
         UNCHANGED <<cpus, changed>>, loaded' \in {loaded, script.num, 0}
  PROVE  OneNumber'
  BY DEF IInv, OneNumber

LEMMA CountStep == ASSUME IInv, Count PROVE IInv'
<1>1. script.pc = "count" /\ UNCHANGED <<cpus, changed, changes, loaded, size, formatted, on>>
  BY DEF Count, OnlyScript, kernel
<1>2. script.i = 0 /\ script.num = 0 /\ (script.part = "start" \/ script.part = "stop")
  BY <1>1, Typed DEF IInv, Idle, Script
<1>3. CASE cpus = 0
  <2>1. Go("aborted") /\ Goes("aborted", 0)
    BY <1>2, <1>3, GoGoes DEF Count
  <2>2. TypeOK'
    BY <1>1, <2>1, Typed, GoesType DEF Quiet, Kernel, Ended
  <2>3. OneNumber'
    BY <1>1, <2>1, NumberKept DEF Goes
  <2>4. CASE script.part = "start"
    <3>1. StartGood' /\ Idle' /\ StartAborts' /\ Loaded'
      BY <1>2, <2>1, <2>4 DEF Goes, StartGood, Idle, StartAborts, Loop, Loaded
    <3>2. QED BY <2>1, <2>2, <2>3, <2>4, <3>1, StartNext DEF Goes
  <2>5. CASE script.part = "stop"
    <3>1. StopGood' /\ Idle' /\ StopAborts'
      BY <1>2, <2>1, <2>5 DEF Goes, StopGood, Idle, StopAborts, Loop
    <3>2. QED BY <2>1, <2>2, <2>3, <2>5, <3>1, StopNext DEF Goes
  <2>6. QED BY <1>2, <2>4, <2>5
<1>4. CASE cpus # 0
  <2> DEFINE pc == IF script.part = "start" THEN "probe" ELSE "look"
  <2>1. script' = [script EXCEPT !.num = cpus, !.pc = pc]
    BY <1>4 DEF Count
  <2>2. /\ script' \in Script /\ script'.pc = pc /\ script'.num = cpus /\ script'.i = 0
        /\ script'.part = script.part /\ script'.found = script.found /\ script'.had = script.had
    BY <1>2, <2>1, Typed DEF Script
  <2>3. 0 < cpus
    BY <1>4, Typed
  <2>4. TypeOK'
    BY <1>1, <2>2, <2>3, Typed DEF TypeOK, Script
  <2>5. OneNumber'
    BY <1>1, <2>2, NumberKept
  <2>6. CASE script.part = "start"
    <3>1. on = script.found /\ loaded = script.had
      BY <1>1, <2>6 DEF IInv, StartGood
    <3>2. StartGood' /\ Idle' /\ StartAborts' /\ Loaded'
      BY <1>1, <2>2, <2>6, <3>1 DEF StartGood, Idle, StartAborts, Loop, Loaded
    <3>3. QED BY <2>2, <2>4, <2>5, <2>6, <3>2, StartNext
  <2>7. CASE script.part = "stop"
    <3>1. \A j \in on : j >= 0
      BY Typed
    <3>2. StopGood' /\ Idle' /\ StopAborts'
      BY <1>1, <2>2, <2>7, <3>1 DEF StopGood, Idle, StopAborts, Loop
    <3>3. QED BY <2>2, <2>4, <2>5, <2>7, <3>2, StopNext
  <2>8. QED BY <1>2, <2>6, <2>7
<1>5. QED BY <1>3, <1>4

LEMMA ProbeStep == ASSUME IInv, Probe PROVE IInv'
<1>1. /\ script.pc = "probe" /\ script.part = "start" /\ script.i = 0
      /\ UNCHANGED <<cpus, changed, changes, size, formatted, on>>
      /\ loaded' = IF loaded = 0 THEN script.num ELSE loaded
  BY Typed DEF Probe, Quiet, IInv, StartGood, StopGood, Idle, Script
<1>2. Go("reset") /\ Goes("reset", script.i)
  BY <1>1, GoGoes DEF Probe
<1>3. script.num > 0 /\ loaded <= loaded'
  BY <1>1, Typed DEF Ended
<1>4. TypeOK'
  <2>1. Kernel'
    BY <1>1, <1>3, Typed DEF Kernel
  <2>2. QED BY <1>1, <1>2, <1>3, <2>1, Typed, GoesType DEF Quiet
<1>5. OneNumber'
  BY <1>1, <1>2, NumberKept DEF Goes
<1>6. on = script.found /\ loaded = script.had
  BY <1>1 DEF IInv, StartGood
<1>7. StartGood' /\ Idle' /\ StartAborts' /\ Loaded'
  BY <1>1, <1>2, <1>6, DeviceNat DEF Goes, StartGood, Idle, StartAborts, Loop, Loaded
<1>8. QED BY <1>1, <1>2, <1>4, <1>5, <1>7, StartNext DEF Goes

LEMMA LoopPart ==
  ASSUME IInv, script.pc \in Loop
  PROVE  /\ script.part = "start" /\ script.i < script.num /\ script.i \in Device
         /\ loaded = IF script.had = 0 THEN script.num ELSE script.had
         /\ \A j \in on : j \in script.found \/ j < script.i
         /\ \A j \in Device : j < script.i => j \in on
<1>1. script.part = "start"
  BY Typed DEF IInv, StopGood, Idle, Script, Loop
<1>2. script.i < script.num /\ script.i \in Device
  BY Typed DEF Loop, Ended
<1>3. QED BY <1>1, <1>2 DEF IInv, StartGood

(* The loop goes on with the device in hand. *)
LEMMA LoopNext ==
  ASSUME IInv, script.pc \in Loop, NEW pc \in Loop, Goes(pc, script.i), TypeOK',
         UNCHANGED <<cpus, changed, loaded, on>>, Loaded'
  PROVE  IInv'
<1>1. OneNumber'
  BY NumberKept DEF Goes
<1>2. StartGood' /\ Idle' /\ StartAborts'
  BY LoopPart DEF Goes, StartGood, Idle, StartAborts, Loop
<1>3. QED BY <1>1, <1>2, LoopPart, StartNext DEF Goes

LEMMA ResetStep == ASSUME IInv, Reset PROVE IInv'
<1>1. /\ script.pc = "reset" /\ script.pc \in Loop
      /\ UNCHANGED <<cpus, changed, changes, loaded, on>>
  BY DEF Reset, Quiet, Loop
<1>2. script.part = "start" /\ script.i < script.num /\ script.i \in Device
  BY <1>1, LoopPart
<1>3. CASE script.i < loaded /\ script.i \notin on
  <2>1. /\ Go("size") /\ Goes("size", script.i) /\ formatted' = formatted \ {script.i}
        /\ size' = [size EXCEPT ![script.i] = 0]
    BY <1>3, GoGoes DEF Reset
  <2>2. Kernel'
    BY <1>1, <1>3, <2>1, Typed DEF Kernel
  <2>3. TypeOK'
    BY <1>1, <1>2, <2>1, <2>2, Typed, GoesType DEF Quiet
  <2>4. Loaded'
    BY <1>1, <1>3, <2>1 DEF Goes, Loaded
  <2>5. QED BY <1>1, <2>1, <2>3, <2>4, LoopNext DEF Loop
<1>4. CASE ~(script.i < loaded /\ script.i \notin on)
  <2>1. Go("aborted") /\ Goes("aborted", script.i) /\ UNCHANGED <<size, formatted>>
    BY <1>4, GoGoes DEF Reset
  <2>2. TypeOK'
    BY <1>1, <2>1, Typed, GoesType DEF Quiet, Kernel, Ended
  <2>3. StartAborts'
    <3>1. CASE script.i \in on
      BY <1>1, <1>2, <2>1, <3>1, LoopPart, Typed DEF Goes, StartAborts
    <3>2. CASE script.i >= loaded
      <4>1. script.had > 0 /\ script.had < script.num
        BY <1>1, <1>2, <3>2, LoopPart, Typed
      <4>2. changed
        BY <4>1, Typed DEF IInv, OneNumber
      <4>3. QED BY <1>1, <2>1, <4>1, <4>2 DEF Goes, StartAborts
    <3>3. QED BY <1>4, <3>1, <3>2, Typed
  <2>4. OneNumber'
    BY <1>1, <2>1, NumberKept DEF Goes
  <2>5. StartGood' /\ Idle' /\ Loaded'
    BY <1>2, <2>1 DEF Goes, StartGood, Idle, Loop, Loaded
  <2>6. QED BY <1>2, <2>1, <2>2, <2>3, <2>4, <2>5, StartNext DEF Goes
<1>5. QED BY <1>3, <1>4

LEMMA SizeStep == ASSUME IInv, DiskSize PROVE IInv'
<1>1. /\ script.pc = "size" /\ script.pc \in Loop
      /\ UNCHANGED <<cpus, changed, changes, loaded, formatted, on>>
      /\ size' = [size EXCEPT ![script.i] = Share(script.num)]
  BY DEF DiskSize, Quiet, Loop
<1>2. Go("mkswap") /\ Goes("mkswap", script.i)
  BY GoGoes DEF DiskSize
<1>3. Share(script.num) \in Nat
  <2>1. script.num \in Nat /\ script.num > 0
    BY <1>1, LoopPart, Typed
  <2>2. Memory \div script.num \in Nat
    BY <2>1, MemoryAssumption
  <2>3. (Memory \div script.num) * Factor \in Nat
    BY <2>2, MemoryAssumption
  <2>4. QED BY <2>3 DEF Share
<1>4. TypeOK'
  <2>1. Kernel'
    BY <1>1, <1>3, Typed DEF Kernel
  <2>2. QED BY <1>1, <1>2, <2>1, LoopPart, Typed, GoesType DEF Quiet
<1>5. Loaded'
  BY <1>1, <1>2 DEF Goes, IInv, Loaded
<1>6. QED BY <1>1, <1>2, <1>4, <1>5, LoopNext DEF Loop

LEMMA MkSwapStep == ASSUME IInv, MkSwap PROVE IInv'
<1>1. /\ script.pc = "mkswap" /\ script.pc \in Loop
      /\ UNCHANGED <<cpus, changed, changes, loaded, size, on>>
      /\ formatted' = formatted \cup {script.i}
  BY DEF MkSwap, Quiet, Loop
<1>2. Go("swapon") /\ Goes("swapon", script.i)
  BY GoGoes DEF MkSwap
<1>3. script.i \in Device /\ script.i < loaded
  BY <1>1, LoopPart, Typed DEF IInv, Loaded
<1>4. TypeOK'
  <2>1. Kernel'
    BY <1>1, <1>3, Typed DEF Kernel
  <2>2. QED BY <1>1, <1>2, <2>1, LoopPart, Typed, GoesType DEF Quiet
<1>5. Loaded'
  BY <1>1, <1>2, <1>3 DEF Goes, Loaded
<1>6. QED BY <1>1, <1>2, <1>4, <1>5, LoopNext DEF Loop

LEMMA SwapOnStep == ASSUME IInv, SwapOn PROVE IInv'
<1>1. /\ script.pc = "swapon" /\ script.pc \in Loop
      /\ UNCHANGED <<cpus, changed, changes, loaded, size, formatted>>
      /\ on' = on \cup {script.i} /\ Advance("reset", "done")
  BY DEF SwapOn, Quiet, Loop
<1>2. script.i \in formatted
  BY <1>1 DEF IInv, Loaded
<1>3. /\ script.part = "start" /\ script.i < script.num /\ script.i \in Device
      /\ loaded = IF script.had = 0 THEN script.num ELSE script.had
      /\ \A j \in on : j \in script.found \/ j < script.i
      /\ \A j \in Device : j < script.i => j \in on
  BY <1>1, LoopPart
<1>4. Kernel'
  BY <1>1, <1>2, Typed DEF Kernel
<1>5. CASE script.i + 1 < script.num /\ Goes("reset", script.i + 1)
  <2>1. TypeOK'
    <3>1. script' = [script EXCEPT !.i = script.i + 1, !.pc = "reset"]
      BY <1>1, <1>5, Typed DEF Advance
    <3>2. script.i + 1 \in Nat
      BY Typed
    <3>3. QED BY <1>1, <1>4, <1>5, <3>1, <3>2, GoesType DEF Quiet
  <2>2. OneNumber'
    BY <1>1, <1>5, NumberKept DEF Goes
  <2>3. StartGood' /\ Idle' /\ StartAborts' /\ Loaded'
    BY <1>1, <1>3, <1>5, Typed, DeviceNat DEF Goes, StartGood, Idle, StartAborts, Loop, Loaded
  <2>4. QED BY <1>3, <1>5, <2>1, <2>2, <2>3, StartNext DEF Goes
<1>6. CASE script.i + 1 >= script.num /\ Goes("done", script.i)
  <2>1. TypeOK'
    <3>1. Go("done")
      BY <1>1, <1>6, Typed DEF Advance, Go
    <3>2. QED BY <1>1, <1>4, <1>6, <3>1, Typed, GoesType DEF Quiet, Ended
  <2>2. OneNumber'
    BY <1>1, <1>6, NumberKept DEF Goes
  <2>3. StartGood' /\ Idle' /\ StartAborts' /\ Loaded'
    BY <1>1, <1>3, <1>6, Typed, DeviceNat DEF Goes, StartGood, Idle, StartAborts, Loop, Loaded
  <2>4. QED BY <1>3, <1>6, <2>1, <2>2, <2>3, StartNext DEF Goes
<1>7. QED BY <1>1, <1>5, <1>6, AdvanceGoes

-----------------------------------------------------------------------------
LEMMA StopPart ==
  ASSUME IInv, script.pc \in {"look", "swapoff", "rmmod"}
  PROVE  /\ script.part = "stop" /\ script.i < script.num /\ script.num > 0
         /\ script.pc \in {"look", "swapoff"} => \A j \in on : j >= script.i
<1>1. script.part = "stop"
  BY Typed DEF IInv, StartGood, Idle, Script
<1>2. script.i < script.num
  BY Typed DEF Ended
<1>3. QED BY <1>1, <1>2, Typed DEF IInv, StopGood

(* The device in hand is off: the next one, or the module, follows. *)
LEMMA OffNext ==
  ASSUME IInv, script.pc \in {"look", "swapoff"}, Advance("look", "rmmod"),
         UNCHANGED <<cpus, changed, changes, loaded, size, formatted>>, on' = on \ {script.i}
  PROVE  IInv'
<1>1. /\ script.part = "stop" /\ script.i < script.num /\ script.num > 0
      /\ \A j \in on : j >= script.i
  BY StopPart
<1>2. Kernel'
  BY Typed DEF Kernel
<1>3. \A j \in on' : j >= script.i + 1
  BY <1>1, Typed
<1>4. CASE script.i + 1 < script.num /\ Goes("look", script.i + 1)
  <2>1. TypeOK'
    <3>1. script' = [script EXCEPT !.i = script.i + 1, !.pc = "look"]
      BY <1>4, Typed DEF Advance
    <3>2. script.i + 1 \in Nat
      BY Typed
    <3>3. QED BY <1>2, <1>4, <3>1, <3>2, GoesType DEF Quiet
  <2>2. OneNumber'
    BY <1>4, NumberKept DEF Goes
  <2>3. StopGood' /\ Idle' /\ StopAborts'
    BY <1>1, <1>3, <1>4 DEF Goes, StopGood, Idle, StopAborts, Loop
  <2>4. QED BY <1>1, <1>4, <2>1, <2>2, <2>3, StopNext DEF Goes
<1>5. CASE script.i + 1 >= script.num /\ Goes("rmmod", script.i)
  <2>1. TypeOK'
    <3>1. Go("rmmod")
      BY <1>5, Typed DEF Advance, Go
    <3>2. QED BY <1>1, <1>2, <1>5, <3>1, Typed, GoesType DEF Quiet, Ended
  <2>2. OneNumber'
    BY <1>5, NumberKept DEF Goes
  <2>3. \A j \in on' : j >= script.num
    BY <1>3, <1>5, Typed
  <2>4. StopGood' /\ Idle' /\ StopAborts'
    BY <1>1, <1>5, <2>3 DEF Goes, StopGood, Idle, StopAborts, Loop
  <2>5. QED BY <1>1, <1>5, <2>1, <2>2, <2>4, StopNext DEF Goes
<1>6. QED BY <1>4, <1>5, AdvanceGoes

LEMMA LookStep == ASSUME IInv, Look PROVE IInv'
<1>1. script.pc = "look" /\ UNCHANGED <<cpus, changed, changes, loaded, size, formatted, on>>
  BY DEF Look, OnlyScript, kernel
<1>2. /\ script.part = "stop" /\ script.i < script.num /\ script.num > 0
      /\ \A j \in on : j >= script.i
  BY <1>1, StopPart
<1>3. CASE \E j \in on : Matches(script.i, j)
  <2>1. Go("swapoff") /\ Goes("swapoff", script.i)
    BY <1>3, GoGoes DEF Look
  <2>2. TypeOK'
    BY <1>1, <1>2, <2>1, Typed, GoesType DEF Quiet, Kernel
  <2>3. OneNumber'
    BY <1>1, <2>1, NumberKept DEF Goes
  <2>4. StopGood' /\ Idle' /\ StopAborts'
    BY <1>1, <1>2, <1>3, <2>1 DEF Goes, StopGood, Idle, StopAborts, Loop
  <2>5. QED BY <1>2, <2>1, <2>2, <2>3, <2>4, StopNext DEF Goes
<1>4. CASE ~\E j \in on : Matches(script.i, j)
  <2>1. on' = on \ {script.i}
    BY <1>1, <1>4 DEF Matches
  <2>2. Advance("look", "rmmod")
    BY <1>4 DEF Look
  <2>3. QED BY <1>1, <2>1, <2>2, OffNext
<1>5. QED BY <1>3, <1>4

LEMMA SwapOffStep == ASSUME IInv, SwapOff PROVE IInv'
<1>1. script.pc = "swapoff" /\ UNCHANGED <<cpus, changed, changes, loaded, size, formatted>>
  BY DEF SwapOff, Quiet
<1>2. /\ script.part = "stop" /\ script.i < script.num /\ script.num > 0
      /\ \E j \in on : Matches(script.i, j)
  BY <1>1, StopPart DEF IInv, StopGood
<1>3. CASE script.i \in on
  BY <1>1, <1>3, OffNext DEF SwapOff
<1>4. CASE script.i \notin on
  <2>1. Go("aborted") /\ Goes("aborted", script.i) /\ UNCHANGED on
    BY <1>4, GoGoes DEF SwapOff
  <2>2. TypeOK'
    BY <1>1, <2>1, Typed, GoesType DEF Quiet, Kernel, Ended
  <2>3. PICK j \in on : script.i > 0 /\ (j \div 10 = script.i \/ j \div 100 = script.i)
    BY <1>2, <1>4 DEF Matches
  <2>4. j >= 10
    BY <2>3, Typed
  <2>5. StopGood' /\ Idle' /\ StopAborts'
    BY <1>2, <2>1, <2>4 DEF Goes, StopGood, Idle, StopAborts, Loop
  <2>6. OneNumber'
    BY <1>1, <2>1, NumberKept DEF Goes
  <2>7. QED BY <1>2, <2>1, <2>2, <2>5, <2>6, StopNext DEF Goes
<1>5. QED BY <1>3, <1>4

LEMMA RmModStep == ASSUME IInv, RmMod PROVE IInv'
<1>1. script.pc = "rmmod" /\ UNCHANGED <<cpus, changed, changes, on>>
  BY DEF RmMod, Quiet
<1>2. /\ script.part = "stop" /\ script.i < script.num /\ script.num > 0
      /\ \A j \in on : j >= script.num
  BY <1>1, StopPart DEF IInv, StopGood
<1>3. CASE loaded > 0 /\ on = {}
  <2>1. loaded' = 0 /\ size' = NoSizes /\ formatted' = {} /\ on' = {}
    BY <1>1, <1>3 DEF RmMod
  <2>2. Kernel'
    BY <2>1 DEF Kernel, NoSizes
  <2>3. CASE script.again
    <3>1. script' = [Begin("start", FALSE) EXCEPT !.had = 0]
      BY <1>3, <2>3 DEF RmMod
    <3>2. /\ script' \in Script /\ script'.part = "start" /\ script'.pc = "count" /\ script'.i = 0
          /\ script'.num = 0 /\ script'.found = {} /\ script'.had = 0
      BY <1>3, <3>1 DEF Begin, Script
    <3>3. TypeOK'
      BY <1>1, <2>1, <2>2, <3>2, Typed DEF TypeOK, Script, Kernel
    <3>4. OneNumber' /\ StartGood' /\ Idle' /\ StartAborts' /\ Loaded'
      BY <2>1, <3>2 DEF OneNumber, StartGood, Idle, StartAborts, Loop, Loaded
    <3>5. QED BY <3>2, <3>3, <3>4, StartNext
  <2>4. CASE ~script.again
    <3>1. Go("done") /\ Goes("done", script.i)
      BY <1>3, <2>4, GoGoes DEF RmMod
    <3>2. TypeOK'
      BY <1>1, <2>2, <3>1, Typed, GoesType DEF Quiet, Ended
    <3>3. OneNumber'
      BY <1>1, <2>1, <3>1, NumberKept DEF Goes
    <3>4. StopGood' /\ Idle' /\ StopAborts'
      BY <1>2, <3>1 DEF Goes, StopGood, Idle, StopAborts, Loop
    <3>5. QED BY <1>2, <3>1, <3>2, <3>3, <3>4, StopNext DEF Goes
  <2>5. QED BY <2>3, <2>4
<1>4. CASE ~(loaded > 0 /\ on = {})
  <2>1. Go("aborted") /\ Goes("aborted", script.i) /\ UNCHANGED <<loaded, size, formatted>>
    BY <1>4, GoGoes DEF RmMod
  <2>2. TypeOK'
    BY <1>1, <2>1, Typed, GoesType DEF Quiet, Kernel, Ended
  <2>3. OneNumber'
    BY <1>1, <2>1, NumberKept DEF Goes
  <2>4. StopAborts'
    <3>1. CASE loaded = 0
      BY <2>1, <3>1 DEF Goes, StopAborts
    <3>2. CASE loaded > 0
      <4>1. PICK j \in on : j >= script.num
        BY <1>2, <1>4, <3>2
      <4>2. changed
        BY <1>2, <3>2, <4>1, Typed DEF IInv, OneNumber
      <4>3. QED BY <1>1, <2>1, <4>1, <4>2 DEF Goes, StopAborts
    <3>3. QED BY <3>1, <3>2, Typed
  <2>5. StopGood' /\ Idle'
    BY <1>2, <2>1 DEF Goes, StopGood, Idle, Loop
  <2>6. QED BY <1>2, <2>1, <2>2, <2>3, <2>4, <2>5, StopNext DEF Goes
<1>5. QED BY <1>3, <1>4

-----------------------------------------------------------------------------
LEMMA RefusedStep == ASSUME IInv, Refused PROVE IInv'
<1>1. script.pc \notin Ended /\ UNCHANGED <<cpus, changed, changes, loaded, size, formatted, on>>
  BY DEF Refused, OnlyScript, kernel
<1>2. Go("refused") /\ Goes("refused", script.i)
  BY GoGoes DEF Refused
<1>3. TypeOK'
  BY <1>1, <1>2, Typed, GoesType DEF Quiet, Kernel, Ended
<1>4. OneNumber'
  BY <1>1, <1>2, NumberKept DEF Goes
<1>5. script.part = "start" \/ script.part = "stop"
  BY <1>1, Typed DEF IInv, Idle, Script, Ended
<1>6. StartGood' /\ StopGood' /\ Idle' /\ StartAborts' /\ StopAborts' /\ Loaded'
  BY <1>2, <1>5 DEF Goes, StartGood, StopGood, Idle, StartAborts, StopAborts, Loaded, Loop
<1>7. QED BY <1>3, <1>4, <1>6 DEF IInv

LEMMA CommandStep == ASSUME IInv, NEW c, Command(c) PROVE IInv'
<1>1. UNCHANGED <<cpus, changed, loaded, size, formatted, on>> /\ Counted
  BY DEF Command, kernel
<1>2. PICK part \in {"start", "stop"} : script' = Begin(part, c = "restart")
  BY DEF Command
<1>3. (c = "restart") \in BOOLEAN
  OBVIOUS
<1>4. /\ script' \in Script /\ script'.part = part /\ script'.pc = "count" /\ script'.i = 0
      /\ script'.num = 0 /\ script'.found = on /\ script'.had = loaded
  BY <1>2, <1>3, Typed DEF Begin, Script
<1>5. changes' \in 0..MaxChanges
  BY <1>1, Typed, BoundAssumption DEF Counted
<1>6. TypeOK'
  BY <1>1, <1>4, <1>5, Typed DEF TypeOK, Script
<1>7. OneNumber'
  BY <1>1, <1>4 DEF IInv, OneNumber
<1>8. CASE part = "start"
  <2>1. StartGood' /\ Idle' /\ StartAborts' /\ Loaded'
    BY <1>1, <1>4, <1>8 DEF StartGood, Idle, StartAborts, Loaded, Loop
  <2>2. QED BY <1>4, <1>6, <1>7, <1>8, <2>1, StartNext
<1>9. CASE part = "stop"
  <2>1. StopGood' /\ Idle' /\ StopAborts'
    BY <1>1, <1>4, <1>9 DEF StopGood, Idle, StopAborts, Loop
  <2>2. QED BY <1>4, <1>6, <1>7, <1>9, <2>1, StopNext
<1>10. QED BY <1>8, <1>9

LEMMA HotplugStep == ASSUME IInv, Hotplug PROVE IInv'
<1>1. /\ cpus' \in Cpus /\ changed' = TRUE /\ changes' \in 0..MaxChanges
      /\ UNCHANGED <<loaded, size, formatted, on, script>>
  BY Typed, BoundAssumption DEF Hotplug, Counted, kernel
<1>2. TypeOK'
  <2>1. TypeOK /\ changed' \in BOOLEAN
    BY <1>1, Zenon DEF IInv
  <2>2. QED BY <1>1, <2>1 DEF TypeOK
<1>3. OneNumber' /\ StartGood' /\ StopGood' /\ Idle' /\ Loaded'
  BY <1>1 DEF IInv, OneNumber, StartGood, StopGood, Idle, Loaded
<1>4. StartAborts'
  BY <1>1 DEF IInv, StartAborts
<1>5. StopAborts'
  BY <1>1 DEF IInv, StopAborts
<1>6. QED BY <1>2, <1>3, <1>4, <1>5 DEF IInv

LEMMA RebootStep == ASSUME IInv, Reboot PROVE IInv'
<1>1. NoSizes \in [Device -> Nat] /\ changes' \in 0..MaxChanges
  BY Typed, BoundAssumption DEF NoSizes, Reboot, Counted
<1>2. script' \in Script /\ script'.pc = "done" /\ script'.part = "none" /\ script'.num = 0
      /\ script'.had = 0
  BY DEF Reboot, Finished, Script, Ended
<1>3. loaded' = 0 /\ size' = NoSizes /\ formatted' = {} /\ on' = {} /\ UNCHANGED <<cpus, changed>>
  BY DEF Reboot
<1>4. TypeOK'
  BY <1>1, <1>2, <1>3, Typed DEF TypeOK, Script, Ended
<1>5. OneNumber' /\ StartGood' /\ StopGood' /\ Idle' /\ StartAborts' /\ StopAborts' /\ Loaded'
  BY <1>2, <1>3 DEF OneNumber, StartGood, StopGood, Idle, StartAborts, StopAborts, Loaded, Loop
<1>6. QED BY <1>4, <1>5 DEF IInv

LEMMA IInvNext == IInv /\ [Next]_vars => IInv'
<1> SUFFICES ASSUME IInv, [Next]_vars PROVE IInv'
  OBVIOUS
<1>1. CASE UNCHANGED vars
  BY <1>1 DEF vars, kernel, IInv, TypeOK, OneNumber, StartGood, StopGood, Idle, StartAborts,
         StopAborts, Loaded
<1>2. ASSUME NEW c, Command(c) PROVE IInv'
  BY <1>2, CommandStep
<1>3. CASE Step
  BY <1>3, CountStep, ProbeStep, ResetStep, SizeStep, MkSwapStep, SwapOnStep, LookStep,
     SwapOffStep, RmModStep, RefusedStep DEF Step
<1>4. QED BY <1>1, <1>2, <1>3, HotplugStep, RebootStep DEF Next

LEMMA Invariant == Spec => []IInv
<1>1. QED BY IInvInit, IInvNext, PTL DEF Spec

-----------------------------------------------------------------------------
(* What is swapped on is formatted and the module's. *)
THEOREM TypeCorrect == Spec => []TypeOK
<1>1. IInv => TypeOK
  BY DEF IInv
<1>2. QED BY <1>1, Invariant, PTL

(* A start that ends well has a swap on for each CPU. *)
THEOREM Started == Spec => []StartedFully
<1>1. IInv => StartedFully
  <2> SUFFICES ASSUME IInv, script.part = "start", script.pc = "done"
               PROVE  /\ \A i \in Device : i < script.num => i \in on
                      /\ ~changed => \A i \in on : i < script.num
    BY DEF StartedFully
  <2>1. script.num > 0 /\ \A i \in Device : i < script.num => i \in on
    BY DEF IInv, StartGood
  <2>2. ASSUME ~changed, NEW i \in on PROVE i < script.num
    BY <2>1, <2>2, Typed DEF IInv, OneNumber
  <2>3. QED BY <2>1, <2>2
<1>2. QED BY <1>1, Invariant, PTL

(* Why a start fails for itself *)
THEOREM StartFails == Spec => []StartAborts
<1>1. IInv => StartAborts
  BY DEF IInv
<1>2. QED BY <1>1, Invariant, PTL

(* Why a stop fails for itself *)
THEOREM StopFails == Spec => []StopAborts
<1>1. IInv => StopAborts
  BY DEF IInv
<1>2. QED BY <1>1, Invariant, PTL

-----------------------------------------------------------------------------
(* Beyond IInv: while no CPU comes or goes, each device has no size or the  *)
(* share of as many as there are CPUs.                                      *)
Sized == ~changed => \A i \in Device : size[i] = 0 \/ size[i] = Share(cpus)

LEMMA SizedInit == Init => Sized
  BY DEF Init, Sized, NoSizes

LEMMA SizedNext == IInv /\ Sized /\ [Next]_vars => Sized'
<1> SUFFICES ASSUME IInv, Sized, [Next]_vars PROVE Sized'
  OBVIOUS
<1>1. CASE UNCHANGED <<cpus, changed, size>>
  BY <1>1 DEF Sized, Share
<1>2. CASE size' = NoSizes
  BY <1>2 DEF Sized, NoSizes
<1>3. CASE Reset
  <2>1. UNCHANGED <<cpus, changed>> /\ (size' = size \/ size' = [size EXCEPT ![script.i] = 0])
    BY <1>3 DEF Reset, Quiet
  <2>2. QED BY <2>1, Typed DEF Sized, Share
<1>4. CASE DiskSize
  <2>1. /\ UNCHANGED <<cpus, changed>> /\ script.pc = "size"
        /\ size' = [size EXCEPT ![script.i] = Share(script.num)]
    BY <1>4 DEF DiskSize, Quiet
  <2>2. script.num > 0
    BY <2>1, Typed DEF Ended
  <2>3. ~changed => script.num = cpus
    BY <2>2, Typed DEF IInv, OneNumber
  <2>4. QED BY <2>1, <2>3, Typed DEF Sized, Share
<1>5. CASE Hotplug
  BY <1>5 DEF Hotplug, Sized
<1>6. CASE RmMod
  <2>1. UNCHANGED <<cpus, changed>> /\ (size' = size \/ size' = NoSizes)
    BY <1>6 DEF RmMod, Quiet
  <2>2. QED BY <1>1, <1>2, <2>1
<1>7. CASE Reboot
  BY <1>2, <1>7 DEF Reboot
<1>8. CASE Count \/ Look \/ Refused
  BY <1>1, <1>8 DEF Count, Look, Refused, OnlyScript, kernel
<1>9. CASE Probe \/ MkSwap \/ SwapOn \/ SwapOff
  BY <1>1, <1>9 DEF Probe, MkSwap, SwapOn, SwapOff, Quiet
<1>10. ASSUME NEW c, Command(c) PROVE Sized'
  BY <1>1, <1>10 DEF Command, kernel
<1>11. CASE UNCHANGED vars
  BY <1>1, <1>11 DEF vars, kernel
<1>12. QED
  BY <1>3, <1>4, <1>5, <1>6, <1>7, <1>8, <1>9, <1>10, <1>11 DEF Next, Step

(* As many shares as there are CPUs are within the configured one. *)
LEMMA ShareAddsUp ==
  ASSUME NEW n \in Nat, n > 0, NEW c \in Nat, c <= n
  PROVE  Share(n) * c <= (Memory * Factor) \div 100
<1> DEFINE m == Memory \div n
           s == (m * Factor) \div 100
<1>1. m \in Nat /\ m * n <= Memory
  BY MemoryAssumption
<1>2. m * Factor \in Nat /\ m * n \in Nat /\ Memory * Factor \in Nat
  BY <1>1, MemoryAssumption
<1>3. s \in Nat /\ s * 100 <= m * Factor
  BY <1>2
<1> HIDE DEF m, s
<1>4. s * c <= s * n
  BY <1>3
<1>5. (s * 100) * n <= (m * Factor) * n
  BY <1>2, <1>3
<1>6. (m * n) * Factor <= Memory * Factor
  BY <1>1, <1>2, MemoryAssumption
<1>7. (m * Factor) * n = (m * n) * Factor /\ (s * 100) * n = (s * n) * 100
  BY <1>1, <1>3, MemoryAssumption
<1>8. (s * n) * 100 <= Memory * Factor
  <2>1. (s * n) * 100 <= (m * n) * Factor
    BY <1>5, <1>7
  <2>2. s * n \in Nat /\ (m * n) * Factor \in Nat
    BY <1>2, <1>3, MemoryAssumption
  <2>3. QED BY <1>2, <1>6, <2>1, <2>2
<1>9. s * n <= (Memory * Factor) \div 100
  <2> DEFINE a == s * n
             b == Memory * Factor
  <2>1. a \in Nat /\ b \in Nat /\ a * 100 <= b
    BY <1>2, <1>3, <1>8
  <2> HIDE DEF a, b
  <2>2. a <= b \div 100
    BY <2>1
  <2>3. QED BY <2>2 DEF a, b
<1>10. Share(n) = s
  BY DEF Share, s, m
<1>11. s * c \in Nat /\ s * n \in Nat /\ (Memory * Factor) \div 100 \in Nat
  BY <1>2, <1>3
<1>12. QED BY <1>4, <1>9, <1>10, <1>11

(* The devices that are on are no more than the module's. *)
LEMMA OnAtMostLoaded ==
  ASSUME IInv
  PROVE  Cardinality(on) \in Nat /\ Cardinality(on) <= loaded
<1>1. on \subseteq 0..(loaded - 1)
  BY Typed
<1>2. IsFiniteSet(0..(loaded - 1)) /\ Cardinality(0..(loaded - 1)) = loaded
  <2>1. loaded \in Nat /\ loaded - 1 \in Int /\ 0 \in Int
    BY Typed
  <2> DEFINE b == loaded - 1
  <2>2. IsFiniteSet(0..b) /\ Cardinality(0..b) = IF 0 > b THEN 0 ELSE b - 0 + 1
    <3> HIDE DEF b
    <3>1. b \in Int
      BY <2>1 DEF b
    <3>2. QED BY <3>1, FS_Interval
  <2>3. QED BY <2>1, <2>2
<1>3. QED BY <1>1, <1>2, FS_Subset, FS_CardinalityType, ZenonT(40)

(* The swaps together never have more than the configured part of the       *)
(* memory, as long as no CPU comes or goes.                                 *)
THEOREM MemoryBounded == Spec => []WithinFactor
<1>1. IInv /\ Sized => WithinFactor
  <2> SUFFICES ASSUME IInv, Sized, ~changed, NEW i \in on
               PROVE  size[i] * Cardinality(on) <= (Memory * Factor) \div 100
    BY DEF WithinFactor
  <2>1. i \in Device /\ loaded > 0
    BY Typed
  <2>2. loaded = cpus
    BY <2>1, Typed DEF IInv, OneNumber
  <2>3. size[i] = 0 \/ size[i] = Share(cpus)
    BY <2>1 DEF Sized
  <2>4. CASE size[i] = Share(cpus)
    BY <2>1, <2>2, <2>4, Typed, OnAtMostLoaded, ShareAddsUp
  <2>5. CASE size[i] = 0
    <3>1. (Memory * Factor) \div 100 \in Nat
      <4>1. Memory * Factor \in Nat
        BY MemoryAssumption
      <4>2. QED BY <4>1
    <3>2. QED BY <2>5, <3>1, OnAtMostLoaded
  <2>6. QED BY <2>3, <2>4, <2>5
<1>2. Spec => []Sized
  BY Invariant, SizedInit, SizedNext, PTL DEF Spec
<1>3. QED BY <1>1, <1>2, Invariant, PTL
=============================================================================
