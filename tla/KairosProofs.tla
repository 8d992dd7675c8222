---------------------------- MODULE KairosProofs ----------------------------
(***************************************************************************)
(* The Kairos cell for every number of laps: kernel and CPU agree on the   *)
(* task that runs, no frame is lost, no switch is declined, and main       *)
(* reports only once both workers are parked.                              *)
(***************************************************************************)
EXTENDS KairosCell, TLAPS

Other(w) == 1 - w

\* where a task that does not hold the CPU may stand, and where a task holds the mask
Away    == {"yield", "lap", "parked"}
Section == {"resume main", "suspend", "unmask"}
Past(w) == pc[w] \notin {"yield", "lap"}

\* `saved` of a task off the CPU is its own frame, created or not
Frames == \A t \in Owner : t # cpu => saved[t] = t

\* up to the store of STARTED only main runs, and no one was ever suspended
BootInv == ~started =>
  /\ cpu = MAIN /\ ~masked /\ ~declined /\ suspended = {} /\ done = 0
  /\ \A w \in Worker : pc[w] = "yield" /\ laps[w] = 0 /\ mine[w] = 0
  /\ pc[MAIN] \in {"create main", "create workers", "start", "enable", "store", "halt"}
  /\ pc[MAIN] = "create main" => created = {} /\ slots = {}
  /\ pc[MAIN] = "create workers" => created \subseteq Owner /\ MAIN \in created /\ slots = created
  /\ pc[MAIN] = "start" => created = Owner /\ slots = Owner
  /\ pc[MAIN] \in {"enable", "store"} => created = Task /\ slots = Owner
  /\ pc[MAIN] = "store" => enabled
  /\ pc[MAIN] \in {"create workers", "start", "enable", "store"} => current = MAIN

\* the kernel, the handler and the mask agree on who runs
RunInv == started =>
  /\ created = Task /\ slots = Owner /\ enabled /\ ~declined /\ current = cpu
  /\ suspended \subseteq Owner
  /\ masked <=> pc[cpu] \in Section
  /\ pc[MAIN] \in {"stand down", "suspend", "unmask", "report", "halt"}
  /\ cpu # MAIN => pc[MAIN] = "report"

\* a worker's way from its laps to being parked
WorkInv == started => \A w \in Worker :
  /\ pc[w] \in {"yield", "lap", "stand down", "resume main", "suspend", "unmask", "parked"}
  /\ w # cpu => pc[w] \in Away
  /\ w \in suspended <=> pc[w] \in {"unmask", "parked"}
  /\ pc[w] = "lap" => MoreLaps(w)
  /\ Past(w) => laps[w] = LAPS
  /\ pc[w] = "stand down" => ~request
  /\ pc[w] = "unmask" => request
  /\ pc[w] = "parked" /\ w = cpu => request

\* the worker that counts second is the last, and the first is parked by then
CountInv == started =>
  /\ done = 0 <=> ~Past(0) /\ ~Past(1)
  /\ done = 2 <=> Past(0) /\ Past(1)
  /\ \A w \in Worker :
       pc[w] \in {"stand down", "resume main"} => (IsLast(w) <=> pc[Other(w)] = "parked")

\* both workers are through with main
Finishing == \E w \in Worker : pc[w] \in {"suspend", "unmask", "parked"}
                               /\ pc[Other(w)] = "parked"

\* main is suspended from its stand-down until the last worker resumes it
MainInv == started =>
  /\ pc[MAIN] \in {"stand down", "suspend", "unmask"} => \A w \in Worker : pc[w] = "yield"
  /\ pc[MAIN] \in {"stand down", "suspend", "halt"} => MAIN \notin suspended
  /\ pc[MAIN] = "unmask" => MAIN \in suspended /\ request
  /\ pc[MAIN] = "report" => (MAIN \in suspended <=> ~Finishing)
  /\ pc[MAIN] = "report" /\ cpu = MAIN /\ MAIN \in suspended => request

Inv == TypeOK /\ Frames /\ BootInv /\ RunInv /\ WorkInv /\ CountInv /\ MainInv

----------------------------------------------------------------------------
LEMMA Tasks == Worker = {0, 1} /\ Owner = {0, 1, 2} /\ Task = {0, 1, 2, 3, 4} /\ MAIN = 2
  BY DEF Worker, Owner, Task, MAIN

LEMMA InitPoints ==
  ASSUME Init
  PROVE  pc \in [Owner -> Points] /\ pc[MAIN] = "create main" /\ \A w \in Worker : pc[w] = "yield"
  <1>1. pc = [t \in Owner |-> IF t = MAIN THEN "create main" ELSE "yield"]
    BY DEF Init
  <1>2. MAIN \in Owner /\ \A w \in Worker : w \in Owner /\ w # MAIN
    BY Tasks
  <1>3. "create main" \in Points /\ "yield" \in Points
    BY DEF Points
  <1> QED BY <1>1, <1>2, <1>3, Zenon

LEMMA InitInv == Init => Inv
  <1> SUFFICES ASSUME Init PROVE Inv
    OBVIOUS
  <1> USE DEF Worker, Owner, Task, MAIN
  <1>1. pc \in [Owner -> Points] /\ pc[MAIN] = "create main" /\ \A w \in Worker : pc[w] = "yield"
    BY InitPoints
  <1>2. /\ cpu = MAIN /\ current = Idle /\ created = {} /\ suspended = {} /\ slots = {}
        /\ request = FALSE /\ enabled = FALSE /\ masked = FALSE /\ started = FALSE
        /\ laps = [w \in Worker |-> 0] /\ done = 0 /\ mine = [w \in Worker |-> 0]
        /\ swaps = FALSE /\ declined = FALSE /\ result = "none"
        /\ saved = [t \in Owner |-> IF t = MAIN THEN NoFrame ELSE t]
    BY DEF Init
  <1>3. TypeOK
    <2>1. laps \in [Worker -> 0 .. LAPS] /\ mine \in [Worker -> 0 .. 2]
      BY <1>2, LapsAssumption
    <2>2. saved \in [Owner -> Owner \cup {NoFrame}]
      BY <1>2
    <2>3. current \in Task /\ cpu \in Owner /\ done \in 0 .. 2
      BY <1>2 DEF Idle
    <2>4. /\ created \subseteq Task /\ suspended \subseteq Task /\ slots \subseteq Owner
          /\ result \in {"none", "PASS", "FAIL"}
          /\ request \in BOOLEAN /\ enabled \in BOOLEAN /\ masked \in BOOLEAN
          /\ started \in BOOLEAN /\ swaps \in BOOLEAN /\ declined \in BOOLEAN
      BY <1>2
    <2> QED BY <1>1, <2>1, <2>2, <2>3, <2>4 DEF TypeOK, Points
  <1>4. Frames /\ BootInv
    BY <1>1, <1>2 DEF Frames, BootInv
  <1> QED BY <1>2, <1>3, <1>4 DEF Inv, RunInv, WorkInv, CountInv, MainInv

----------------------------------------------------------------------------
(***************************************************************************)
(* Boot: nothing but main runs before STARTED is stored.                   *)
(***************************************************************************)

\* while STARTED is not stored, the parts about running tasks say nothing
LEMMA NotStarted ==
  ASSUME Inv, ~started'
  PROVE  RunInv' /\ WorkInv' /\ CountInv' /\ MainInv'
  BY DEF RunInv, WorkInv, CountInv, MainInv

LEMMA GoesTo ==
  ASSUME pc \in [Owner -> Points], NEW t \in Owner, NEW point \in Points, Goes(t, point)
  PROVE  pc' \in [Owner -> Points] /\ pc'[t] = point /\ \A o \in Owner \ {t} : pc'[o] = pc[o]
  BY DEF Goes

LEMMA BootTypes ==
  ASSUME TypeOK, NEW point, NEW next, next \in Points, Boot(point, next),
         created' \subseteq Task, current' \in Task, suspended' = suspended,
         slots' \subseteq Owner, request' \in BOOLEAN, enabled' \in BOOLEAN,
         started' \in BOOLEAN
  PROVE  TypeOK' /\ cpu = MAIN /\ pc[MAIN] = point /\ pc'[MAIN] = next
         /\ (\A w \in Worker : pc'[w] = pc[w])
  <1>1. pc' \in [Owner -> Points] /\ pc'[MAIN] = next /\ \A w \in Worker : pc'[w] = pc[w]
    <2>1. pc' = [pc EXCEPT ![MAIN] = next] /\ pc \in [Owner -> Points]
      BY DEF TypeOK, Boot, Goes
    <2> QED BY <2>1, Tasks
  <1>2. /\ cpu' = cpu /\ saved' = saved /\ masked' = masked /\ laps' = laps /\ done' = done
        /\ mine' = mine /\ swaps' = swaps /\ declined' = declined /\ result' = result
        /\ cpu = MAIN /\ pc[MAIN] = point
    BY DEF Boot, At, machine, counts
  <1>3. TypeOK'
    <2>1. cpu' \in Owner /\ saved' \in [Owner -> Owner \cup {NoFrame}]
      BY <1>2 DEF TypeOK
    <2>2. laps' \in [Worker -> 0 .. LAPS] /\ done' \in 0 .. 2 /\ mine' \in [Worker -> 0 .. 2]
      BY <1>2 DEF TypeOK
    <2>3. masked' \in BOOLEAN /\ swaps' \in BOOLEAN /\ declined' \in BOOLEAN
      BY <1>2 DEF TypeOK
    <2>4. suspended' \subseteq Task /\ result' \in {"none", "PASS", "FAIL"}
      BY <1>2 DEF TypeOK
    <2> QED BY <1>1, <2>1, <2>2, <2>3, <2>4 DEF TypeOK
  <1> QED BY <1>1, <1>2, <1>3

LEMMA BootFramesKept ==
  ASSUME Frames, NEW point, NEW next, Boot(point, next)
  PROVE  Frames'
  BY DEF Frames, Boot, machine

LEMMA CreateMainInv ==
  ASSUME Inv, CreateMain
  PROVE  Inv'
  <1>1. /\ Boot("create main", "create workers") /\ Create(MAIN) /\ slots' = slots \cup {MAIN}
        /\ UNCHANGED <<request, enabled, started>>
    BY DEF CreateMain
  <1>2. /\ created' = created \cup {MAIN} /\ current' = MAIN /\ suspended' = suspended
    BY <1>1 DEF Create, MakesCurrent
  <1>3. TypeOK' /\ cpu = MAIN /\ pc[MAIN] = "create main" /\ pc'[MAIN] = "create workers"
        /\ \A w \in Worker : pc'[w] = pc[w]
    BY <1>1, <1>2, BootTypes, Tasks DEF Inv, TypeOK, Points
  <1>4. ~started /\ ~started'
    BY <1>1, <1>3 DEF Inv, RunInv
  <1>5. BootInv'
    BY <1>1, <1>2, <1>3, <1>4, Tasks DEF Inv, BootInv, Boot, machine, counts
  <1> QED BY <1>1, <1>3, <1>4, <1>5, BootFramesKept, NotStarted DEF Inv

LEMMA Priorities ==
  /\ Priority(MAIN) = 3 /\ Priority(TmrSvc) = 1 /\ Priority(Idle) = 0
  /\ \A w \in Worker : Priority(w) = 2
  BY DEF Priority, Worker, MAIN, TmrSvc, Idle

LEMMA CreateWorkerInv ==
  ASSUME Inv, NEW w \in Worker, CreateWorker(w)
  PROVE  Inv'
  <1> DEFINE next == IF w = 1 THEN "start" ELSE "create workers"
  <1>1. /\ Boot("create workers", next) /\ Create(w) /\ slots' = slots \cup {w}
        /\ created \cap Worker = 0 .. w - 1
        /\ UNCHANGED <<request, enabled, started>>
    BY DEF CreateWorker
  <1>2. pc[MAIN] = "create workers" /\ cpu = MAIN /\ next \in Points
    BY <1>1 DEF Boot, At, Points
  <1>3. ~started /\ current = MAIN /\ created \subseteq Owner /\ MAIN \in created /\ slots = created
    BY <1>2 DEF Inv, RunInv, BootInv
  <1>4. created' = created \cup {w} /\ current' = MAIN /\ suspended' = suspended
    <2>1. ~MakesCurrent(w)
      BY <1>3, Priorities, Tasks DEF MakesCurrent
    <2> QED BY <1>1, <1>3, <2>1 DEF Create
  <1> HIDE DEF next
  <1>5. TypeOK' /\ pc'[MAIN] = next /\ \A v \in Worker : pc'[v] = pc[v]
    <2>1. created' \subseteq Task /\ current' \in Task /\ slots' \subseteq Owner
      BY <1>1, <1>3, <1>4, Tasks
    <2>2. TypeOK /\ request' \in BOOLEAN /\ enabled' \in BOOLEAN /\ started' \in BOOLEAN
      BY <1>1 DEF Inv, TypeOK
    <2> QED BY <1>1, <1>2, <1>4, <2>1, <2>2, BootTypes
  <1>6. BootInv'
    <2>1. next = "start" => created' = Owner
      <3> SUFFICES ASSUME w = 1 PROVE created' = Owner
        BY Tasks DEF next
      <3>1. created \cap Worker = 0 .. 0 /\ created' = created \cup {1} /\ created \subseteq Owner
            /\ MAIN \in created
        <4>1. created \cap Worker = 0 .. w - 1 /\ created' = created \cup {w}
          BY <1>1, <1>4
        <4>2. created \subseteq Owner /\ MAIN \in created
          BY <1>3
        <4> QED BY <4>1, <4>2
      <3>2. 0 \in created
        BY <3>1
      <3> QED BY <3>1, <3>2, Tasks
    <2>2. next \in {"start", "create workers"} /\ slots' = created' /\ MAIN \in created'
          /\ created' \subseteq Owner
      BY <1>1, <1>3, <1>4, Tasks DEF next
    <2> QED BY <1>1, <1>3, <1>4, <1>5, <2>1, <2>2 DEF Inv, BootInv, Boot, machine, counts
  <1>7. ~started'
    BY <1>1, <1>3
  <1> QED BY <1>1, <1>5, <1>6, <1>7, BootFramesKept, NotStarted DEF Inv

LEMMA StartSchedulerInv ==
  ASSUME Inv, StartScheduler
  PROVE  Inv'
  <1>1. /\ Boot("start", "enable") /\ created' = created \cup {Idle, TmrSvc}
        /\ current' = IF MakesCurrent(TmrSvc) THEN TmrSvc ELSE current
        /\ request' \in BOOLEAN /\ UNCHANGED <<suspended, slots, enabled, started>>
    BY DEF StartScheduler
  <1>2. pc[MAIN] = "start" /\ cpu = MAIN
    BY <1>1 DEF Boot, At
  <1>3. ~started /\ current = MAIN /\ created = Owner /\ slots = Owner
    BY <1>2 DEF Inv, RunInv, BootInv
  <1>4. created' = Task /\ current' = MAIN
    <2>1. ~MakesCurrent(TmrSvc)
      BY <1>3, Priorities, Tasks DEF MakesCurrent, TmrSvc
    <2> QED BY <1>1, <1>3, <2>1, Tasks DEF Idle, TmrSvc
  <1>5. TypeOK' /\ pc'[MAIN] = "enable" /\ \A v \in Worker : pc'[v] = pc[v]
    BY <1>1, <1>4, BootTypes, Tasks DEF Inv, TypeOK, Points
  <1>6. BootInv'
    BY <1>1, <1>3, <1>4, <1>5 DEF Inv, BootInv, Boot, machine, counts
  <1>7. ~started'
    BY <1>1, <1>3
  <1> QED BY <1>1, <1>5, <1>6, <1>7, BootFramesKept, NotStarted DEF Inv

LEMMA EnableSwitchingInv ==
  ASSUME Inv, EnableSwitching
  PROVE  Inv'
  <1>1. /\ Boot("enable", "store") /\ enabled' = TRUE
        /\ UNCHANGED <<current, created, suspended, slots, request, started>>
    BY DEF EnableSwitching, kernel
  <1>2. pc[MAIN] = "enable" /\ cpu = MAIN
    BY <1>1 DEF Boot, At
  <1>3. ~started /\ current = MAIN /\ created = Task /\ slots = Owner
    BY <1>2 DEF Inv, RunInv, BootInv
  <1>5. TypeOK' /\ pc'[MAIN] = "store" /\ \A v \in Worker : pc'[v] = pc[v]
    BY <1>1, BootTypes DEF Inv, TypeOK, Points
  <1>6. BootInv'
    BY <1>1, <1>3, <1>5 DEF Inv, BootInv, Boot, machine, counts
  <1>7. ~started'
    BY <1>1, <1>3
  <1> QED BY <1>1, <1>5, <1>6, <1>7, BootFramesKept, NotStarted DEF Inv

LEMMA StoreStartedInv ==
  ASSUME Inv, StoreStarted
  PROVE  Inv'
  <1>1. /\ Boot("store", "stand down") /\ started' = TRUE
        /\ UNCHANGED <<current, created, suspended, slots, request, enabled>>
    BY DEF StoreStarted, kernel
  <1>2. pc[MAIN] = "store" /\ cpu = MAIN
    BY <1>1 DEF Boot, At
  <1>3. /\ ~started /\ current = MAIN /\ created = Task /\ slots = Owner /\ enabled
        /\ ~masked /\ ~declined /\ suspended = {} /\ done = 0
        /\ \A w \in Worker : pc[w] = "yield" /\ laps[w] = 0 /\ mine[w] = 0
    BY <1>2 DEF Inv, RunInv, BootInv
  <1>4. TypeOK' /\ pc'[MAIN] = "stand down" /\ \A v \in Worker : pc'[v] = "yield"
    BY <1>1, <1>3, BootTypes DEF Inv, TypeOK, Points
  <1>5. cpu' = MAIN /\ masked' = masked /\ declined' = declined /\ UNCHANGED counts
    BY <1>1, <1>2 DEF Boot, machine
  <1>6. RunInv' /\ MainInv'
    BY <1>1, <1>3, <1>4, <1>5, Tasks DEF RunInv, MainInv, Section
  <1>7. WorkInv' /\ CountInv'
    BY <1>1, <1>3, <1>4, <1>5, Tasks DEF WorkInv, CountInv, Past, Away, counts
  <1>8. BootInv'
    BY <1>1 DEF BootInv
  <1> QED BY <1>1, <1>4, <1>6, <1>7, <1>8, BootFramesKept DEF Inv

LEMMA BootFailsInv ==
  ASSUME Inv, BootFails
  PROVE  Inv'
  <1>1. cpu = MAIN /\ pc[MAIN] \in {"create main", "create workers", "start"}
    BY DEF BootFails, At
  <1>2. /\ pc' = [pc EXCEPT ![MAIN] = "halt"] /\ result' = "FAIL"
        /\ UNCHANGED <<cpu, saved, current, created, suspended, slots, request, enabled, masked,
                       started, laps, done, mine, swaps, declined>>
    BY DEF BootFails, Goes, machine, kernel, counts
  <1>3. ~started
    BY <1>1 DEF Inv, RunInv
  <1>4. pc' \in [Owner -> Points] /\ pc'[MAIN] = "halt" /\ \A w \in Worker : pc'[w] = pc[w]
    <2>1. pc \in [Owner -> Points] /\ "halt" \in Points
      BY DEF Inv, TypeOK, Points
    <2>2. MAIN \in Owner /\ \A w \in Worker : w \in Owner \ {MAIN}
      BY Tasks
    <2>3. Goes(MAIN, "halt")
      BY DEF BootFails
    <2> QED BY <2>1, <2>2, <2>3, GoesTo
  <1>5. TypeOK'
    BY <1>2, <1>4 DEF Inv, TypeOK
  <1>6. Frames' /\ BootInv'
    BY <1>2, <1>3, <1>4 DEF Inv, Frames, BootInv
  <1>7. ~started'
    BY <1>2, <1>3
  <1> QED BY <1>5, <1>6, <1>7, NotStarted DEF Inv

----------------------------------------------------------------------------
(***************************************************************************)
(* A worker that holds the CPU.                                            *)
(***************************************************************************)
LEMMA Others ==
  ASSUME NEW w \in Worker
  PROVE  /\ Other(w) \in Worker /\ Other(w) # w /\ Other(Other(w)) = w
         /\ w \in Owner /\ Other(w) \in Owner /\ MAIN \in Owner /\ w # MAIN /\ Other(w) # MAIN
         /\ \A v \in Worker : v = w \/ v = Other(w)
  BY Tasks DEF Other

LEMMA WorkerStep ==
  ASSUME Inv, NEW w \in Worker, cpu = w, NEW point \in Points, Goes(w, point)
  PROVE  /\ started /\ pc[MAIN] = "report"
         /\ pc' \in [Owner -> Points] /\ pc'[w] = point
         /\ pc'[Other(w)] = pc[Other(w)] /\ pc'[MAIN] = pc[MAIN]
         /\ pc[Other(w)] \in Away
  <1>1. started
    BY Others DEF Inv, BootInv
  <1>2. pc[MAIN] = "report" /\ pc[Other(w)] \in Away
    BY <1>1, Others DEF Inv, RunInv, WorkInv
  <1>3. pc \in [Owner -> Points]
    BY DEF Inv, TypeOK
  <1> QED BY <1>1, <1>2, <1>3, GoesTo, Others

LEMMA YieldInv ==
  ASSUME Inv, NEW w \in Worker, Yield(w)
  PROVE  Inv'
  <1>1. /\ cpu = w /\ request' = TRUE
        /\ UNCHANGED <<machine, kernel, slots, enabled, masked, started, counts, swaps,
                        declined, result>>
        /\ \/ pc[w] = "yield" /\ MoreLaps(w) /\ Goes(w, "lap")
           \/ pc[w] = "parked" /\ Goes(w, "parked")
    BY DEF Yield, At
  <1>2. PICK to \in Points :
          /\ Goes(w, to)
          /\ \/ pc[w] = "yield" /\ MoreLaps(w) /\ to = "lap"
             \/ pc[w] = "parked" /\ to = "parked"
    <2>1. \/ pc[w] = "yield" /\ MoreLaps(w) /\ Goes(w, "lap")
          \/ pc[w] = "parked" /\ Goes(w, "parked")
      BY <1>1
    <2>2. "lap" \in Points /\ "parked" \in Points
      BY DEF Points
    <2> QED BY <2>1, <2>2, Zenon
  <1>3. /\ started /\ pc[MAIN] = "report" /\ pc' \in [Owner -> Points] /\ pc'[w] = to
        /\ pc'[Other(w)] = pc[Other(w)] /\ pc'[MAIN] = pc[MAIN] /\ pc[Other(w)] \in Away
    BY <1>1, <1>2, WorkerStep
  <1>4. /\ UNCHANGED <<cpu, saved, current, created, suspended, slots, enabled, masked, started,
                        laps, done, mine, swaps, declined, result>>
    BY <1>1 DEF machine, kernel, counts
  <1>5. TypeOK'
    BY <1>1, <1>3, <1>4 DEF Inv, TypeOK
  <1>6. Frames' /\ BootInv'
    BY <1>3, <1>4 DEF Inv, Frames, BootInv
  <1>7. RunInv'
    <2>1. pc[cpu] \notin Section /\ pc'[cpu'] \notin Section
      BY <1>1, <1>2, <1>3, <1>4 DEF Section
    <2> QED BY <1>3, <1>4, <2>1 DEF Inv, RunInv
  <1>8. WorkInv'
    BY <1>1, <1>2, <1>3, <1>4, Others DEF Inv, WorkInv, MoreLaps, Past, Away
  <1>9. CountInv'
    <2>1. \A v \in Worker : Past(v)' <=> Past(v)
      BY <1>2, <1>3, Others DEF Past
    <2>2. \A v \in Worker : pc'[v] \notin {"stand down", "resume main"}
      BY <1>2, <1>3, Others DEF Away
    <2> QED BY <1>3, <1>4, <2>1, <2>2, Tasks DEF Inv, CountInv
  <1>10. MainInv'
    BY <1>1, <1>2, <1>3, <1>4, Others DEF Inv, MainInv, Finishing
  <1> QED BY <1>5, <1>6, <1>7, <1>8, <1>9, <1>10 DEF Inv

LEMMA LapInv ==
  ASSUME Inv, NEW w \in Worker, Lap(w)
  PROVE  Inv'
  <1>1. /\ cpu = w /\ pc[w] = "lap" /\ Goes(w, "yield") /\ laps' = [laps EXCEPT ![w] = @ + 1]
        /\ UNCHANGED <<cpu, saved, current, created, suspended, slots, request, enabled, masked,
                       started, done, mine, swaps, declined, result>>
    BY DEF Lap, At, machine, kernel
  <1>2. /\ started /\ pc[MAIN] = "report" /\ pc' \in [Owner -> Points] /\ pc'[w] = "yield"
        /\ pc'[Other(w)] = pc[Other(w)] /\ pc'[MAIN] = pc[MAIN] /\ pc[Other(w)] \in Away
    <2>1. "yield" \in Points
      BY DEF Points
    <2> QED BY <1>1, <2>1, WorkerStep
  <1>3. laps' \in [Worker -> 0 .. LAPS] /\ laps'[Other(w)] = laps[Other(w)]
    <2>1. laps[w] < LAPS
      BY <1>1, <1>2 DEF Inv, WorkInv, MoreLaps
    <2>2. laps \in [Worker -> 0 .. LAPS] /\ laps' = [laps EXCEPT ![w] = @ + 1]
      BY <1>1 DEF Inv, TypeOK
    <2> QED BY <2>1, <2>2, LapsAssumption, Others
  <1>4. TypeOK'
    BY <1>1, <1>2, <1>3 DEF Inv, TypeOK
  <1>5. Frames' /\ BootInv'
    BY <1>1, <1>2 DEF Inv, Frames, BootInv
  <1>6. RunInv'
    <2>1. pc[cpu] \notin Section /\ pc'[cpu'] \notin Section
      BY <1>1, <1>2 DEF Section
    <2> QED BY <1>1, <1>2, <2>1 DEF Inv, RunInv
  <1>7. WorkInv'
    BY <1>1, <1>2, <1>3, Others DEF Inv, WorkInv, MoreLaps, Past
  <1>8. CountInv'
    <2>1. \A v \in Worker : Past(v)' <=> Past(v)
      BY <1>1, <1>2, Others DEF Past
    <2>2. \A v \in Worker : pc'[v] \notin {"stand down", "resume main"}
      BY <1>2, Others DEF Away
    <2> QED BY <1>1, <1>2, <2>1, <2>2, Tasks DEF Inv, CountInv
  <1>9. MainInv'
    BY <1>1, <1>2, Others DEF Inv, MainInv, Finishing
  <1> QED BY <1>4, <1>5, <1>6, <1>7, <1>8, <1>9 DEF Inv

\* a pending request is taken before the task goes on
LEMMA NotTaken ==
  ASSUME Inv, started, ~Taken, pc[cpu] \notin Section
  PROVE  ~request /\ ~masked
  BY DEF Inv, RunInv, Taken

LEMMA CountDoneInv ==
  ASSUME Inv, NEW w \in Worker, CountDone(w)
  PROVE  Inv'
  <1>1. /\ cpu = w /\ pc[w] = "yield" /\ ~Taken /\ Goes(w, "stand down") /\ ~MoreLaps(w)
        /\ done' = done + 1 /\ mine' = [mine EXCEPT ![w] = done + 1]
        /\ UNCHANGED <<cpu, saved, current, created, suspended, slots, request, enabled, masked,
                       started, laps, swaps, declined, result>>
    BY DEF CountDone, At, Latency, machine, kernel
  <1>2. /\ started /\ pc[MAIN] = "report" /\ pc' \in [Owner -> Points] /\ pc'[w] = "stand down"
        /\ pc'[Other(w)] = pc[Other(w)] /\ pc'[MAIN] = pc[MAIN] /\ pc[Other(w)] \in Away
    <2>1. "stand down" \in Points
      BY DEF Points
    <2> QED BY <1>1, <2>1, WorkerStep
  <1>3. pc[cpu] \notin Section /\ pc'[cpu'] \notin Section /\ ~request
    <2>1. pc[cpu] \notin Section /\ pc'[cpu'] \notin Section
      BY <1>1, <1>2 DEF Section
    <2> QED BY <1>1, <1>2, <2>1, NotTaken
  <1>4. laps[w] = LAPS
    <2>1. laps \in [Worker -> 0 .. LAPS] /\ ~(laps[w] < LAPS)
      BY <1>1 DEF Inv, TypeOK, MoreLaps
    <2> QED BY <2>1, LapsAssumption
  <1>5. ~Past(w) /\ Past(w)' /\ (Past(Other(w))' <=> Past(Other(w)))
        /\ (Past(Other(w)) <=> pc'[Other(w)] = "parked")
    BY <1>1, <1>2 DEF Past, Away
  <1>6. /\ done \in {0, 1}
        /\ done = 1 <=> Past(Other(w))
    <2>1. done \in 0 .. 2
      BY DEF Inv, TypeOK
    <2>2. /\ done = 0 <=> ~Past(w) /\ ~Past(Other(w))
          /\ done = 2 <=> Past(w) /\ Past(Other(w))
      BY <1>2, Tasks, Others DEF Inv, CountInv
    <2> QED BY <1>5, <2>1, <2>2
  <1>7. done' \in 0 .. 2 /\ mine' \in [Worker -> 0 .. 2] /\ mine'[w] = done + 1
    <2>1. mine \in [Worker -> 0 .. 2] /\ mine' = [mine EXCEPT ![w] = done + 1] /\ done' = done + 1
      BY <1>1 DEF Inv, TypeOK
    <2> QED BY <1>6, <2>1
  <1>8. TypeOK'
    BY <1>1, <1>2, <1>7 DEF Inv, TypeOK
  <1>9. Frames' /\ BootInv'
    BY <1>1, <1>2 DEF Inv, Frames, BootInv
  <1>10. RunInv'
    BY <1>1, <1>2, <1>3 DEF Inv, RunInv
  <1>11. WorkInv'
    BY <1>1, <1>2, <1>3, <1>4, Others DEF Inv, WorkInv, MoreLaps, Past
  <1>12. CountInv'
    <2>1. IsLast(w)' <=> pc'[Other(w)] = "parked"
      BY <1>5, <1>6, <1>7 DEF IsLast
    <2>2. pc'[Other(w)] \notin {"stand down", "resume main"}
      BY <1>2 DEF Away
    <2>3. \A v \in Worker : pc'[v] \in {"stand down", "resume main"} =>
            (IsLast(v)' <=> pc'[Other(v)] = "parked")
      BY <2>1, <2>2, Others
    <2>4. /\ done' = 0 <=> ~Past(w)' /\ ~Past(Other(w))'
          /\ done' = 2 <=> Past(w)' /\ Past(Other(w))'
      <3>1. done' = done + 1
        BY <1>1
      <3> QED BY <3>1, <1>5, <1>6
    <2>5. /\ done' = 0 <=> ~Past(0)' /\ ~Past(1)'
          /\ done' = 2 <=> Past(0)' /\ Past(1)'
      <3>1. (w = 0 /\ Other(w) = 1) \/ (w = 1 /\ Other(w) = 0)
        BY Tasks DEF Other
      <3> QED BY <2>4, <3>1
    <2> QED BY <2>3, <2>5 DEF CountInv
  <1>13. MainInv'
    BY <1>1, <1>2, Others DEF Inv, MainInv, Finishing
  <1> QED BY <1>8, <1>9, <1>10, <1>11, <1>12, <1>13 DEF Inv

LEMMA WorkerMaskInv ==
  ASSUME Inv, NEW w \in Worker, Mask(w)
  PROVE  Inv'
  <1>1. /\ cpu = w /\ pc[w] = "stand down" /\ Goes(w, "resume main") /\ masked' = TRUE
        /\ UNCHANGED <<cpu, saved, current, created, suspended, slots, request, enabled,
                       started, laps, done, mine, swaps, declined, result>>
    BY Others DEF Mask, At, machine, kernel, counts
  <1>2. /\ started /\ pc[MAIN] = "report" /\ pc' \in [Owner -> Points] /\ pc'[w] = "resume main"
        /\ pc'[Other(w)] = pc[Other(w)] /\ pc'[MAIN] = pc[MAIN] /\ pc[Other(w)] \in Away
    <2>1. "resume main" \in Points
      BY DEF Points
    <2> QED BY <1>1, <2>1, WorkerStep
  <1>3. TypeOK'
    BY <1>1, <1>2 DEF Inv, TypeOK
  <1>4. Frames' /\ BootInv'
    BY <1>1, <1>2 DEF Inv, Frames, BootInv
  <1>5. RunInv'
    BY <1>1, <1>2 DEF Inv, RunInv, Section
  <1>6. WorkInv'
    BY <1>1, <1>2, Others DEF Inv, WorkInv, MoreLaps, Past
  <1>7. CountInv'
    <2>1. \A v \in Worker : Past(v)' <=> Past(v)
      BY <1>1, <1>2, Others DEF Past
    <2>2. pc'[Other(w)] \notin {"stand down", "resume main"}
      BY <1>2 DEF Away
    <2>3. IsLast(w)' <=> pc'[Other(w)] = "parked"
      BY <1>1, <1>2 DEF Inv, CountInv, IsLast
    <2> QED BY <1>1, <1>2, <2>1, <2>2, <2>3, Tasks, Others DEF Inv, CountInv
  <1>8. MainInv'
    BY <1>1, <1>2, Others DEF Inv, MainInv, Finishing
  <1> QED BY <1>3, <1>4, <1>5, <1>6, <1>7, <1>8 DEF Inv

LEMMA ResumeMainInv ==
  ASSUME Inv, NEW w \in Worker, ResumeMain(w)
  PROVE  Inv'
  <1>1. /\ cpu = w /\ pc[w] = "resume main" /\ Goes(w, "suspend")
        /\ UNCHANGED <<cpu, saved, current, created, slots, enabled, masked, started, laps, done,
                       mine, swaps, declined, result>>
        /\ IF IsLast(w) THEN suspended' = suspended \ {MAIN} /\ request' = TRUE
                        ELSE UNCHANGED <<suspended, request>>
    BY DEF ResumeMain, At, machine, counts
  <1>2. /\ started /\ pc[MAIN] = "report" /\ pc' \in [Owner -> Points] /\ pc'[w] = "suspend"
        /\ pc'[Other(w)] = pc[Other(w)] /\ pc'[MAIN] = pc[MAIN] /\ pc[Other(w)] \in Away
    <2>1. "suspend" \in Points
      BY DEF Points
    <2> QED BY <1>1, <2>1, WorkerStep
  <1>3. /\ suspended' = IF IsLast(w) THEN suspended \ {MAIN} ELSE suspended
        /\ request' \in BOOLEAN
    BY <1>1 DEF Inv, TypeOK
  <1>4. TypeOK'
    BY <1>1, <1>2, <1>3 DEF Inv, TypeOK
  <1>5. Frames' /\ BootInv'
    BY <1>1, <1>2 DEF Inv, Frames, BootInv
  <1>6. RunInv'
    BY <1>1, <1>2, <1>3 DEF Inv, RunInv, Section
  <1>7. WorkInv'
    <2>1. \A v \in Worker : v \in suspended' <=> v \in suspended
      BY <1>3, Others
    <2> QED BY <1>1, <1>2, <2>1, Others DEF Inv, WorkInv, MoreLaps, Past, Away
  <1>8. CountInv'
    <2>1. \A v \in Worker : Past(v)' <=> Past(v)
      BY <1>1, <1>2, Others DEF Past
    <2>2. \A v \in Worker : pc'[v] \notin {"stand down", "resume main"}
      BY <1>2, Others DEF Away
    <2> QED BY <1>1, <1>2, <2>1, <2>2, Tasks DEF Inv, CountInv
  <1>9. MainInv'
    <2>1. IsLast(w) <=> pc[Other(w)] = "parked"
      BY <1>1, <1>2 DEF Inv, CountInv
    <2>2. Finishing' <=> pc[Other(w)] = "parked"
      BY <1>2, Others DEF Finishing
    <2>3. ~Finishing
      BY <1>1, Others DEF Finishing
    <2>4. MAIN \in suspended' <=> ~Finishing'
      BY <1>2, <1>3, <2>1, <2>2, <2>3 DEF Inv, MainInv
    <2> QED BY <1>1, <1>2, <2>4, Others DEF MainInv
  <1> QED BY <1>4, <1>5, <1>6, <1>7, <1>8, <1>9 DEF Inv

LEMMA WorkerSuspendInv ==
  ASSUME Inv, NEW w \in Worker, Suspend(w)
  PROVE  Inv'
  <1>1. /\ cpu = w /\ pc[w] = "suspend" /\ Goes(w, "unmask") /\ request' = TRUE
        /\ suspended' = suspended \cup {current}
        /\ UNCHANGED <<cpu, saved, current, created, slots, enabled, masked, started, laps, done,
                       mine, swaps, declined, result>>
    BY DEF Suspend, At, machine, counts
  <1>2. /\ started /\ pc[MAIN] = "report" /\ pc' \in [Owner -> Points] /\ pc'[w] = "unmask"
        /\ pc'[Other(w)] = pc[Other(w)] /\ pc'[MAIN] = pc[MAIN] /\ pc[Other(w)] \in Away
    <2>1. "unmask" \in Points
      BY DEF Points
    <2> QED BY <1>1, <2>1, WorkerStep
  <1>3. suspended' = suspended \cup {w}
    BY <1>1, <1>2 DEF Inv, RunInv
  <1>4. TypeOK'
    <2>1. suspended' \subseteq Task
      BY <1>3, Tasks DEF Inv, TypeOK
    <2> QED BY <1>1, <1>2, <2>1 DEF Inv, TypeOK
  <1>5. Frames' /\ BootInv'
    BY <1>1, <1>2 DEF Inv, Frames, BootInv
  <1>6. RunInv'
    BY <1>1, <1>2, <1>3, Others DEF Inv, RunInv, Section
  <1>7. WorkInv'
    <2>1. w \in suspended' /\ (Other(w) \in suspended' <=> Other(w) \in suspended)
      BY <1>3, Others
    <2> QED BY <1>1, <1>2, <2>1, Others DEF Inv, WorkInv, MoreLaps, Past, Away
  <1>8. CountInv'
    <2>1. \A v \in Worker : Past(v)' <=> Past(v)
      BY <1>1, <1>2, Others DEF Past
    <2>2. \A v \in Worker : pc'[v] \notin {"stand down", "resume main"}
      BY <1>2, Others DEF Away
    <2> QED BY <1>1, <1>2, <2>1, <2>2, Tasks DEF Inv, CountInv
  <1>9. MainInv'
    <2>1. Finishing' <=> Finishing
      BY <1>1, <1>2, Others DEF Finishing
    <2>2. MAIN \in suspended' <=> MAIN \in suspended
      BY <1>3, Others
    <2> QED BY <1>1, <1>2, <2>1, <2>2, Others DEF Inv, MainInv
  <1> QED BY <1>4, <1>5, <1>6, <1>7, <1>8, <1>9 DEF Inv

LEMMA WorkerUnmaskInv ==
  ASSUME Inv, NEW w \in Worker, Unmask(w)
  PROVE  Inv'
  <1>1. /\ cpu = w /\ pc[w] = "unmask" /\ Goes(w, "parked") /\ masked' = FALSE
        /\ UNCHANGED <<cpu, saved, current, created, suspended, slots, request, enabled,
                       started, laps, done, mine, swaps, declined, result>>
    BY Others DEF Unmask, At, machine, kernel, counts
  <1>2. /\ started /\ pc[MAIN] = "report" /\ pc' \in [Owner -> Points] /\ pc'[w] = "parked"
        /\ pc'[Other(w)] = pc[Other(w)] /\ pc'[MAIN] = pc[MAIN] /\ pc[Other(w)] \in Away
    <2>1. "parked" \in Points
      BY DEF Points
    <2> QED BY <1>1, <2>1, WorkerStep
  <1>3. TypeOK'
    BY <1>1, <1>2 DEF Inv, TypeOK
  <1>4. Frames' /\ BootInv'
    BY <1>1, <1>2 DEF Inv, Frames, BootInv
  <1>5. RunInv'
    BY <1>1, <1>2 DEF Inv, RunInv, Section
  <1>6. WorkInv'
    BY <1>1, <1>2, Others DEF Inv, WorkInv, MoreLaps, Past
  <1>7. CountInv'
    <2>1. \A v \in Worker : Past(v)' <=> Past(v)
      BY <1>1, <1>2, Others DEF Past
    <2>2. \A v \in Worker : pc'[v] \notin {"stand down", "resume main"}
      BY <1>2, Others DEF Away
    <2> QED BY <1>1, <1>2, <2>1, <2>2, Tasks DEF Inv, CountInv
  <1>8. MainInv'
    <2>1. Finishing' <=> Finishing
      BY <1>1, <1>2, Others DEF Finishing, Away
    <2> QED BY <1>1, <1>2, <2>1, Others DEF Inv, MainInv
  <1> QED BY <1>3, <1>4, <1>5, <1>6, <1>7, <1>8 DEF Inv

----------------------------------------------------------------------------
(***************************************************************************)
(* main, between the store of STARTED and its report.                      *)
(***************************************************************************)
LEMMA MainStep ==
  ASSUME Inv, cpu = MAIN, NEW point \in Points, Goes(MAIN, point),
         pc[MAIN] \in {"stand down", "suspend", "unmask", "report"}
  PROVE  /\ started
         /\ pc' \in [Owner -> Points] /\ pc'[MAIN] = point
         /\ \A w \in Worker : pc'[w] = pc[w] /\ pc[w] \in Away
         /\ \A w \in Worker : pc'[Other(w)] = pc[Other(w)]
  <1>1. started
    BY DEF Inv, BootInv
  <1>2. \A w \in Worker : pc[w] \in Away
    BY <1>1, Others DEF Inv, WorkInv
  <1>3. pc \in [Owner -> Points]
    BY DEF Inv, TypeOK
  <1> QED BY <1>1, <1>2, <1>3, GoesTo, Others, Tasks

\* the workers' parts do not change while main keeps the CPU and they are off it
LEMMA MainLeavesWorkers ==
  ASSUME Inv, started, cpu = MAIN, UNCHANGED <<cpu, laps, done, mine, started>>,
         \A w \in Worker : pc'[w] = pc[w] /\ pc[w] \in Away,
         \A w \in Worker : w \in suspended' <=> w \in suspended
  PROVE  WorkInv' /\ CountInv'
  <1>1. \A w \in Worker : Past(w)' <=> Past(w)
    BY DEF Past
  <1>2. \A w \in Worker : pc'[w] \notin {"stand down", "resume main"}
    BY DEF Away
  <1>3. CountInv'
    BY <1>1, <1>2, Tasks DEF Inv, CountInv
  <1>4. WorkInv'
    BY <1>1, Others DEF Inv, WorkInv, Away, MoreLaps
  <1> QED BY <1>3, <1>4

LEMMA MainMaskInv ==
  ASSUME Inv, Mask(MAIN)
  PROVE  Inv'
  <1>1. /\ cpu = MAIN /\ pc[MAIN] = "stand down" /\ Goes(MAIN, "suspend") /\ masked' = TRUE
        /\ UNCHANGED <<cpu, saved, current, created, suspended, slots, request, enabled,
                       started, laps, done, mine, swaps, declined, result>>
    BY DEF Mask, At, machine, kernel, counts
  <1>2. /\ started /\ pc' \in [Owner -> Points] /\ pc'[MAIN] = "suspend"
        /\ \A w \in Worker : pc'[w] = pc[w] /\ pc[w] \in Away
    <2>1. "suspend" \in Points
      BY DEF Points
    <2> QED BY <1>1, <2>1, MainStep
  <1>3. TypeOK'
    BY <1>1, <1>2 DEF Inv, TypeOK
  <1>4. Frames' /\ BootInv'
    BY <1>1, <1>2 DEF Inv, Frames, BootInv
  <1>5. RunInv'
    BY <1>1, <1>2 DEF Inv, RunInv, Section
  <1>6. WorkInv' /\ CountInv'
    BY <1>1, <1>2, MainLeavesWorkers
  <1>7. MainInv'
    BY <1>1, <1>2 DEF Inv, MainInv
  <1> QED BY <1>3, <1>4, <1>5, <1>6, <1>7 DEF Inv

LEMMA MainSuspendInv ==
  ASSUME Inv, Suspend(MAIN)
  PROVE  Inv'
  <1>1. /\ cpu = MAIN /\ pc[MAIN] = "suspend" /\ Goes(MAIN, "unmask") /\ request' = TRUE
        /\ suspended' = suspended \cup {current}
        /\ UNCHANGED <<cpu, saved, current, created, slots, enabled, masked, started, laps, done,
                       mine, swaps, declined, result>>
    BY DEF Suspend, At, machine, counts
  <1>2. /\ started /\ pc' \in [Owner -> Points] /\ pc'[MAIN] = "unmask"
        /\ \A w \in Worker : pc'[w] = pc[w] /\ pc[w] \in Away
    <2>1. "unmask" \in Points
      BY DEF Points
    <2> QED BY <1>1, <2>1, MainStep
  <1>3. suspended' = suspended \cup {MAIN}
    BY <1>1, <1>2 DEF Inv, RunInv
  <1>4. TypeOK'
    <2>1. suspended' \subseteq Task
      BY <1>3, Tasks DEF Inv, TypeOK
    <2> QED BY <1>1, <1>2, <2>1 DEF Inv, TypeOK
  <1>5. Frames' /\ BootInv'
    BY <1>1, <1>2 DEF Inv, Frames, BootInv
  <1>6. RunInv'
    BY <1>1, <1>2, <1>3, Tasks DEF Inv, RunInv, Section
  <1>7. WorkInv' /\ CountInv'
    <2>1. \A w \in Worker : w \in suspended' <=> w \in suspended
      BY <1>3, Others
    <2> QED BY <1>1, <1>2, <2>1, MainLeavesWorkers
  <1>8. MainInv'
    BY <1>1, <1>2, <1>3 DEF Inv, MainInv
  <1> QED BY <1>4, <1>5, <1>6, <1>7, <1>8 DEF Inv

LEMMA MainUnmaskInv ==
  ASSUME Inv, Unmask(MAIN)
  PROVE  Inv'
  <1>1. /\ cpu = MAIN /\ pc[MAIN] = "unmask" /\ Goes(MAIN, "report") /\ masked' = FALSE
        /\ UNCHANGED <<cpu, saved, current, created, suspended, slots, request, enabled,
                       started, laps, done, mine, swaps, declined, result>>
    BY DEF Unmask, At, machine, kernel, counts
  <1>2. /\ started /\ pc' \in [Owner -> Points] /\ pc'[MAIN] = "report"
        /\ \A w \in Worker : pc'[w] = pc[w] /\ pc[w] \in Away
    <2>1. "report" \in Points
      BY DEF Points
    <2> QED BY <1>1, <2>1, MainStep
  <1>3. TypeOK'
    BY <1>1, <1>2 DEF Inv, TypeOK
  <1>4. Frames' /\ BootInv'
    BY <1>1, <1>2 DEF Inv, Frames, BootInv
  <1>5. RunInv'
    BY <1>1, <1>2 DEF Inv, RunInv, Section
  <1>6. WorkInv' /\ CountInv'
    BY <1>1, <1>2, MainLeavesWorkers
  <1>7. MainInv'
    <2>1. MAIN \in suspended /\ request /\ \A w \in Worker : pc[w] = "yield"
      BY <1>1, <1>2 DEF Inv, MainInv
    <2>2. ~Finishing'
      BY <1>2, <2>1 DEF Finishing
    <2> QED BY <1>1, <1>2, <2>1, <2>2 DEF MainInv
  <1> QED BY <1>3, <1>4, <1>5, <1>6, <1>7 DEF Inv

LEMMA ReportInv ==
  ASSUME Inv, Report
  PROVE  Inv'
  <1>1. /\ cpu = MAIN /\ pc[MAIN] = "report" /\ ~Taken /\ Goes(MAIN, "halt")
        /\ result' \in {"none", "PASS", "FAIL"}
        /\ UNCHANGED <<cpu, saved, current, created, suspended, slots, request, enabled, masked,
                       started, laps, done, mine, swaps, declined>>
    BY DEF Report, At, Latency, machine, kernel, counts
  <1>2. /\ started /\ pc' \in [Owner -> Points] /\ pc'[MAIN] = "halt"
        /\ \A w \in Worker : pc'[w] = pc[w] /\ pc[w] \in Away
    <2>1. "halt" \in Points
      BY DEF Points
    <2> QED BY <1>1, <2>1, MainStep
  <1>3. MAIN \notin suspended
    <2>1. pc[cpu] \notin Section
      BY <1>1 DEF Section
    <2>2. ~request
      BY <1>1, <1>2, <2>1, NotTaken
    <2> QED BY <1>1, <1>2, <2>2 DEF Inv, MainInv
  <1>4. TypeOK'
    BY <1>1, <1>2 DEF Inv, TypeOK
  <1>5. Frames' /\ BootInv'
    BY <1>1, <1>2 DEF Inv, Frames, BootInv
  <1>6. RunInv'
    BY <1>1, <1>2 DEF Inv, RunInv, Section
  <1>7. WorkInv' /\ CountInv'
    BY <1>1, <1>2, MainLeavesWorkers
  <1>8. MainInv'
    BY <1>1, <1>2, <1>3 DEF MainInv
  <1> QED BY <1>4, <1>5, <1>6, <1>7, <1>8 DEF Inv

----------------------------------------------------------------------------
(***************************************************************************)
(* Software0.                                                              *)
(***************************************************************************)

\* whichever task the kernel picks has a stack, and is suspended no more: main, when it may run
LEMMA TopsOwnStacks ==
  ASSUME Inv, started, NEW to \in Tops
  PROVE  to \in Owner /\ to \notin suspended /\ (MAIN \notin suspended => to = MAIN)
  <1>1. created = Task /\ suspended \subseteq Owner
    BY DEF Inv, RunInv
  <1>2. PICK o \in Owner : o \notin suspended
    <2> SUFFICES ASSUME Owner \subseteq suspended PROVE FALSE
      OBVIOUS
    <2>1. 0 \in Worker /\ 1 \in Worker /\ MAIN \in Owner /\ Other(0) = 1 /\ Other(1) = 0
      BY Tasks DEF Other
    <2>2. /\ pc[0] \in {"unmask", "parked"} /\ pc[1] \in {"unmask", "parked"}
          /\ pc[0] = "parked" \/ pc[1] = "parked"
      <3>1. \A w \in Worker : w \in suspended /\ (w # cpu => pc[w] \in Away)
                              /\ (w \in suspended <=> pc[w] \in {"unmask", "parked"})
        BY Others DEF Inv, WorkInv
      <3>2. pc[0] \in {"unmask", "parked"} /\ pc[1] \in {"unmask", "parked"}
        BY <2>1, <3>1
      <3>3. 0 # cpu \/ 1 # cpu
        OBVIOUS
      <3>4. (0 # cpu => pc[0] \in Away) /\ (1 # cpu => pc[1] \in Away)
        BY <2>1, <3>1
      <3> QED BY <3>2, <3>3, <3>4 DEF Away
    <2>3. Finishing
      BY <2>1, <2>2 DEF Finishing
    <2>4. pc[MAIN] \in {"unmask", "report"} /\ pc[MAIN] # "unmask"
      BY <2>1, <2>2 DEF Inv, RunInv, MainInv
    <2> QED BY <2>1, <2>3, <2>4 DEF Inv, MainInv
  <1>3. /\ to \in Task /\ to \notin suspended
        /\ \A r \in Task \ suspended : Priority(r) <= Priority(to)
    BY <1>1 DEF Tops, Ready
  <1>4. o \in Task /\ Priority(o) >= 2 /\ Priority(to) >= Priority(o)
    BY <1>2, <1>3, Priorities, Tasks
  <1>5. to \in Owner
    BY <1>3, <1>4, Priorities, Tasks DEF TmrSvc, Idle
  <1>6. MAIN \notin suspended => to = MAIN
    BY <1>3, <1>5, Priorities, Tasks
  <1> QED BY <1>3, <1>5, <1>6

LEMMA SwitchInv ==
  ASSUME Inv, Switch
  PROVE  Inv'
  <1>1. PICK to \in Tops :
          /\ current' = to
          /\ IF to = current
             THEN UNCHANGED <<machine, swaps, declined>>
             ELSE IF {current, to} \subseteq slots
             THEN Enact(current, to) /\ swaps' = TRUE /\ UNCHANGED declined
             ELSE declined' = TRUE /\ UNCHANGED <<machine, swaps>>
    BY DEF Switch
  <1>2. /\ started /\ request /\ ~masked
        /\ request' = FALSE
        /\ UNCHANGED <<created, suspended, slots, enabled, masked, started, laps, done, mine, pc,
                       result>>
    BY DEF Switch, Clears, Taken, counts
  <1>3. /\ current = cpu /\ slots = Owner /\ cpu \in Owner /\ pc[cpu] \notin Section
    BY <1>2 DEF Inv, RunInv, TypeOK
  <1>4. to \in Owner /\ to \notin suspended /\ (MAIN \notin suspended => to = MAIN)
    BY <1>2, TopsOwnStacks
  <1>5. cpu' = to /\ declined' = declined /\ swaps' \in BOOLEAN
        /\ (\A t \in Owner : t # to => saved'[t] = t)
        /\ saved' \in [Owner -> Owner \cup {NoFrame}]
    <2>0. saved \in [Owner -> Owner \cup {NoFrame}] /\ swaps \in BOOLEAN
      BY DEF Inv, TypeOK
    <2>1. CASE to = current
      BY <1>1, <1>3, <2>0, <2>1 DEF machine, Inv, Frames
    <2>2. CASE to # current
      <3>1. saved' = [saved EXCEPT ![cpu] = cpu] /\ cpu' = saved[to] /\ swaps' = TRUE
            /\ declined' = declined
        BY <1>1, <1>3, <1>4, <2>2 DEF Enact
      <3>2. \A t \in Owner : t # cpu => saved[t] = t
        BY DEF Inv, Frames
      <3>3. saved' \in [Owner -> Owner \cup {NoFrame}]
            /\ (\A t \in Owner : t # to => saved'[t] = t)
        BY <1>3, <2>0, <3>1, <3>2
      <3> QED BY <1>3, <1>4, <2>2, <3>1, <3>2, <3>3
    <2> QED BY <2>1, <2>2
  <1>6. TypeOK'
    <2>1. current' \in Task /\ cpu' \in Owner /\ declined' \in BOOLEAN /\ request' \in BOOLEAN
      BY <1>1, <1>2, <1>4, <1>5, Tasks DEF Inv, TypeOK
    <2> QED BY <1>2, <1>5, <2>1 DEF Inv, TypeOK
  <1>7. Frames' /\ BootInv'
    BY <1>2, <1>5 DEF Frames, BootInv
  <1>8. RunInv'
    <2>1. pc[to] \notin Section
      <3>1. CASE to = cpu
        BY <1>3, <3>1
      <3>2. CASE to # cpu /\ to \in Worker
        BY <1>2, <3>2 DEF Inv, WorkInv, Away, Section
      <3>3. CASE to # cpu /\ to = MAIN
        BY <1>2, <3>3 DEF Inv, RunInv, Section
      <3> QED BY <1>4, <3>1, <3>2, <3>3 DEF Owner
    <2>2. to # MAIN => pc[MAIN] = "report"
      <3> SUFFICES ASSUME to # MAIN PROVE pc[MAIN] = "report"
        OBVIOUS
      <3>1. MAIN \in suspended
        BY <1>4
      <3>2. CASE cpu = MAIN
        BY <1>2, <1>3, <3>1, <3>2 DEF Inv, RunInv, MainInv, Section
      <3>3. CASE cpu # MAIN
        BY <1>2, <3>3 DEF Inv, RunInv
      <3> QED BY <3>2, <3>3
    <2> QED BY <1>1, <1>2, <1>5, <2>1, <2>2 DEF Inv, RunInv
  <1>9. WorkInv'
    <2> SUFFICES ASSUME NEW w \in Worker
                 PROVE  /\ w # to => pc[w] \in Away
                        /\ pc[w] # "unmask"
                        /\ ~(pc[w] = "parked" /\ w = to)
      BY <1>2, <1>5 DEF Inv, WorkInv, MoreLaps, Past
    <2>1. ~(pc[w] = "parked" /\ w = to)
      BY <1>2, <1>4 DEF Inv, WorkInv
    <2>2. pc[w] \in Away
      BY <1>2, <1>3 DEF Inv, WorkInv, Away, Section
    <2> QED BY <2>1, <2>2 DEF Away
  <1>10. CountInv'
    BY <1>2 DEF Inv, CountInv, Past, IsLast
  <1>11. MainInv'
    <2>1. pc[MAIN] # "unmask"
      BY <1>2, <1>3 DEF Inv, RunInv, Section
    <2>2. cpu' = MAIN => MAIN \notin suspended
      BY <1>4, <1>5
    <2>3. Finishing' <=> Finishing
      BY <1>2 DEF Finishing
    <2> QED BY <1>2, <2>1, <2>2, <2>3 DEF Inv, MainInv
  <1> QED BY <1>6, <1>7, <1>8, <1>9, <1>10, <1>11 DEF Inv

LEMMA SwitchBeforeStartInv ==
  ASSUME Inv, SwitchBeforeStart
  PROVE  Inv'
  <1>1. /\ ~started /\ request' = FALSE
        /\ UNCHANGED <<cpu, saved, current, created, suspended, slots, enabled, masked, started,
                       laps, done, mine, swaps, declined, pc, result>>
    BY DEF SwitchBeforeStart, Clears, machine, counts
  <1>2. TypeOK'
    BY <1>1 DEF Inv, TypeOK
  <1>3. Frames' /\ BootInv'
    BY <1>1 DEF Inv, Frames, BootInv
  <1> QED BY <1>1, <1>2, <1>3, NotStarted DEF Inv

LEMMA KairosStutters ==
  ASSUME Inv, UNCHANGED vars
  PROVE  Inv'
  <1>1. UNCHANGED <<cpu, saved, current, created, suspended, slots, request, enabled, masked,
                    started, laps, done, mine, swaps, declined, pc, result>>
    BY DEF vars, machine, kernel, counts
  <1>2. TypeOK' /\ Frames' /\ BootInv'
    BY <1>1 DEF Inv, TypeOK, Frames, BootInv
  <1>3. RunInv' /\ WorkInv'
    BY <1>1 DEF Inv, RunInv, WorkInv, MoreLaps, Past
  <1>4. CountInv' /\ MainInv'
    BY <1>1 DEF Inv, CountInv, MainInv, IsLast, Past, Finishing
  <1> QED BY <1>2, <1>3, <1>4 DEF Inv

----------------------------------------------------------------------------
\* What ties the kernel's view, the CPU, the mask and the workers' progress together, at every
\* step and for every number of laps.
THEOREM KairosInductive == Spec => []Inv
  <1>1. Inv /\ [Next]_vars => Inv'
    <2> SUFFICES ASSUME Inv, [Next]_vars PROVE Inv'
      OBVIOUS
    <2>1. CASE Boots
      BY <2>1, CreateMainInv, CreateWorkerInv, StartSchedulerInv, EnableSwitchingInv,
         StoreStartedInv, BootFailsInv DEF Boots
    <2>2. CASE Works
      BY <2>2, YieldInv, LapInv, CountDoneInv, ResumeMainInv DEF Works
    <2>3. CASE Stands
      <3>1. PICK t \in Owner : Mask(t) \/ Suspend(t) \/ Unmask(t)
        BY <2>3 DEF Stands
      <3>2. CASE t \in Worker
        BY <3>1, <3>2, WorkerMaskInv, WorkerSuspendInv, WorkerUnmaskInv
      <3>3. CASE t = MAIN
        BY <3>1, <3>3, MainMaskInv, MainSuspendInv, MainUnmaskInv
      <3> QED BY <3>2, <3>3 DEF Owner
    <2>4. CASE Switches
      BY <2>4, SwitchInv, SwitchBeforeStartInv DEF Switches
    <2>5. CASE Report
      BY <2>5, ReportInv
    <2>6. CASE Halt \/ UNCHANGED vars
      BY <2>6, KairosStutters DEF Halt
    <2> QED BY <2>1, <2>2, <2>3, <2>4, <2>5, <2>6 DEF Next
  <1> QED BY <1>1, InitInv, PTL DEF Spec

\* No counter of laps passes its limit, no worker is counted twice, and no step moves the CPU to
\* a task that is not one of the cell's (main.rs 182-206, 313-328).
THEOREM CellTyped == Spec => []TypeOK
  <1>1. Inv => TypeOK
    BY DEF Inv
  <1> QED BY <1>1, KairosInductive, PTL

\* The kernel's current task is the one whose stack the CPU is on once switches are enacted
\* (main.rs 80-90, 232-235).
THEOREM CurrentRuns == Spec => []ViewsAgree
  <1>1. Inv => ViewsAgree
    BY DEF Inv, RunInv, ViewsAgree
  <1> QED BY <1>1, KairosInductive, PTL

\* No switch loses a frame or resumes one task on another's stack (main.rs 238-274).
THEOREM NoFrameLost == Spec => []FramesKept
  <1>1. Inv => FramesKept
    BY DEF Inv, Frames, FramesKept
  <1> QED BY <1>1, KairosInductive, PTL

\* The kernel always finds a task with a stack: no switch is declined (main.rs 216-218, 323-335).
THEOREM AlwaysAStack == Spec => []NeverDeclined
  <1>1. Inv => NeverDeclined
    BY DEF Inv, BootInv, RunInv, NeverDeclined
  <1> QED BY <1>1, KairosInductive, PTL

\* main reports only when both workers are through their laps and parked (main.rs 44-46).
THEOREM ReportsLast == Spec => []ParkedBeforeReport
  <1>1. Inv => ParkedBeforeReport
    <2> SUFFICES ASSUME Inv, pc[MAIN] = "report", cpu = MAIN, ~Taken
                 PROVE  Worker \subseteq suspended /\ \A w \in Worker : laps[w] = LAPS
      BY DEF ParkedBeforeReport
    <2>1. started /\ pc[cpu] \notin Section
      BY DEF Inv, BootInv, Section
    <2>2. MAIN \notin suspended
      BY <2>1, NotTaken DEF Inv, MainInv
    <2>3. Finishing /\ \A w \in Worker : pc[w] \in Away
      BY <2>1, <2>2, Others DEF Inv, MainInv, WorkInv
    <2>4. \A w \in Worker : pc[w] = "parked"
      BY <2>3, Others DEF Finishing, Away
    <2> QED BY <2>1, <2>4 DEF Inv, WorkInv, Past
  <1> QED BY <1>1, KairosInductive, PTL
=============================================================================
