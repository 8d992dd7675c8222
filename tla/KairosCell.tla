----------------------------- MODULE KairosCell -----------------------------
(***************************************************************************)
(* Two worker tasks and `main` scheduled by the Kairos kernel on one core  *)
(* (firmware/xiao-s3-kairos-tasks/src/main.rs).  The kernel decides which  *)
(* task runs; the cell's Software0 handler enacts it.  The two can drift   *)
(* apart: the kernel's `current` moves when it decides, the CPU moves only *)
(* when the handler has a context for both tasks.                          *)
(*                                                                         *)
(* The kernel and the port are other crates, modelled from how the cell    *)
(* uses them.  Which of the highest-priority ready tasks a switch picks is *)
(* left open.  Nothing preempts a task: a switch happens only where one    *)
(* was requested, at once when a masked section ends, and within the       *)
(* function that yielded otherwise.                                        *)
(***************************************************************************)
EXTENDS Naturals, FiniteSets

CONSTANT LAPS    \* hand-offs each worker must complete

ASSUME LapsAssumption == LAPS \in Nat

Worker == 0 .. 1
MAIN   == 2
TmrSvc == 3      \* the kernel's own tasks: they own no stack in this cell
Idle   == 4
Task   == 0 .. 4
Owner  == Worker \cup {MAIN}

\* MUTANT of Priority: main below the timer daemon, as it was before the board run
DaemonOnTop(t) == CASE t = MAIN -> 1 [] t \in Worker -> 2 [] t = TmrSvc -> 3 [] OTHER -> 0

\* S3Config and the create_task calls
Priority(t) == CASE t = MAIN -> 3 [] t \in Worker -> 2 [] t = TmrSvc -> 1 [] OTHER -> 0

VARIABLES
  cpu,        \* whose stack the CPU is on
  saved,      \* saved[t]: the frame that task t's Context holds
  current,    \* Kernel::current
  created,    \* the tasks the kernel knows
  suspended,  \* those of them it has suspended
  slots,      \* the tasks registered with a Context
  request,    \* Software0 is pending
  enabled,    \* enable_switching was called
  masked,     \* INTLEVEL is raised
  started,    \* STARTED
  laps,       \* LAPS_A, LAPS_B
  done,       \* DONE
  mine,       \* a worker's local `done`
  swaps,      \* SWAPS > 0
  declined,   \* NO_CTX > 0
  pc, result

machine == <<cpu, saved>>
kernel  == <<current, created, suspended>>
counts  == <<laps, done, mine>>
vars    == <<machine, kernel, slots, request, enabled, masked, started, counts, swaps,
             declined, pc, result>>

\* A Context that no frame was saved in yet, and one the port built for a task's first run,
\* hold the frame named here.
NoFrame == 5

----------------------------------------------------------------------------
\* the kernel (external)

Ready == created \ suspended
Tops  == {t \in Ready : \A o \in Ready : Priority(o) <= Priority(t)}

\* create_task outside the scheduler: the highest-priority task is current.  A kernel may take
\* the newer of two equals as well; here each is compared with main, which is above it.
MakesCurrent(t) == t = MAIN \/ Priority(t) > Priority(current)

Create(t) ==
  /\ created' = created \cup {t}
  /\ current' = IF MakesCurrent(t) THEN t ELSE current
  /\ UNCHANGED suspended

----------------------------------------------------------------------------
\* A step of the task that holds the CPU.  A pending request is taken first, wherever it can
\* be, except in the few instructions that follow the write that raised or enabled it.

Latency == {"store", "lap"}
Taken   == request /\ enabled /\ ~masked

At(t, point) ==
  /\ cpu = t /\ pc[t] = point
  /\ Taken => point \in Latency

Goes(t, point) == pc' = [pc EXCEPT ![t] = point]

----------------------------------------------------------------------------
\* main: boot

Boot(point, next) == At(MAIN, point) /\ Goes(MAIN, next)
                     /\ UNCHANGED <<machine, masked, counts, swaps, declined, result>>

CreateMain ==
  /\ Boot("create main", "create workers")
  /\ Create(MAIN)
  /\ slots' = slots \cup {MAIN}
  /\ UNCHANGED <<request, enabled, started>>

CreateWorker(w) ==
  /\ Boot("create workers", IF w = 1 THEN "start" ELSE "create workers")
  /\ created \cap Worker = 0 .. w - 1
  /\ Create(w)
  /\ slots' = slots \cup {w}
  /\ UNCHANGED <<request, enabled, started>>

\* start_scheduler creates the kernel's tasks and may leave a switch requested
StartScheduler ==
  /\ Boot("start", "enable")
  /\ created' = created \cup {Idle, TmrSvc}
  /\ current' = IF MakesCurrent(TmrSvc) THEN TmrSvc ELSE current
  /\ request' \in BOOLEAN
  /\ UNCHANGED <<suspended, slots, enabled, started>>

EnableSwitching ==
  /\ Boot("enable", "store")
  /\ enabled' = TRUE
  /\ UNCHANGED <<kernel, slots, request, started>>

StoreStarted ==
  /\ Boot("store", "stand down")
  /\ started' = TRUE
  /\ UNCHANGED <<kernel, slots, request, enabled>>

\* a kernel call of the boot fails: main says so and stops
BootFails ==
  /\ \E point \in {"create main", "create workers", "start"} : At(MAIN, point)
  /\ Goes(MAIN, "halt")
  /\ result' = "FAIL"
  /\ UNCHANGED <<machine, kernel, slots, request, enabled, masked, started, counts, swaps,
                 declined>>

----------------------------------------------------------------------------
\* the workers

MoreLaps(w) == laps[w] < LAPS

\* level_three, entered through level_one and level_two; a task that was parked and runs on
\* only yields
Yield(w) ==
  /\ \E point \in {"yield", "parked"} :
       /\ At(w, point) /\ (point = "yield" => MoreLaps(w))
       /\ Goes(w, IF point = "yield" THEN "lap" ELSE point)
  /\ request' = TRUE
  /\ UNCHANGED <<machine, kernel, slots, enabled, masked, started, counts, swaps, declined,
                 result>>

Lap(w) ==
  /\ At(w, "lap")
  /\ laps' = [laps EXCEPT ![w] = @ + 1]
  /\ Goes(w, "yield")
  /\ UNCHANGED <<machine, kernel, slots, request, enabled, masked, started, done, mine,
                 swaps, declined, result>>

CountDone(w) ==
  /\ At(w, "yield") /\ ~MoreLaps(w)
  /\ done' = done + 1
  /\ mine' = [mine EXCEPT ![w] = done + 1]
  /\ Goes(w, "stand down")
  /\ UNCHANGED <<machine, kernel, slots, request, enabled, masked, started, laps, swaps,
                 declined, result>>

----------------------------------------------------------------------------
\* with_kernel: the section in which a task suspends itself

\* MUTANT of Mask: the kernel is borrowed without masking interrupts
NoMask(t) ==
  /\ At(t, "stand down")
  /\ Goes(t, IF t = MAIN THEN "suspend" ELSE "resume main")
  /\ UNCHANGED <<machine, kernel, slots, request, enabled, masked, started, counts, swaps,
                 declined, result>>

Mask(t) ==
  /\ At(t, "stand down")
  /\ masked' = TRUE
  /\ Goes(t, IF t = MAIN THEN "suspend" ELSE "resume main")
  /\ UNCHANGED <<machine, kernel, slots, request, enabled, started, counts, swaps, declined,
                 result>>

\* MUTANT of IsLast: the workers are miscounted and nobody resumes main
ThirdIsLast(w) == mine[w] >= 3

\* the worker that finished last
IsLast(w) == mine[w] >= 2

\* main outranks every worker: resuming it asks for a switch
ResumeMain(w) ==
  /\ At(w, "resume main")
  /\ IF IsLast(w) THEN suspended' = suspended \ {MAIN} /\ request' = TRUE
                  ELSE UNCHANGED <<suspended, request>>
  /\ Goes(w, "suspend")
  /\ UNCHANGED <<machine, current, created, slots, enabled, masked, started, counts, swaps,
                 declined, result>>

\* Kernel::suspend(None) suspends the task the kernel holds to be current; port_yield raises
\* Software0 and leaves `current` alone
Suspend(t) ==
  /\ At(t, "suspend")
  /\ suspended' = suspended \cup {current}
  /\ request' = TRUE
  /\ Goes(t, "unmask")
  /\ UNCHANGED <<machine, current, created, slots, enabled, masked, started, counts, swaps,
                 declined, result>>

Unmask(t) ==
  /\ At(t, "unmask")
  /\ masked' = FALSE
  /\ Goes(t, IF t = MAIN THEN "report" ELSE "parked")
  /\ UNCHANGED <<machine, kernel, slots, request, enabled, started, counts, swaps, declined,
                 result>>

----------------------------------------------------------------------------
\* Software0

Clears ==
  /\ Taken
  /\ request' = FALSE
  /\ UNCHANGED <<created, suspended, slots, enabled, masked, started, counts, pc, result>>

SwitchBeforeStart ==
  /\ Clears /\ ~started
  /\ UNCHANGED <<machine, current, swaps, declined>>

\* MUTANT of Enact: the frame is saved under the task that comes in
EnactIntoNext(from, to) ==
  /\ saved' = [saved EXCEPT ![to] = cpu]
  /\ cpu' = saved[to]

\* switch_context: the running frame is saved in the Context of `from`, that of `to` resumed
Enact(from, to) ==
  /\ saved' = [saved EXCEPT ![from] = cpu]
  /\ cpu' = saved[to]

\* the kernel decides; a switch that names a task without a Context is declined, although
\* the kernel's current has moved
Switch ==
  /\ Clears /\ started
  /\ \E to \in Tops :
       /\ current' = to
       /\ IF to = current
          THEN UNCHANGED <<machine, swaps, declined>>
          ELSE IF {current, to} \subseteq slots
          THEN Enact(current, to) /\ swaps' = TRUE /\ UNCHANGED declined
          ELSE declined' = TRUE /\ UNCHANGED <<machine, swaps>>

----------------------------------------------------------------------------
\* main, once it regains the CPU

Passes == (\A w \in Worker : laps[w] >= LAPS) /\ swaps

Report ==
  /\ At(MAIN, "report")
  /\ result' = IF Passes THEN "PASS" ELSE "FAIL"
  /\ Goes(MAIN, "halt")
  /\ UNCHANGED <<machine, kernel, slots, request, enabled, masked, started, counts, swaps,
                 declined>>

\* loop {}
Halt == At(MAIN, "halt") /\ UNCHANGED vars

----------------------------------------------------------------------------
Init ==
  /\ cpu = MAIN
  /\ saved = [t \in Owner |-> IF t = MAIN THEN NoFrame ELSE t]
  /\ current = Idle /\ created = {} /\ suspended = {}
  /\ slots = {}
  /\ request = FALSE /\ enabled = FALSE /\ masked = FALSE /\ started = FALSE
  /\ laps = [w \in Worker |-> 0] /\ done = 0 /\ mine = [w \in Worker |-> 0]
  /\ swaps = FALSE /\ declined = FALSE
  /\ pc = [t \in Owner |-> IF t = MAIN THEN "create main" ELSE "yield"]
  /\ result = "none"

Boots   == CreateMain \/ (\E w \in Worker : CreateWorker(w)) \/ StartScheduler
           \/ EnableSwitching \/ StoreStarted \/ BootFails
Works   == \E w \in Worker : Yield(w) \/ Lap(w) \/ CountDone(w) \/ ResumeMain(w)
Stands  == \E t \in Owner : Mask(t) \/ Suspend(t) \/ Unmask(t)
Switches == SwitchBeforeStart \/ Switch

Next == Boots \/ Works \/ Stands \/ Switches \/ Report \/ Halt

Spec == Init /\ [][Next]_vars

\* the core executes: some step is always taken
FairSpec == Spec /\ WF_vars(Next)

----------------------------------------------------------------------------
Points == {"create main", "create workers", "start", "enable", "store", "yield", "lap",
           "stand down", "resume main", "suspend", "unmask", "parked", "report", "halt"}

TypeOK ==
  /\ cpu \in Owner
  /\ saved \in [Owner -> Owner \cup {NoFrame}]
  /\ current \in Task /\ created \subseteq Task /\ suspended \subseteq Task
  /\ slots \subseteq Owner
  /\ request \in BOOLEAN /\ enabled \in BOOLEAN /\ masked \in BOOLEAN
  /\ started \in BOOLEAN /\ swaps \in BOOLEAN /\ declined \in BOOLEAN
  /\ laps \in [Worker -> 0 .. LAPS] /\ done \in 0 .. 2 /\ mine \in [Worker -> 0 .. 2]
  /\ pc \in [Owner -> Points]
  /\ result \in {"none", "PASS", "FAIL"}

\* The kernel's current task is the one whose stack the CPU is on from the moment the
\* handler may act (main.rs 80-90, 232-235): were they to differ, a task that suspends
\* itself would suspend another.
ViewsAgree == started => current = cpu

\* Every task but the running one has its own frame in its own Context (main.rs 238-274):
\* no switch loses a frame or resumes one task on another's stack.
FramesKept ==
  \A t \in Owner : t # cpu /\ t \in created => saved[t] = t

\* The kernel always finds a task with a stack: main is resumed before the last worker
\* leaves it nothing but its own tasks (main.rs 216-218, 323-335).
NeverDeclined == ~declined

\* main regains the CPU only when both workers are through their laps and parked
\* (main.rs 44-46, "which it can only do if the scheduler actually parked both workers").
ParkedBeforeReport ==
  pc[MAIN] = "report" /\ cpu = MAIN /\ ~Taken =>
    Worker \subseteq suspended /\ \A w \in Worker : laps[w] = LAPS

\* Unless the boot fails, main regains the CPU and the cell passes: main's suspension is not
\* forever, whatever order the workers finish in (main.rs 323-325, "main never prints").
Reports == <>(result = "PASS" \/ (result = "FAIL" /\ ~started))
=============================================================================
