------------------------------ MODULE ProcSync ------------------------------
(***************************************************************************)
(* Process synchronisation on one CPU: sleep and wakeup (sleep.c), the     *)
(* scheduler (sched.c), the sleeping lock built on them (lock.c), and the  *)
(* interrupt entry and exit paths that drive them (irq.S).                 *)
(*                                                                         *)
(* The kernel is not preemptive: an interrupt taken in kernel mode runs    *)
(* its bottom half and returns (CHECK_NESTED_INT); one taken in user mode, *)
(* and every system call, goes on to the check of needs_resched.           *)
(* Bottom halves run with interrupts enabled at any point where IF is set, *)
(* so they interleave with the exit path and with sched_run.               *)
(*                                                                         *)
(* No source file creates a process, posts a signal or implements a system *)
(* call: which calls a process makes, and when a signal arrives, is the    *)
(* environment of this module.                                             *)
(***************************************************************************)
EXTENDS ProcQueues

CONSTANTS
  Hogs,       \* processes that only compute in user mode and make no system call
  Idle,       \* proc_list[PROC_IDLE_PID], whose code is the halt loop cpu_idle
  Resources,  \* addresses that are resource_t locks
  Events,     \* addresses processes sleep on until a bottom half wakes them
  Buckets,    \* buckets of the sleep hash table
  Hash,       \* TO_SLEEP_TABLE_HASH: the bucket of an address
  Priority    \* time slice of each process

Addrs == Resources \cup Events

ASSUME ProcSyncAssumption ==
  /\ IsFiniteSet(Procs) /\ Procs # {}
  /\ Hogs \subseteq Procs
  /\ Idle \notin Procs
  /\ Resources \cap Events = {}
  /\ NULL \notin Addrs /\ NULL \notin Resources
  /\ Hash \in [Addrs -> Buckets]
  /\ Priority \in [Procs -> Nat \ {0}]

\* No two addresses share a bucket: what a hash table of six buckets promises
\* only to programs that sleep on few addresses.
CollisionFree == \A a, b \in Addrs : Hash[a] = Hash[b] => a = b

VARIABLES
  state,         \* proc_t.state: "running" (runnable) or "sleeping"
  sleepAddr,     \* proc_t.sleep_addr
  notInterrupt,  \* processes with PROC_FLAG_NOTINTERRUPT
  remaining,     \* proc_t.remaining_cpu_time
  bucket,        \* sleep_hash_table
  runList,       \* proc_running_list
  needsResched,  \* needs_resched
  current,       \* proc_current
  chosen,        \* proc_to_run_next of the sched_run in progress
  locked,        \* resource_t.locked
  wanted,        \* resource_t.wanted
  held,          \* the resource a process has locked and not yet unlocked
  arg,           \* the address its system call is about
  pending,       \* processes for which sig_get finds a signal to handle
  pc             \* where each process is

procVars == <<state, sleepAddr, notInterrupt, remaining, bucket, runList>>
lockVars == <<locked, wanted, held>>
vars == <<procVars, needsResched, current, chosen, lockVars, arg, pending, pc>>

PCs == {"user",       \* user mode
        "lock",       \* at the top of lock_resource's loop
        "lockSleep",  \* lock_resource has set wanted and restored interrupts
        "critical",   \* holds a resource
        "waitI",      \* about to sleep interruptibly on an event
        "waitU",      \* about to sleep uninterruptibly on an event
        "asleep",     \* switched out inside sleep
        "exit",       \* on the way out of the kernel, before the check
        "pick",       \* in sched_run, needs_resched cleared
        "switch",     \* in sched_run, next process chosen
        "iret"}       \* past the check

Init ==
  /\ state = [p \in Procs |-> "running"]
  /\ sleepAddr = [p \in Procs |-> NULL]
  /\ notInterrupt = {}
  /\ remaining = [p \in Procs |-> 0]
  /\ bucket = [k \in Buckets |-> <<>>]
  /\ runList \in {q \in [1..Cardinality(Procs) -> Procs] : NoRepetition(q)}
  /\ needsResched = FALSE
  /\ current \in Procs
  /\ chosen = Idle
  /\ locked = [r \in Resources |-> FALSE]
  /\ wanted = [r \in Resources |-> FALSE]
  /\ held = [p \in Procs |-> NULL]
  /\ arg = [p \in Procs |-> NULL]
  /\ pending = {}
  /\ pc = [p \in Procs |-> "user"]

-----------------------------------------------------------------------------
(* sleep.c *)

\* The processes woken of bucket k become runnable with a full slice, in the
\* order of the bucket.
MakeRunnable(k, woken) ==
  /\ sleepAddr' = [p \in Procs |-> IF p \in woken THEN NULL ELSE sleepAddr[p]]
  /\ remaining' = [p \in Procs |-> IF p \in woken THEN Priority[p] ELSE remaining[p]]
  /\ notInterrupt' = notInterrupt \ woken
  /\ runList' = PushEach(runList, bucket[k], {p \in woken : state[p] # "running"})
  /\ state' = [p \in Procs |-> IF p \in woken THEN "running" ELSE state[p]]

\* Seeded faults: wakeup wakes the bucket without comparing addresses; wakeup
\* does not ask for a reschedule.
WakeupWholeBucket(addr) ==
  LET k == Hash[addr]
  IN  /\ bucket' = [bucket EXCEPT ![k] = <<>>]
      /\ MakeRunnable(k, Members(bucket[k]))
      /\ needsResched' = (needsResched \/ bucket[k] # <<>>)

WakeupNoResched(addr) ==
  LET k     == Hash[addr]
      match == {p \in Procs : sleepAddr[p] = addr}
  IN  /\ bucket' = [bucket EXCEPT ![k] = BucketAfter(@, match)]
      /\ MakeRunnable(k, Woken(bucket[k], match))
      /\ UNCHANGED needsResched

\* wakeup(addr)
Wakeup(addr) ==
  LET k     == Hash[addr]
      match == {p \in Procs : sleepAddr[p] = addr}
      woken == Woken(bucket[k], match)
  IN  /\ bucket' = [bucket EXCEPT ![k] = BucketAfter(@, match)]
      /\ MakeRunnable(k, woken)
      /\ needsResched' = (needsResched \/ woken # {})

\* sleep returns without sleeping: a signal is pending, or the process is
\* already marked as sleeping.
ReturnsAtOnce(p, interruptible) ==
  \/ interruptible /\ p \in pending
  \/ state[p] = "sleeping"

\* p leaves the running list for the bucket of addr.
Enqueue(p, addr, interruptible) ==
  /\ bucket' = [bucket EXCEPT ![Hash[addr]] = <<p>> \o @]
  /\ sleepAddr' = [sleepAddr EXCEPT ![p] = addr]
  /\ notInterrupt' = IF interruptible THEN notInterrupt ELSE notInterrupt \cup {p}
  /\ runList' = Unlink(runList, p)
  /\ state' = [state EXCEPT ![p] = "sleeping"]

\* sched_run without interrupts, when run is the running list.
ScheduleFrom(run) ==
  /\ needsResched' = FALSE
  /\ remaining' = Recharge(run, remaining, Priority)
  /\ current' = Pick(run, remaining', Idle)

\* Seeded fault: the next process is picked before p leaves the running list.
SleepPicksFirst(p, addr, interruptible, after) ==
  IF ReturnsAtOnce(p, interruptible)
  THEN /\ pc' = [pc EXCEPT ![p] = after]
       /\ UNCHANGED <<procVars, needsResched, current>>
  ELSE /\ Enqueue(p, addr, interruptible)
       /\ ScheduleFrom(runList)
       /\ pc' = [pc EXCEPT ![p] = "asleep"]

\* sleep(addr, type) of the current process p, up to the switch in sched_run;
\* interrupts stay off.  When it does not sleep, p continues at "after".
Sleep(p, addr, interruptible, after) ==
  IF ReturnsAtOnce(p, interruptible)
  THEN /\ pc' = [pc EXCEPT ![p] = after]
       /\ UNCHANGED <<procVars, needsResched, current>>
  ELSE /\ Enqueue(p, addr, interruptible)
       /\ ScheduleFrom(runList')
       /\ pc' = [pc EXCEPT ![p] = "asleep"]

\* Seeded fault: lock_resource tests locked once instead of in a loop.
SleepReturnNoLoop(p) ==
  /\ current = p /\ pc[p] = "asleep"
  /\ IF held[p] = NULL /\ arg[p] \in Resources
     THEN /\ locked' = [locked EXCEPT ![arg[p]] = TRUE]
          /\ held' = [held EXCEPT ![p] = arg[p]]
          /\ pc' = [pc EXCEPT ![p] = "critical"]
     ELSE /\ pc' = [pc EXCEPT ![p] = IF held[p] # NULL THEN "critical" ELSE "exit"]
          /\ UNCHANGED <<locked, held>>
  /\ UNCHANGED <<procVars, needsResched, current, chosen, wanted, arg, pending>>

\* The tail of sleep, run when p is switched back to.
SleepReturn(p) ==
  /\ current = p /\ pc[p] = "asleep"
  /\ pc' = [pc EXCEPT ![p] = IF held[p] # NULL THEN "critical"
                             ELSE IF arg[p] \in Resources THEN "lock"
                             ELSE "exit"]
  /\ UNCHANGED <<procVars, needsResched, current, chosen, lockVars, arg, pending>>

-----------------------------------------------------------------------------
(* System calls *)

EnterLock(p, r) ==
  /\ current = p /\ pc[p] = "user" /\ p \notin Hogs
  /\ arg' = [arg EXCEPT ![p] = r]
  /\ pc' = [pc EXCEPT ![p] = "lock"]
  /\ UNCHANGED <<procVars, needsResched, current, chosen, lockVars, pending>>

EnterWait(p, e) ==
  /\ current = p /\ pc[p] = "user" /\ p \notin Hogs
  /\ arg' = [arg EXCEPT ![p] = e]
  /\ \E w \in {"waitI", "waitU"} : pc' = [pc EXCEPT ![p] = w]
  /\ UNCHANGED <<procVars, needsResched, current, chosen, lockVars, pending>>

WaitSleep(p) ==
  /\ current = p /\ pc[p] \in {"waitI", "waitU"}
  /\ Sleep(p, arg[p], pc[p] = "waitI", "exit")
  /\ UNCHANGED <<chosen, lockVars, arg, pending>>

\* Seeded fault: a waiter does not set wanted.
LockTryUnwanted(p) ==
  /\ current = p /\ pc[p] = "lock"
  /\ IF locked[arg[p]]
     THEN /\ pc' = [pc EXCEPT ![p] = "lockSleep"]
          /\ UNCHANGED <<locked, held>>
     ELSE /\ locked' = [locked EXCEPT ![arg[p]] = TRUE]
          /\ held' = [held EXCEPT ![p] = arg[p]]
          /\ pc' = [pc EXCEPT ![p] = "critical"]
  /\ UNCHANGED <<procVars, needsResched, current, chosen, wanted, arg, pending>>

\* lock_resource: one turn of its loop, and what follows it.
LockTry(p) ==
  /\ current = p /\ pc[p] = "lock"
  /\ IF locked[arg[p]]
     THEN /\ wanted' = [wanted EXCEPT ![arg[p]] = TRUE]
          /\ pc' = [pc EXCEPT ![p] = "lockSleep"]
          /\ UNCHANGED <<locked, held>>
     ELSE /\ locked' = [locked EXCEPT ![arg[p]] = TRUE]
          /\ held' = [held EXCEPT ![p] = arg[p]]
          /\ pc' = [pc EXCEPT ![p] = "critical"]
          /\ UNCHANGED wanted
  /\ UNCHANGED <<procVars, needsResched, current, chosen, arg, pending>>

LockSleep(p) ==
  /\ current = p /\ pc[p] = "lockSleep"
  /\ Sleep(p, arg[p], FALSE, "lock")
  /\ UNCHANGED <<chosen, lockVars, arg, pending>>

\* The holder of a resource waits for a device before it goes on.
CriticalWait(p, e) ==
  /\ current = p /\ pc[p] = "critical"
  /\ arg' = [arg EXCEPT ![p] = e]
  /\ Sleep(p, e, FALSE, "critical")
  /\ UNCHANGED <<chosen, lockVars, pending>>

\* Seeded fault: unlock_resource clears wanted and wakes nobody.
UnlockSilently(p) ==
  LET r == held[p]
  IN  /\ current = p /\ pc[p] = "critical"
      /\ locked' = [locked EXCEPT ![r] = FALSE]
      /\ wanted' = [wanted EXCEPT ![r] = FALSE]
      /\ held' = [held EXCEPT ![p] = NULL]
      /\ pc' = [pc EXCEPT ![p] = "exit"]
      /\ UNCHANGED <<procVars, needsResched, current, chosen, arg, pending>>

\* unlock_resource
Unlock(p) ==
  LET r == held[p]
  IN  /\ current = p /\ pc[p] = "critical"
      /\ locked' = [locked EXCEPT ![r] = FALSE]
      /\ wanted' = [wanted EXCEPT ![r] = FALSE]
      /\ held' = [held EXCEPT ![p] = NULL]
      /\ IF wanted[r] THEN Wakeup(r) ELSE UNCHANGED <<procVars, needsResched>>
      /\ pc' = [pc EXCEPT ![p] = "exit"]
      /\ UNCHANGED <<current, chosen, arg, pending>>

-----------------------------------------------------------------------------
(* Interrupts, and the way out of the kernel *)

\* IF: clear only while the tail of a sleep that was switched to has not run.
InterruptsOn == current # Idle => pc[current] # "asleep"

\* Taken in user mode, an interrupt enters the exit path; taken in the kernel
\* it returns to where it was.
AfterIrq ==
  pc' = IF current # Idle /\ pc[current] = "user"
        THEN [pc EXCEPT ![current] = "exit"] ELSE pc

\* An interrupt whose bottom half wakes the processes waiting for e.
IrqWake(e) ==
  /\ InterruptsOn
  /\ Wakeup(e)
  /\ AfterIrq
  /\ UNCHANGED <<current, chosen, lockVars, arg, pending>>

\* An interrupt whose bottom half wakes nobody, such as a timer tick.
IrqTick ==
  /\ InterruptsOn
  /\ AfterIrq
  /\ UNCHANGED <<procVars, needsResched, current, chosen, lockVars, arg, pending>>

\* CHECK_NEEDS_SCHEDULE, and the beginning of sched_run.
ExitCheck(p) ==
  /\ current = p /\ pc[p] = "exit"
  /\ needsResched' = FALSE
  /\ pc' = [pc EXCEPT ![p] = IF needsResched THEN "pick" ELSE "iret"]
  /\ UNCHANGED <<procVars, current, chosen, lockVars, arg, pending>>

\* The loop of sched_run.  Only a wakeup asks for a reschedule, and it leaves a
\* process with a full slice on the list: at this point nobody is recharged,
\* and so nothing can come between a recharge and the choice after it.
SchedPick(p) ==
  /\ current = p /\ pc[p] = "pick"
  /\ remaining' = Recharge(runList, remaining, Priority)
  /\ chosen' = Pick(runList, remaining', Idle)
  /\ pc' = [pc EXCEPT ![p] = "switch"]
  /\ UNCHANGED <<state, sleepAddr, notInterrupt, bucket, runList, needsResched,
                 current, lockVars, arg, pending>>

\* Seeded fault: needs_resched is cleared when the switch is made.
SchedSwitchClears(p) ==
  /\ current = p /\ pc[p] = "switch"
  /\ current' = chosen
  /\ needsResched' = FALSE
  /\ pc' = [pc EXCEPT ![p] = "iret"]
  /\ UNCHANGED <<procVars, chosen, lockVars, arg, pending>>

SchedSwitch(p) ==
  /\ current = p /\ pc[p] = "switch"
  /\ current' = chosen
  /\ pc' = [pc EXCEPT ![p] = "iret"]
  /\ UNCHANGED <<procVars, needsResched, chosen, lockVars, arg, pending>>

Iret(p) ==
  /\ current = p /\ pc[p] = "iret"
  /\ pc' = [pc EXCEPT ![p] = "user"]
  /\ UNCHANGED <<procVars, needsResched, current, chosen, lockVars, arg, pending>>

\* A signal that p neither blocks nor ignores is sent to it.
PostSignal(p) ==
  /\ pending' = pending \cup {p}
  /\ UNCHANGED <<procVars, needsResched, current, chosen, lockVars, arg, pc>>

-----------------------------------------------------------------------------
KernelStep(p) ==
  \/ SleepReturn(p) \/ WaitSleep(p)
  \/ LockTry(p) \/ LockSleep(p) \/ Unlock(p)
  \/ ExitCheck(p) \/ SchedPick(p) \/ SchedSwitch(p) \/ Iret(p)

Next ==
  \/ \E p \in Procs :
       \/ KernelStep(p)
       \/ \E r \in Resources : EnterLock(p, r)
       \/ \E e \in Events : EnterWait(p, e) \/ CriticalWait(p, e)
       \/ PostSignal(p)
  \/ \E e \in Events : IrqWake(e)
  \/ IrqTick

Spec == Init /\ [][Next]_vars

(***************************************************************************)
(* Fairness.  Code that has the CPU runs on; critical sections are finite; *)
(* the timer keeps ticking, so user code is always interrupted again; and  *)
(* a device whose interrupt is latched while IF is clear delivers it later *)
(* (strong fairness, because IF is cleared and set again).  Nothing makes  *)
(* a process enter the kernel.                                             *)
(***************************************************************************)
Fairness ==
  /\ \A p \in Procs : WF_vars(KernelStep(p)) /\ SF_vars(Unlock(p))
  /\ WF_vars(IrqTick /\ current # Idle /\ pc[current] = "user")
  /\ \A e \in Events : SF_vars(IrqWake(e))

FairSpec == Spec /\ Fairness

-----------------------------------------------------------------------------
(* Properties *)

\* Every variable has the type the code gives it.
TypeOK ==
  /\ state \in [Procs -> {"running", "sleeping"}]
  /\ sleepAddr \in [Procs -> Addrs \cup {NULL}]
  /\ notInterrupt \subseteq Procs
  /\ remaining \in [Procs -> Nat]
  /\ bucket \in [Buckets -> Seq(Procs)]
  /\ runList \in Seq(Procs)
  /\ needsResched \in BOOLEAN
  /\ current \in Procs \cup {Idle}
  /\ chosen \in Procs \cup {Idle}
  /\ locked \in [Resources -> BOOLEAN]
  /\ wanted \in [Resources -> BOOLEAN]
  /\ held \in [Procs -> Resources \cup {NULL}]
  /\ arg \in [Procs -> Addrs \cup {NULL}]
  /\ pending \subseteq Procs
  /\ pc \in [Procs -> PCs]

\* The running list holds each runnable process once and nobody else, whatever
\* bottom half pushed onto it in the middle of sched_run (proc_runnable,
\* proc_not_runnable).
RunListExact ==
  /\ NoRepetition(runList)
  /\ Members(runList) = {p \in Procs : state[p] = "running"}

\* A sleeping process is in the bucket of the address it sleeps on, once, and
\* in no other; nobody else is in the table (sleep, wakeup).
SleepTableExact ==
  /\ \A p \in Procs : state[p] = "sleeping" <=> sleepAddr[p] # NULL
  /\ \A k \in Buckets :
       /\ NoRepetition(bucket[k])
       /\ Members(bucket[k]) =
            {p \in Procs : sleepAddr[p] # NULL /\ Hash[sleepAddr[p]] = k}

\* Every process is on the running list or in the sleep table, once, as its
\* state says, through all sleeps, wakeups and interrupted reschedules.
QueuesExact == RunListExact /\ SleepTableExact

\* The process that has the CPU is runnable, and so is the one sched_run is
\* about to switch to although bottom halves ran since it was chosen.
CurrentIsRunnable ==
  /\ current # Idle => state[current] = "running"
  /\ \A p \in Procs : pc[p] = "switch" => chosen # Idle /\ state[chosen] = "running"

\* A resource is locked exactly when one process holds it
\* (lock_resource, unlock_resource).
MutualExclusion ==
  \A r \in Resources :
    /\ locked[r] <=> \E p \in Procs : held[p] = r
    /\ \A p, q \in Procs : held[p] = r /\ held[q] = r => p = q

\* Nobody sleeps on a resource unless its holder is going to wake them: no
\* wakeup of unlock_resource is lost, neither between the moment a waiter sets
\* wanted and the moment it is in the sleep table, nor in a bucket's walk.
NoStrandedWaiter ==
  \A p \in Procs, r \in Resources :
    sleepAddr[p] = r => locked[r] /\ wanted[r]

\* User code never runs while a process with more of its slice left is
\* runnable and nothing has asked for a reschedule: no request made by a
\* bottom half during sched_run is forgotten (needs_resched).
NoMissedReschedule ==
  (current # Idle /\ pc[current] = "user" /\ ~needsResched)
    => \A q \in Members(runList) : remaining[q] <= remaining[current]

\* One step wakes only processes that slept on one address, and on a resource
\* only when it is being released: a colliding address in the same bucket is
\* never woken in its place (wakeup).
WakesOneAddress ==
  [][\A p, q \in Procs :
       (sleepAddr[p] # sleepAddr'[p] /\ sleepAddr[p] # NULL)
       => /\ sleepAddr[p] \in Resources => ~locked'[sleepAddr[p]]
          /\ (sleepAddr[q] # sleepAddr'[q] /\ sleepAddr[q] # NULL)
               => sleepAddr[q] = sleepAddr[p]]_vars

\* A process that sleeps for a resource is woken: its holder, itself possibly
\* asleep on a device, is always woken, scheduled and made to unlock.
LockWaiterWoken ==
  \A p \in Procs, r \in Resources :
    (sleepAddr[p] = r) ~> (sleepAddr[p] # r)

\* A process woken inside sleep gets the CPU if no other has as high a
\* priority: wakeup makes it "runnable again and indicate[s] we need to
\* reschedule" (sleep.c), and the request is acted on although it may be made
\* in the middle of another sched_run.
WokenTopRuns ==
  \A p \in Procs :
    (/\ pc[p] = "asleep" /\ state[p] = "running"
     /\ \A q \in Procs \ {p} : Priority[q] < Priority[p])
    ~> (current = p)

=============================================================================
