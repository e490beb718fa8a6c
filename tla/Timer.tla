------------------------------- MODULE Timer --------------------------------
(***************************************************************************)
(* Timer tasks (timer.c): the interrupt that counts them down in bottom    *)
(* halves, which further timer interrupts may nest in, and the routines    *)
(* that add and remove them, called by processes and by expired tasks.     *)
(***************************************************************************)
EXTENDS DeltaList, FiniteSets, TLC

CONSTANTS
  Reqs,           \* the requests: pairs of a function and an argument
  NumTimerTasks,  \* NUM_TIMER_TASKS
  Delays,         \* the delays, in ticks, asked for
  MaxNest,        \* bound on the nesting of bottom halves
  MaxCalls,       \* bound on the calls of timer_task_add and _remove
  Open            \* the points at which a timer interrupt may arrive

CallPoints == {"find", "remove", "free", "add", "get", "init", "insert"}
Points ==
  {"idle", "timer", "count", "tt", "scan", "take", "pop", "popped", "fn"} \cup CallPoints

ASSUME TimerAssumption ==
  /\ IsFiniteSet(Reqs)
  /\ NumTimerTasks \in Nat \ {0}
  /\ Delays \subseteq Nat /\ MaxNest \in Nat \ {0} /\ MaxCalls \in Nat
  /\ Open \subseteq Points

VARIABLES
  list,      \* tt_head and what follows it
  free,      \* the length of tt_pool_head's list
  timer_bh, tt_bh,  \* whether IRQ_BH_ACTIVE is set
  locked,    \* LOCK_TT
  frames,    \* where each bottom half run is, the innermost last
  running,   \* the tasks taken off the list to be called, the innermost last
  call,      \* the timer_task_add or timer_task_remove that is not done
  calls

vars == <<list, free, timer_bh, tt_bh, locked, frames, running, call, calls>>

NoCall == [depth |-> -1]

Requests == {list[i].req : i \in DOMAIN list}
Slots == NumTimerTasks - 1

Depth == Len(frames)
InCall == call.depth = Depth
Point == IF InCall THEN call.at ELSE IF Depth = 0 THEN "idle" ELSE Last(frames)

\* Which entry *tmp is once the head has been taken off the list.
WithoutHead(tmp) == IF tmp = 1 THEN 1 ELSE IF tmp <= 2 THEN 0 ELSE tmp - 1

\* The innermost bottom half run goes on at p, or returns.
GoTo(p) == frames' = [frames EXCEPT ![Depth] = p]
Return == frames' = Front(frames)

\* timer_init, as far as the pool goes: tt_pool[0] never gets into it.
Init ==
  /\ list = <<>> /\ free = Slots
  /\ timer_bh = FALSE /\ tt_bh = FALSE /\ locked = FALSE
  /\ frames = <<>> /\ running = <<>> /\ call = NoCall
  /\ calls = 0

-----------------------------------------------------------------------------
\* timer_irq, and the stub that goes on to the bottom halves.
Tick ==
  /\ Point \in Open /\ Depth < MaxNest
  /\ timer_bh' = TRUE
  /\ frames' = Append(frames, "timer")
  /\ UNCHANGED <<list, free, tt_bh, locked, running, call, calls>>

\* Seeded fault: a head that is overdue is left to itself.
TimerBhIgnoresOverdue ==
  /\ Point = "timer"
  /\ timer_bh' = FALSE
  /\ LET counts == timer_bh /\ list # <<>> /\ Head(list).expires_at > 0
     IN  GoTo(IF counts THEN "count" ELSE "tt")
  /\ UNCHANGED <<list, free, tt_bh, locked, running, call, calls>>

\* irq_bottom_half_exec at timer_bh, and timer_irq_bh up to its test: a tick
\* that finds the head overdue is lost.
TimerBh ==
  /\ Point = "timer"
  /\ timer_bh' = FALSE
  /\ LET counts == timer_bh /\ list # <<>> /\ Head(list).expires_at > 0
     IN  /\ GoTo(IF counts THEN "count" ELSE "tt")
         /\ tt_bh' = (tt_bh \/ (timer_bh /\ list # <<>> /\ ~counts))
  /\ UNCHANGED <<list, free, locked, running, call, calls>>

\* The rest of timer_irq_bh: only the head counts down.
Count ==
  /\ Point = "count" /\ list # <<>>
  /\ list' = Later(list, 1, -1)
  /\ tt_bh' = (tt_bh \/ Head(list).expires_at = 1)
  /\ GoTo("tt")
  /\ UNCHANGED <<free, timer_bh, locked, running, call, calls>>

\* irq_bottom_half_exec at tt_bh.
TaskBh ==
  /\ Point = "tt"
  /\ tt_bh' = FALSE
  /\ IF tt_bh THEN GoTo("scan") ELSE Return
  /\ UNCHANGED <<list, free, timer_bh, locked, running, call, calls>>

\* timer_task_bh: the loop's test of the head.
Scan ==
  /\ Point = "scan"
  /\ IF list # <<>> /\ Head(list).expires_at = 0 THEN GoTo("take") ELSE Return
  /\ UNCHANGED <<list, free, timer_bh, tt_bh, locked, running, call, calls>>

\* timer_task_bh: simplelock_lock, or give up if another run has the lock.
Take ==
  /\ Point = "take"
  /\ locked' = TRUE
  /\ IF locked THEN Return ELSE GoTo("pop")
  /\ UNCHANGED <<list, free, timer_bh, tt_bh, running, call, calls>>

\* timer_task_bh: the head is taken off the list.
Pop ==
  /\ Point = "pop" /\ list # <<>>
  /\ running' = Append(running, Head(list).req)
  /\ list' = Tail(list)
  /\ call' = IF call = NoCall THEN call ELSE [call EXCEPT !.tmp = WithoutHead(@)]
  /\ GoTo("popped")
  /\ UNCHANGED <<free, timer_bh, tt_bh, locked, calls>>

\* Seeded fault: the entry does not go back to the pool.
PopFreeLeaks ==
  /\ Point = "popped"
  /\ locked' = FALSE
  /\ GoTo("fn")
  /\ UNCHANGED <<list, free, timer_bh, tt_bh, running, call, calls>>

\* timer_task_bh: the entry is freed, the lock released, the function called.
\* The lock keeps a nested run out of the pool meanwhile.
PopFree ==
  /\ Point = "popped"
  /\ free' = free + 1
  /\ locked' = FALSE
  /\ GoTo("fn")
  /\ UNCHANGED <<list, timer_bh, tt_bh, running, call, calls>>

\* The task's function returns to the loop.
FnReturn ==
  /\ Point = "fn"
  /\ running' = Front(running)
  /\ GoTo("scan")
  /\ UNCHANGED <<list, free, timer_bh, tt_bh, locked, call, calls>>

-----------------------------------------------------------------------------
(* The calls, step by step: timer.c leaves interrupts on all the way.      *)

\* A process, or the function of an expired task, calls the timer; one call is
\* done before the next one starts.  timer_task_add begins with a
\* timer_task_remove; what follows it is in ticks.
MayCall == Point \in {"idle", "fn"} /\ call = NoCall /\ calls < MaxCalls

Start(req, ticks) ==
  /\ MayCall
  /\ calls' = calls + 1
  /\ call' = [depth |-> Depth, at |-> "find", req |-> req, ticks |-> ticks,
              tmp |-> 1,    \* *tmp is this entry of the list, or the NULL behind
                            \* the last; 0 if a bottom half freed the entry tmp is in
              delay |-> 0,  \* expires_at of the task that is not on the list
              seen |-> 0]   \* the pool as it was when its head was read
  /\ UNCHANGED <<list, free, timer_bh, tt_bh, locked, frames, running>>

TaskAdd(req, n) == Start(req, {n})
TaskRemove(req) == Start(req, {})

Outside == <<timer_bh, tt_bh, locked, frames, running, calls>>

EndRemove == call' = IF call.ticks = {} THEN NoCall ELSE [call EXCEPT !.at = "add"]

\* timer_task_remove's two walks, which fail together: behind an entry that
\* has been freed they go on in the pool.
FindNext ==
  /\ Point = "find" /\ call.tmp \in DOMAIN list /\ list[call.tmp].req # call.req
  /\ call' = [call EXCEPT !.tmp = @ + 1]
  /\ UNCHANGED <<list, free, Outside>>

FindNone ==
  /\ Point = "find" /\ call.tmp \notin DOMAIN list
  /\ EndRemove
  /\ UNCHANGED <<list, free, Outside>>

Unlink ==
  /\ Point = "find" /\ call.tmp \in DOMAIN list /\ list[call.tmp].req = call.req
  /\ list' = RemoveAt(list, call.tmp)
  /\ call' = [call EXCEPT !.at = "remove",
                !.delay = IF call.tmp = Len(list) THEN 0 ELSE list[call.tmp].expires_at]
  /\ UNCHANGED <<free, Outside>>

\* The next task gets the removed one's delay; timer_task_free reads the pool.
PassDelay ==
  /\ Point = "remove"
  /\ list' = Later(list, call.tmp, call.delay)
  /\ call' = [call EXCEPT !.at = "free", !.seen = free]
  /\ UNCHANGED <<free, Outside>>

\* timer_task_free's last write: what was freed since it read the pool is lost.
Free ==
  /\ Point = "free"
  /\ free' = call.seen + 1
  /\ EndRemove
  /\ UNCHANGED <<list, Outside>>

\* timer_task_get_free reads the pool: without a slot there is no new task.
GetNone ==
  /\ Point = "add" /\ free = 0
  /\ call' = NoCall
  /\ UNCHANGED <<list, free, Outside>>

GetHead ==
  /\ Point = "add" /\ free # 0
  /\ call' = [call EXCEPT !.at = "get", !.seen = free]
  /\ UNCHANGED <<list, free, Outside>>

\* It takes the head it read, and what was freed since is lost.
GetFree ==
  /\ Point = "get"
  /\ free' = call.seen - 1
  /\ call' = [call EXCEPT !.at = "init"]
  /\ UNCHANGED <<list, Outside>>

InitTask ==
  /\ Point = "init"
  /\ call' = [call EXCEPT !.at = "insert", !.tmp = 1,
                          !.delay = CHOOSE n \in call.ticks : TRUE]
  /\ UNCHANGED <<list, free, Outside>>

\* timer_task_insert: go behind all that expire no later.
Sooner == call.tmp \in DOMAIN list /\ list[call.tmp].expires_at <= call.delay

InsertNext ==
  /\ Point = "insert" /\ Sooner
  /\ call' = [call EXCEPT !.tmp = @ + 1, !.delay = @ - list[call.tmp].expires_at]
  /\ UNCHANGED <<list, free, Outside>>

\* Behind an entry that has been freed, the new task ends up in the pool.
Link ==
  /\ Point = "insert" /\ ~Sooner
  /\ IF call.tmp = 0
     THEN free' = free + 1 /\ UNCHANGED list
     ELSE list' = Insert(list, call.tmp, call.req, call.delay) /\ UNCHANGED free
  /\ call' = NoCall
  /\ UNCHANGED Outside

CallStep ==
  \/ FindNext \/ FindNone \/ Unlink \/ PassDelay \/ Free
  \/ GetNone \/ GetHead \/ GetFree \/ InitTask \/ InsertNext \/ Link

BottomHalf == TimerBh \/ Count \/ TaskBh \/ Scan \/ Take \/ Pop \/ PopFree \/ FnReturn

Next ==
  \/ Tick \/ BottomHalf \/ CallStep
  \/ \E req \in Reqs : TaskRemove(req) \/ \E n \in Delays : TaskAdd(req, n)

\* The timer keeps interrupting, and what was interrupted goes on: it gets to
\* run between one tick and the next, 10 ms later.
Spec ==
  /\ Init /\ [][Next]_vars
  /\ WF_vars(Tick) /\ SF_vars(CallStep)
  /\ \A d \in 1..MaxNest : SF_vars(Depth = d /\ BottomHalf)

-----------------------------------------------------------------------------
\* What PassDelay has still to add to the i-th entry.
Missing(i) ==
  IF call # NoCall /\ call.at = "remove" /\ call.tmp \in 1..i THEN call.delay ELSE 0

Left ==
  [req \in Requests |->
    LET i == Position(list, req) IN Due(list, i) + Missing(i)]

Asked == IF call = NoCall THEN {} ELSE {[req |-> call.req, ticks |-> call.ticks]}

Alarm == INSTANCE Alarms WITH left <- Left, asked <- Asked, Capacity <- Slots

\* The list of delays does what a list of deadlines would do: no task runs
\* before its ticks are over, none runs twice, adding or removing a task moves
\* the deadline of no other, and a call adds or removes what it was asked to,
\* unless every slot has a task.
AlarmSpec == Alarm!Init /\ [][Alarm!NextFor(Delays)]_Alarm!vars

InHand ==
  Cardinality({f \in DOMAIN frames : frames[f] = "popped"})
  + IF call # NoCall /\ call.at \in {"remove", "free", "init", "insert"} THEN 1 ELSE 0

\* Every slot of the pool is on the free list, on the task list, or in the
\* hands of a bottom half or a call on its way between them; and a request has
\* one task.
SlotsKept ==
  /\ free + Len(list) + InHand = Slots
  /\ Cardinality(Requests) = Len(list)

\* Once nobody calls the timer any more, every task runs: no tick loses the
\* count of the head, or leaves it on the list expired, for ever.
TasksRun == \A req \in Reqs : req \in Requests ~> req \notin Requests
=============================================================================
