---------------------------- MODULE SmScheduler ----------------------------
(***************************************************************************)
(* The scheduler (sm_core_sch.c): a table of timed tasks that sm_sch_process *)
(* walks slot by slot.  All is in one thread, yet a callback may start and    *)
(* cancel tasks, its own among them, while the table is walked.  A timer is    *)
(* the time it has left; the pointers passed as arguments are the numbers of    *)
(* the starts, so that a callback's argument says whose run it is.               *)
(*                                                                          *)
(* Left out: what malloc leaves in the counts and timers of free slots, which    *)
(* a start sets before they matter; a callback that calls sm_sch_process.         *)
(***************************************************************************)
EXTENDS Integers, FiniteSets

CONSTANTS NumTask,    \* SM_SCH_TASK_MAX_SUPPORT
          Fns, NoFn,  \* functions, and the null pointer
          Intervals,
          Repeats,    \* of the starts; may include Forever
          Forever,    \* SM_SCH_REPEAT_FOREVER
          MaxRepeat,  \* bound: where a count that nothing reads any more stops
          MaxStarts, MaxCancels  \* bounds on the calls

ASSUME SchedulerAssumption ==
  /\ NumTask \in Nat \ {0} /\ MaxStarts \in Nat /\ MaxCancels \in Nat
  /\ NoFn \notin Fns
  /\ Intervals \subseteq Nat /\ Repeats \subseteq Int
  /\ Forever \in Int /\ MaxRepeat \in Nat
  /\ \A r \in Repeats \ {Forever} : r <= MaxRepeat

VARIABLES task,     \* m_tasks
          at,       \* index of sm_sch_process, NumTask outside of it
          inside,   \* in the callback of slot at
          started,  \* history: number of starts
          asked,    \* history: what became of each start
          gone,     \* history: functions cancelled since their last start
          cancels

vars == <<task, at, inside, started, asked, gone, cancels>>

Slot == 0..NumTask - 1
Start == 1..MaxStarts
Outcome == {"none", "live", "done", "cancelled", "replaced"}

Empty == [fn |-> NoFn, arg |-> 0, interval |-> 0, repeat |-> 0, count |-> 0, left |-> 0]
Unasked == [fn |-> NoFn, repeat |-> 0, runs |-> 0, inCallback |-> FALSE, outcome |-> "none"]

\* sm_sch_create.
Init ==
  /\ task = [i \in Slot |-> Empty]
  /\ at = NumTask /\ inside = FALSE
  /\ started = 0 /\ asked = [k \in Start |-> Unasked]
  /\ gone = {} /\ cancels = 0

Used(i) == task[i].fn # NoFn

-----------------------------------------------------------------------------
\* The calls, of the application or of a callback.

MayCall == at = NumTask \/ inside

\* The starts in the slots S come to an end.
Ending(S, outcome) ==
  [k \in Start |-> IF \E i \in S : Used(i) /\ task[i].arg = k
                   THEN [asked[k] EXCEPT !.outcome = outcome] ELSE asked[k]]

\* Mutation: the first slot is taken whether it is free or not.
MutFirstFree(k) == \A i \in Slot : i < k => Used(i)

FirstFree(k) == ~Used(k) /\ \A i \in Slot : i < k => Used(i)

\* Mutation: the scan goes on behind the next slot.
MutLaterOnes(k, f) == {i \in Slot : i > k + 1 /\ task[i].fn = f}

\* Only the slots after the one taken are searched for the same function.
LaterOnes(k, f) == {i \in Slot : i > k /\ task[i].fn = f}

\* sm_sch_start_task; with a full table it returns -1 and changes nothing.
StartTask(f, n, r) ==
  /\ MayCall /\ started < MaxStarts
  /\ \E k \in Slot :
       /\ FirstFree(k)
       /\ task' = [i \in Slot |->
            CASE i = k -> [fn |-> f, arg |-> started + 1, interval |-> n, repeat |-> r,
                           count |-> 0, left |-> n]
              [] i \in LaterOnes(k, f) -> [task[i] EXCEPT !.fn = NoFn]
              [] OTHER -> task[i]]
       /\ asked' = [Ending(LaterOnes(k, f), "replaced") EXCEPT ![started + 1] =
            [fn |-> f, repeat |-> r, runs |-> 0, inCallback |-> inside /\ k = at,
             outcome |-> "live"]]
  /\ started' = started + 1
  /\ gone' = gone \ {f}
  /\ UNCHANGED <<at, inside, cancels>>

Cancels(S) ==
  /\ MayCall /\ cancels < MaxCancels
  /\ task' = [i \in Slot |-> IF i \in S THEN [Empty EXCEPT !.left = task[i].left]
                                        ELSE task[i]]
  /\ asked' = Ending(S, "cancelled")
  /\ cancels' = cancels + 1
  /\ UNCHANGED <<at, inside, started>>

\* sm_sch_cancel_task, with a task id that may be out of date: whoever has the
\* slot by now is cancelled.  The id -1 of a start that found the table full,
\* which the code does not refuse, writes before the table and is left out.
CancelTask(i) == Cancels({i}) /\ UNCHANGED gone

\* Mutation: the search ends at the first slot that has the function.
MutOf(f) == {i \in Slot : task[i].fn = f /\ \A j \in Slot : j < i => task[j].fn # f}

Of(f) == {i \in Slot : task[i].fn = f}

\* sm_sch_cancel_taskz.
CancelTaskz(f) == Cancels(Of(f)) /\ gone' = gone \cup {f}

\* sm_sch_free: the counts stay.
Free ==
  /\ MayCall /\ cancels < MaxCancels
  /\ task' = [i \in Slot |-> [Empty EXCEPT !.left = task[i].left, !.count = task[i].count]]
  /\ asked' = Ending(Slot, "cancelled")
  /\ gone' = Fns
  /\ cancels' = cancels + 1
  /\ UNCHANGED <<at, inside, started>>

-----------------------------------------------------------------------------
\* sm_sch_process.

\* Mutation: the walk leaves out the first slot.
MutBegin == at = NumTask /\ at' = 1 /\ UNCHANGED <<task, inside, started, asked, gone, cancels>>

Begin == at = NumTask /\ at' = 0 /\ UNCHANGED <<task, inside, started, asked, gone, cancels>>

Walking == at \in Slot /\ ~inside
Due(i) == task[i].left = 0 /\ Used(i)

Pass ==
  /\ Walking /\ ~Due(at)
  /\ at' = at + 1
  /\ UNCHANGED <<task, inside, started, asked, gone, cancels>>

Bump(n, max) == IF n < max THEN n + 1 ELSE n

CallBack ==
  /\ Walking /\ Due(at)
  /\ inside' = TRUE
  /\ asked' = [asked EXCEPT ![task[at].arg].runs = Bump(@, MaxRepeat + 1)]
  /\ UNCHANGED <<task, at, started, gone, cancels>>

\* Mutation: one run too many.
MutRunsAgain(t) == t.count < t.repeat \/ t.repeat = Forever

\* Mutation: one run too few.
MutRunsOn(t) == t.count < t.repeat - 2 \/ t.repeat = Forever

RunsAgain(t) == t.count < t.repeat - 1 \/ t.repeat = Forever

\* The callback returns, and the slot is looked at as it is by then.
Return ==
  /\ inside
  /\ IF RunsAgain(task[at])
     THEN /\ task' = [task EXCEPT ![at].count = Bump(@, MaxRepeat),
                                  ![at].left = task[at].interval]
          /\ UNCHANGED asked
     ELSE /\ task' = [task EXCEPT ![at].fn = NoFn, ![at].arg = 0]
          /\ asked' = Ending({at}, "done")
  /\ inside' = FALSE /\ at' = at + 1
  /\ UNCHANGED <<started, gone, cancels>>

\* Time passes, also while a callback runs.
Tick ==
  /\ \E i \in Slot : task[i].left > 0
  /\ task' = [i \in Slot |-> [task[i] EXCEPT !.left = IF @ > 0 THEN @ - 1 ELSE 0]]
  /\ UNCHANGED <<at, inside, started, asked, gone, cancels>>

Process == Begin \/ Pass \/ CallBack \/ Return

Calls == \/ \E f \in Fns, n \in Intervals, r \in Repeats : StartTask(f, n, r)
         \/ (\E i \in Slot : CancelTask(i)) \/ (\E f \in Fns : CancelTaskz(f)) \/ Free

Next == Process \/ Calls \/ Tick

Spec == Init /\ [][Next]_vars

\* The main loop goes on calling sm_sch_process, callbacks return, time passes.
FairSpec == Spec /\ WF_vars(Process) /\ WF_vars(Tick)

-----------------------------------------------------------------------------
TypeOK ==
  /\ task \in [Slot -> [fn : Fns \cup {NoFn}, arg : 0..MaxStarts,
                        interval : Intervals \cup {0}, repeat : Repeats \cup {0},
                        count : 0..MaxRepeat, left : Nat]]
  /\ at \in 0..NumTask /\ inside \in BOOLEAN /\ (inside => at \in Slot)
  /\ started \in 0..MaxStarts /\ cancels \in 0..MaxCancels
  /\ gone \subseteq Fns
  /\ asked \in [Start -> [fn : Fns \cup {NoFn}, repeat : Repeats \cup {0},
                          runs : 0..MaxRepeat + 1, inCallback : BOOLEAN,
                          outcome : Outcome]]

Live(k) == asked[k].outcome = "live"

\* The table holds the starts that are neither over nor cancelled nor replaced,
\* each in one slot and with its function and repeat: no call loses the task of
\* another (sm_sch_start_task, sm_sch_cancel_task).
TableIsLive ==
  /\ \A i \in Slot : Used(i) =>
       /\ task[i].arg \in Start /\ Live(task[i].arg)
       /\ task[i].fn = asked[task[i].arg].fn /\ task[i].repeat = asked[task[i].arg].repeat
  /\ \A k \in Start : Live(k) => \E i \in Slot : Used(i) /\ task[i].arg = k
  /\ \A i, j \in Slot : Used(i) /\ Used(j) /\ task[i].arg = task[j].arg => i = j

\* A function that was cancelled by name is in no slot, however often it was
\* started before, until it is started again (sm_sch_cancel_taskz).
CancelledIsGone == \A i \in Slot : task[i].fn \notin gone

\* A start for no runs gets one.
Wanted(r) == IF r < 1 THEN 1 ELSE r

\* A task that was started for r runs gets no more, whatever its callback
\* does to the table (sm_sch_process tests the slot after the callback).
RunsWithinRepeat ==
  \A k \in Start : asked[k].outcome # "none" /\ asked[k].repeat # Forever =>
    asked[k].runs <= Wanted(asked[k].repeat)

\* .. and gets all of them, unless it is cancelled or replaced, or was started
\* into the slot of the callback that was running.
DoneHasRun ==
  \A k \in Start : asked[k].outcome = "done" /\ ~asked[k].inCallback =>
    asked[k].runs = Wanted(asked[k].repeat)

\* A function may be in the table twice, the older start in front: a start
\* removes only what is behind it (sm_sch_start_task).
OlderInFront ==
  \A i, j \in Slot : Used(i) /\ task[i].fn = task[j].fn /\ i < j =>
    task[i].arg < task[j].arg

\* The table as a whole: it holds the live starts, the older in front.
TableIsSound == TypeOK /\ TableIsLive /\ OlderInFront

\* A start gets the runs it was started for, no more and no fewer.
RunsAsAsked == RunsWithinRepeat /\ DoneHasRun

\* Every start runs, again and again while it is live, whatever else runs.
EveryTaskRuns ==
  \A k \in Start : Live(k) ~> (inside /\ task[at].arg = k) \/ ~Live(k)
=============================================================================
