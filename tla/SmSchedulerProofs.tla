------------------------- MODULE SmSchedulerProofs -------------------------
(***************************************************************************)
(* What SmScheduler promises, proved for tables of any size, any functions,   *)
(* intervals and repeats, and any number of calls.                            *)
(***************************************************************************)
EXTENDS SmScheduler, TLAPS

\* The starts are numbered in turn.
Numbering == \A k \in Start : k > started <=> asked[k].outcome = "none"

Here(i) == IF inside /\ at = i THEN 1 ELSE 0

\* The count of a slot is the runs its task has had, the one that is under way
\* not counted; a task started under a callback of its slot may have had fewer.
Counted ==
  \A i \in Slot : Used(i) /\ task[i].repeat # Forever =>
    /\ task[i].count < Wanted(task[i].repeat)
    /\ asked[task[i].arg].runs <= task[i].count + Here(i)
    /\ ~asked[task[i].arg].inCallback => asked[task[i].arg].runs = task[i].count + Here(i)

SchInv == /\ TypeOK /\ Numbering /\ TableIsLive /\ OlderInFront /\ CancelledIsGone
          /\ Counted /\ RunsWithinRepeat /\ DoneHasRun

TaskRec == [fn : Fns \cup {NoFn}, arg : 0..MaxStarts, interval : Intervals \cup {0},
            repeat : Repeats \cup {0}, count : 0..MaxRepeat, left : Nat]
AskRec == [fn : Fns \cup {NoFn}, repeat : Repeats \cup {0}, runs : 0..MaxRepeat + 1,
           inCallback : BOOLEAN, outcome : Outcome]

LEMMA TypeIs ==
  TypeOK <=> /\ task \in [Slot -> TaskRec] /\ asked \in [Start -> AskRec]
             /\ at \in 0..NumTask /\ inside \in BOOLEAN /\ (inside => at \in Slot)
             /\ started \in 0..MaxStarts /\ cancels \in 0..MaxCancels
             /\ gone \subseteq Fns
  BY DEF TypeOK, TaskRec, AskRec

LEMMA RepeatIs == ASSUME NEW r \in Repeats \cup {0}
                  PROVE  r \in Int /\ (r # Forever => r <= MaxRepeat)
  <1>1. Repeats \subseteq Int
    BY SchedulerAssumption
  <1>2. r \in Int
    BY <1>1
  <1>3. CASE r = 0
    BY <1>3, SchedulerAssumption
  <1>4. CASE r \in Repeats
    BY <1>4, SchedulerAssumption
  <1> QED
    BY <1>2, <1>3, <1>4

LEMMA IntervalIs == ASSUME NEW n \in Intervals \cup {0} PROVE n \in Nat
  BY SchedulerAssumption

\* The numbers in the records are numbers.
LEMMA TaskNumbers ==
  ASSUME NEW t \in TaskRec
  PROVE  /\ t.repeat \in Int /\ t.count \in Nat /\ t.arg \in Nat /\ t.left \in Nat
         /\ t.repeat # Forever => t.repeat <= MaxRepeat
  <1>1. t.count \in 0..MaxRepeat /\ t.arg \in 0..MaxStarts /\ t.left \in Nat
    BY DEF TaskRec
  <1>2. t.repeat \in Repeats \cup {0}
    BY DEF TaskRec
  <1>3. t.repeat \in Int /\ (t.repeat # Forever => t.repeat <= MaxRepeat)
    BY <1>2, RepeatIs
  <1> QED
    BY <1>1, <1>3, SchedulerAssumption

LEMMA AskNumbers == ASSUME NEW a \in AskRec PROVE a.repeat \in Int /\ a.runs \in Nat
  <1>1. a.repeat \in Repeats \cup {0} /\ a.runs \in 0..MaxRepeat + 1
    BY DEF AskRec
  <1>2. a.repeat \in Int
    BY <1>1, RepeatIs
  <1> QED
    BY <1>1, <1>2, SchedulerAssumption

LEMMA SchInit == Init => SchInv
  <1> SUFFICES ASSUME Init PROVE SchInv
    OBVIOUS
  <1> USE SchedulerAssumption DEF Init
  <1>1. TypeOK
    <2>1. Empty \in TaskRec /\ Unasked \in AskRec
      BY DEF Empty, Unasked, TaskRec, AskRec, Outcome
    <2>2. task \in [Slot -> TaskRec] /\ asked \in [Start -> AskRec]
      BY <2>1
    <2>3. at \in 0..NumTask /\ started \in 0..MaxStarts /\ cancels \in 0..MaxCancels
      OBVIOUS
    <2> QED
      BY <2>2, <2>3, TypeIs
  <1>2. \A i \in Slot : ~Used(i)
    BY DEF Used, Empty
  <1>3. \A k \in Start : asked[k] = Unasked
    OBVIOUS
  <1>4. Numbering
    BY <1>3 DEF Numbering, Unasked, Start
  <1>5. TableIsLive /\ OlderInFront /\ CancelledIsGone /\ Counted
    BY <1>2, <1>3 DEF TableIsLive, OlderInFront, CancelledIsGone, Counted, Live, Unasked
  <1>6. RunsWithinRepeat /\ DoneHasRun
    BY <1>3 DEF RunsWithinRepeat, DoneHasRun, Unasked
  <1> QED
    BY <1>1, <1>4, <1>5, <1>6 DEF SchInv

\* Ending changes the outcome of the starts in the slots S, and nothing else.
LEMMA EndingIs ==
  ASSUME TypeOK, TableIsLive, NEW S \in SUBSET Slot, NEW o \in Outcome, NEW k \in Start
  PROVE  LET e == Ending(S, o)[k] IN
         /\ e \in [fn : Fns \cup {NoFn}, repeat : Repeats \cup {0}, runs : 0..MaxRepeat + 1,
                   inCallback : BOOLEAN, outcome : Outcome]
         /\ e.fn = asked[k].fn /\ e.repeat = asked[k].repeat
         /\ e.runs = asked[k].runs /\ e.inCallback = asked[k].inCallback
         /\ (\E i \in S : Used(i) /\ task[i].arg = k) => e.outcome = o
         /\ ~(\E i \in S : Used(i) /\ task[i].arg = k) => e.outcome = asked[k].outcome
  BY DEF Ending, TypeOK

\* A task in the table has not had its last run yet, and may have it.
LEMMA LiveIsCounted ==
  ASSUME SchInv, NEW i \in Slot, Used(i), task[i].repeat # Forever
  PROVE  LET k == task[i].arg IN
         /\ k \in Start /\ asked[k].repeat = task[i].repeat
         /\ asked[k].runs <= Wanted(asked[k].repeat)
  <1>1. task[i].arg \in Start /\ asked[task[i].arg].repeat = task[i].repeat
    BY DEF SchInv, TableIsLive
  <1>2. task[i].count \in Nat /\ task[i].repeat \in Int /\ asked[task[i].arg].runs \in Nat
    <2>1. task[i] \in TaskRec /\ asked[task[i].arg] \in AskRec
      BY <1>1, TypeIs DEF SchInv
    <2> QED
      BY <2>1, TaskNumbers, AskNumbers
  <1>3. task[i].count < Wanted(task[i].repeat) /\ asked[task[i].arg].runs <= task[i].count + Here(i)
    BY DEF SchInv, Counted
  <1> QED
    BY <1>1, <1>2, <1>3 DEF Here, Wanted

\* Slots are emptied and their starts end before their time.
LEMMA Clearing ==
  ASSUME SchInv, NEW S \in SUBSET Slot, NEW o \in {"cancelled", "replaced"},
         TypeOK', asked' = Ending(S, o),
         \A i \in S : task'[i].fn = NoFn,
         \A i \in Slot \ S : task'[i] = task[i],
         UNCHANGED <<at, inside, started>>
  PROVE  Numbering' /\ TableIsLive' /\ OlderInFront' /\ Counted' /\ RunsWithinRepeat' /\ DoneHasRun'
  <1>1. /\ \A i \in Slot : Used(i)' => i \notin S /\ Used(i) /\ task'[i] = task[i]
        /\ \A i \in Slot \ S : Used(i) => Used(i)'
    BY DEF Used
  <1>2. \A k \in Start :
          /\ asked'[k].fn = asked[k].fn /\ asked'[k].repeat = asked[k].repeat
          /\ asked'[k].runs = asked[k].runs /\ asked'[k].inCallback = asked[k].inCallback
          /\ (\E i \in S : Used(i) /\ task[i].arg = k) => asked'[k].outcome = o
          /\ ~(\E i \in S : Used(i) /\ task[i].arg = k) => asked'[k].outcome = asked[k].outcome
    BY EndingIs DEF SchInv, Outcome
  <1>3. \A k \in Start : (\E i \in S : Used(i) /\ task[i].arg = k) => Live(k)
    BY DEF SchInv, TableIsLive
  <1>4. Numbering'
    BY <1>2, <1>3 DEF SchInv, Numbering, Live
  <1>5. TableIsLive'
    <2>1. ASSUME NEW i \in Slot, Used(i)'
          PROVE  /\ task'[i].arg \in Start /\ asked'[task'[i].arg].outcome = "live"
                 /\ task'[i].fn = asked'[task'[i].arg].fn
                 /\ task'[i].repeat = asked'[task'[i].arg].repeat
      <3>1. i \notin S /\ Used(i) /\ task'[i] = task[i]
        BY <2>1, <1>1
      <3>2. ~(\E j \in S : Used(j) /\ task[j].arg = task[i].arg)
        BY <3>1 DEF SchInv, TableIsLive
      <3>3. /\ task[i].arg \in Start /\ asked[task[i].arg].outcome = "live"
            /\ task[i].fn = asked[task[i].arg].fn /\ task[i].repeat = asked[task[i].arg].repeat
        BY <3>1 DEF SchInv, TableIsLive, Live
      <3> QED
        BY <3>1, <3>2, <3>3, <1>2
    <2>2. ASSUME NEW k \in Start, Live(k)' PROVE \E i \in Slot : Used(i)' /\ task'[i].arg = k
      <3>1. ~(\E i \in S : Used(i) /\ task[i].arg = k) /\ Live(k)
        BY <2>2, <1>2 DEF Live
      <3> QED
        BY <3>1, <1>1 DEF SchInv, TableIsLive
    <2>3. \A i, j \in Slot : Used(i)' /\ Used(j)' /\ task'[i].arg = task'[j].arg => i = j
      BY <1>1 DEF SchInv, TableIsLive
    <2> QED
      BY <2>1, <2>2, <2>3 DEF TableIsLive, Live
  <1>6. OlderInFront'
    <2> SUFFICES ASSUME NEW i \in Slot, NEW j \in Slot, Used(i)', task'[i].fn = task'[j].fn, i < j
                 PROVE  task'[i].arg < task'[j].arg
      BY DEF OlderInFront
    <2>1. Used(j)'
      BY DEF Used
    <2> QED
      BY <2>1, <1>1 DEF SchInv, OlderInFront
  <1>7. Counted'
    <2> SUFFICES ASSUME NEW i \in Slot, Used(i)', task'[i].repeat # Forever
                 PROVE  /\ task'[i].count < Wanted(task'[i].repeat)
                        /\ asked'[task'[i].arg].runs <= task'[i].count + Here(i)
                        /\ ~asked'[task'[i].arg].inCallback =>
                              asked'[task'[i].arg].runs = task'[i].count + Here(i)
      BY DEF Counted, Here
    <2>1. Used(i) /\ task'[i] = task[i] /\ task[i].arg \in Start
      BY <1>1 DEF SchInv, TableIsLive
    <2> QED
      BY <2>1, <1>2 DEF SchInv, Counted
  <1>8. RunsWithinRepeat'
    <2> SUFFICES ASSUME NEW k \in Start, asked'[k].outcome # "none", asked'[k].repeat # Forever
                 PROVE  asked'[k].runs <= Wanted(asked'[k].repeat)
      BY DEF RunsWithinRepeat
    <2>1. asked[k].outcome # "none"
      BY <1>2, <1>3 DEF Live
    <2> QED
      BY <2>1, <1>2 DEF SchInv, RunsWithinRepeat
  <1>9. DoneHasRun'
    BY <1>2 DEF SchInv, DoneHasRun
  <1> QED
    BY <1>4, <1>5, <1>6, <1>7, <1>8, <1>9

\* sm_sch_start_task.
LEMMA SchStart ==
  ASSUME SchInv, NEW f \in Fns, NEW n \in Intervals, NEW r \in Repeats, StartTask(f, n, r)
  PROVE  SchInv'
  <1> DEFINE id == started + 1
  <1>1. PICK k \in Slot :
          /\ FirstFree(k)
          /\ task' = [i \in Slot |->
               CASE i = k -> [fn |-> f, arg |-> id, interval |-> n, repeat |-> r,
                              count |-> 0, left |-> n]
                 [] i \in LaterOnes(k, f) -> [task[i] EXCEPT !.fn = NoFn]
                 [] OTHER -> task[i]]
          /\ asked' = [Ending(LaterOnes(k, f), "replaced") EXCEPT ![id] =
               [fn |-> f, repeat |-> r, runs |-> 0, inCallback |-> inside /\ k = at,
                outcome |-> "live"]]
    BY DEF StartTask
  <1> DEFINE S == LaterOnes(k, f)
             new == [fn |-> f, repeat |-> r, runs |-> 0, inCallback |-> inside /\ k = at,
                     outcome |-> "live"]
             slot == [fn |-> f, arg |-> id, interval |-> n, repeat |-> r, count |-> 0,
                      left |-> n]
  <1>2. /\ started \in 0..MaxStarts /\ started < MaxStarts /\ id \in Start
        /\ ~Used(k) /\ k \notin S /\ S \in SUBSET Slot /\ f # NoFn
        /\ task \in [Slot -> TaskRec] /\ asked \in [Start -> AskRec] /\ TypeOK /\ TableIsLive
    BY <1>1, TypeIs, SchedulerAssumption DEF StartTask, FirstFree, LaterOnes, Start, SchInv, Used, Slot
  <1>3. /\ task'[k] = slot
        /\ \A i \in S : task'[i] = [task[i] EXCEPT !.fn = NoFn]
        /\ \A i \in Slot : i \notin S /\ i # k => task'[i] = task[i]
    BY <1>1, <1>2
  <1>18. \A i \in S : task'[i].fn = NoFn /\ task'[i] \in TaskRec
    <2> SUFFICES ASSUME NEW i \in S PROVE task'[i].fn = NoFn /\ task'[i] \in TaskRec
      OBVIOUS
    <2>1. task[i] \in TaskRec /\ task'[i] = [task[i] EXCEPT !.fn = NoFn]
      BY <1>2, <1>3
    <2> QED
      BY <2>1 DEF TaskRec
  <1>4. \A i \in Slot : Used(i)' => i = k \/ (i # k /\ i \notin S /\ Used(i) /\ task'[i] = task[i])
    BY <1>2, <1>3, <1>18 DEF Used
  <1>5. \A i \in Slot \ S : Used(i) => Used(i)' /\ i # k /\ task'[i] = task[i]
    BY <1>2, <1>3 DEF Used
  <1>6. \A j \in Start :
          /\ Ending(S, "replaced")[j] \in AskRec
          /\ j = id => asked'[j] = new
          /\ j # id =>
               /\ asked'[j] = Ending(S, "replaced")[j]
               /\ asked'[j].fn = asked[j].fn /\ asked'[j].repeat = asked[j].repeat
               /\ asked'[j].runs = asked[j].runs /\ asked'[j].inCallback = asked[j].inCallback
               /\ (\E i \in S : Used(i) /\ task[i].arg = j) => asked'[j].outcome = "replaced"
               /\ ~(\E i \in S : Used(i) /\ task[i].arg = j) => asked'[j].outcome = asked[j].outcome
    <2>1. ASSUME NEW j \in Start
          PROVE  LET e == Ending(S, "replaced")[j] IN
                 /\ e \in AskRec
                 /\ e.fn = asked[j].fn /\ e.repeat = asked[j].repeat
                 /\ e.runs = asked[j].runs /\ e.inCallback = asked[j].inCallback
                 /\ (\E i \in S : Used(i) /\ task[i].arg = j) => e.outcome = "replaced"
                 /\ ~(\E i \in S : Used(i) /\ task[i].arg = j) => e.outcome = asked[j].outcome
      BY <1>2, EndingIs DEF Outcome, AskRec
    <2>2. DOMAIN Ending(S, "replaced") = Start
      BY DEF Ending
    <2>3. \A j \in Start : asked'[j] = IF j = id THEN new ELSE Ending(S, "replaced")[j]
      BY <1>1, <2>2
    <2> QED
      BY <2>1, <2>3
  <1>7. asked[id].outcome = "none" /\ ~Live(id) /\ started' = started + 1
    BY <1>2 DEF SchInv, Numbering, Live, StartTask, Start
  <1>8. \A i \in Slot : Used(i) => task[i].arg \in Start /\ task[i].arg # id /\ task[i].arg < id
    <2> SUFFICES ASSUME NEW i \in Slot, Used(i)
                 PROVE  task[i].arg \in Start /\ task[i].arg <= started
      BY <1>2 DEF Start
    <2>1. task[i].arg \in Start /\ asked[task[i].arg].outcome = "live"
      BY DEF SchInv, TableIsLive, Live
    <2>2. ~(task[i].arg > started)
      BY <2>1 DEF SchInv, Numbering
    <2> QED
      BY <2>1, <2>2, <1>2 DEF Start
  <1>9. \A j \in Start : (\E i \in S : Used(i) /\ task[i].arg = j) => Live(j) /\ j # id
    BY <1>2, <1>8 DEF TableIsLive
  <1>10. TypeOK'
    <2>1. slot \in TaskRec /\ new \in AskRec
      BY <1>2, SchedulerAssumption DEF TaskRec, AskRec, Start, Outcome
    <2>2. \A i \in Slot : task'[i] \in TaskRec
      BY <1>2, <1>3, <1>18, <2>1
    <2>3. task' \in [Slot -> TaskRec]
      BY <1>1, <2>2
    <2>4. asked' \in [Start -> AskRec]
      BY <1>1, <1>6, <2>1 DEF Ending
    <2> QED
      BY <2>3, <2>4, <1>2, <1>7 DEF StartTask, TypeOK, TaskRec, AskRec, Start
  <1>11. Numbering'
    <2> SUFFICES ASSUME NEW j \in Start PROVE j > started' <=> asked'[j].outcome = "none"
      BY DEF Numbering
    <2>1. CASE j = id
      BY <2>1, <1>2, <1>6, <1>7
    <2>2. CASE j # id
      <3>1. j > started <=> asked[j].outcome = "none"
        BY DEF SchInv, Numbering
      <3>2. asked'[j].outcome = "none" <=> asked[j].outcome = "none"
        BY <2>2, <1>6, <1>9 DEF Live
      <3> QED
        BY <2>2, <3>1, <3>2, <1>2, <1>7 DEF Start
    <2> QED
      BY <2>1, <2>2
  <1>12. TableIsLive'
    <2>1. ASSUME NEW i \in Slot, Used(i)'
          PROVE  /\ task'[i].arg \in Start /\ asked'[task'[i].arg].outcome = "live"
                 /\ task'[i].fn = asked'[task'[i].arg].fn
                 /\ task'[i].repeat = asked'[task'[i].arg].repeat
      <3>1. CASE i = k
        BY <3>1, <1>2, <1>3, <1>6
      <3>2. CASE i # k
        <4>1. i \notin S /\ Used(i) /\ task'[i] = task[i]
          BY <2>1, <3>2, <1>4
        <4>2. ~(\E j \in S : Used(j) /\ task[j].arg = task[i].arg)
          BY <4>1, <1>2 DEF TableIsLive
        <4>3. /\ task[i].arg \in Start /\ asked[task[i].arg].outcome = "live" /\ task[i].arg # id
              /\ task[i].fn = asked[task[i].arg].fn /\ task[i].repeat = asked[task[i].arg].repeat
          BY <4>1, <1>2, <1>8 DEF TableIsLive, Live
        <4> QED
          BY <4>1, <4>2, <4>3, <1>6
      <3> QED
        BY <3>1, <3>2
    <2>2. ASSUME NEW j \in Start, asked'[j].outcome = "live"
          PROVE  \E i \in Slot : Used(i)' /\ task'[i].arg = j
      <3>1. CASE j = id
        BY <3>1, <1>2, <1>3 DEF Used
      <3>2. CASE j # id
        <4>1. ~(\E i \in S : Used(i) /\ task[i].arg = j) /\ Live(j)
          BY <2>2, <3>2, <1>6 DEF Live
        <4>2. PICK i \in Slot : Used(i) /\ task[i].arg = j
          BY <4>1, <1>2 DEF TableIsLive
        <4> QED
          BY <4>1, <4>2, <1>5
      <3> QED
        BY <3>1, <3>2
    <2>3. ASSUME NEW i \in Slot, NEW j \in Slot, Used(i)', Used(j)', task'[i].arg = task'[j].arg
          PROVE  i = j
      <3>1. \A x \in Slot : Used(x)' /\ x # k => Used(x) /\ task'[x] = task[x] /\ task'[x].arg # id
        BY <1>4, <1>8
      <3>2. task'[k].arg = id
        BY <1>3
      <3> QED
        BY <2>3, <3>1, <3>2, <1>2 DEF TableIsLive
    <2> QED
      BY <2>1, <2>2, <2>3 DEF TableIsLive, Live
  <1>13. OlderInFront'
    <2> SUFFICES ASSUME NEW i \in Slot, NEW j \in Slot, Used(i)', task'[i].fn = task'[j].fn, i < j
                 PROVE  task'[i].arg < task'[j].arg
      BY DEF OlderInFront
    <2>1. Used(j)' /\ i # j
      BY DEF Used, Slot
    <2>2. CASE j = k
      BY <2>1, <2>2, <1>3, <1>4, <1>8
    <2>3. CASE i = k
      <3>1. j # k /\ j \notin S /\ Used(j) /\ task'[j] = task[j] /\ task[j].fn = f
        BY <2>1, <2>3, <1>3, <1>4
      <3> QED
        BY <3>1, <2>3 DEF LaterOnes
    <2>4. CASE i # k /\ j # k
      BY <2>1, <2>4, <1>4 DEF SchInv, OlderInFront
    <2> QED
      BY <2>2, <2>3, <2>4
  <1>14. CancelledIsGone'
    <2> SUFFICES ASSUME NEW i \in Slot PROVE task'[i].fn \notin gone \ {f}
      BY DEF CancelledIsGone, StartTask
    <2>1. Used(i)' => task'[i].fn = f \/ task'[i] = task[i]
      BY <1>3, <1>4
    <2>2. gone \subseteq Fns
      BY <1>2, TypeIs
    <2> QED
      BY <2>1, <2>2, SchedulerAssumption DEF SchInv, CancelledIsGone, Used
  <1>15. Counted'
    <2> SUFFICES ASSUME NEW i \in Slot, Used(i)', task'[i].repeat # Forever
                 PROVE  /\ task'[i].count < Wanted(task'[i].repeat)
                        /\ asked'[task'[i].arg].runs <= task'[i].count + Here(i)
                        /\ ~asked'[task'[i].arg].inCallback =>
                              asked'[task'[i].arg].runs = task'[i].count + Here(i)
      BY DEF Counted, Here, StartTask
    <2>1. CASE i = k
      <3>1. r \in Int
        BY SchedulerAssumption
      <3>2. task'[i].count = 0 /\ task'[i].arg = id /\ task'[i].repeat = r /\ asked'[id].runs = 0
        BY <2>1, <1>2, <1>3, <1>6
      <3>3. asked'[id].inCallback <=> inside /\ at = i
        <4>1. asked'[id] = new
          BY <1>2, <1>6
        <4>2. new.inCallback = (inside /\ k = at)
          OBVIOUS
        <4> QED
          BY <4>1, <4>2, <2>1, Zenon
      <3>4. ~asked'[id].inCallback => Here(i) = 0
        BY <3>3 DEF Here
      <3>5. Here(i) \in Nat
        BY DEF Here
      <3> QED
        BY <3>1, <3>2, <3>4, <3>5 DEF Wanted
    <2>2. CASE i # k
      <3>1. Used(i) /\ task'[i] = task[i] /\ task[i].arg \in Start /\ task[i].arg # id
        BY <2>2, <1>4, <1>8
      <3> QED
        BY <3>1, <1>6 DEF SchInv, Counted
    <2> QED
      BY <2>1, <2>2
  <1>16. RunsWithinRepeat'
    <2> SUFFICES ASSUME NEW j \in Start, asked'[j].outcome # "none", asked'[j].repeat # Forever
                 PROVE  asked'[j].runs <= Wanted(asked'[j].repeat)
      BY DEF RunsWithinRepeat
    <2>1. CASE j = id
      <3>1. r \in Int
        BY SchedulerAssumption
      <3> QED
        BY <2>1, <3>1, <1>6 DEF Wanted
    <2>2. CASE j # id
      BY <2>2, <1>6, <1>9 DEF SchInv, RunsWithinRepeat, Live
    <2> QED
      BY <2>1, <2>2
  <1>17. DoneHasRun'
    BY <1>6 DEF SchInv, DoneHasRun
  <1> QED
    BY <1>10, <1>11, <1>12, <1>13, <1>14, <1>15, <1>16, <1>17 DEF SchInv

\* A step that only moves the walk or the timers.
LEMMA SchMoves ==
  ASSUME SchInv, TypeOK', UNCHANGED <<asked, started, gone>>,
         \A i \in Slot : /\ task'[i].fn = task[i].fn /\ task'[i].arg = task[i].arg
                         /\ task'[i].repeat = task[i].repeat /\ task'[i].count = task[i].count
                         /\ Here(i)' = Here(i)
  PROVE  SchInv'
  <1>1. \A i \in Slot : Used(i)' <=> Used(i)
    BY DEF Used
  <1>2. Numbering' /\ RunsWithinRepeat' /\ DoneHasRun'
    BY DEF SchInv, Numbering, RunsWithinRepeat, DoneHasRun
  <1>3. TableIsLive'
    BY <1>1 DEF SchInv, TableIsLive, Live
  <1>4. OlderInFront' /\ CancelledIsGone'
    BY <1>1 DEF SchInv, OlderInFront, CancelledIsGone
  <1>5. Counted'
    BY <1>1 DEF SchInv, Counted
  <1> QED
    BY <1>2, <1>3, <1>4, <1>5 DEF SchInv

LEMMA SchBegin == ASSUME SchInv, Begin PROVE SchInv'
  <1>1. TypeOK /\ at = NumTask /\ at' = 0 /\ UNCHANGED <<task, inside, started, asked, gone, cancels>>
    BY DEF Begin, SchInv
  <1>2. ~inside /\ ~inside' /\ 0 \in 0..NumTask
    BY <1>1, SchedulerAssumption DEF TypeOK, Slot
  <1>3. TypeOK'
    BY <1>1, <1>2 DEF TypeOK
  <1>4. \A i \in Slot : Here(i) = 0 /\ Here(i)' = 0
    BY <1>2 DEF Here
  <1> QED
    BY <1>1, <1>3, <1>4, SchMoves

LEMMA SchPass == ASSUME SchInv, Pass PROVE SchInv'
  <1>1. /\ TypeOK /\ at \in Slot /\ ~inside /\ ~inside' /\ at' = at + 1
        /\ UNCHANGED <<task, inside, started, asked, gone, cancels>>
    BY DEF Pass, Walking, SchInv
  <1>2. at' \in 0..NumTask
    BY <1>1, SchedulerAssumption DEF Slot
  <1>3. TypeOK'
    BY <1>1, <1>2 DEF TypeOK
  <1>4. \A i \in Slot : Here(i) = 0 /\ Here(i)' = 0
    BY <1>1 DEF Here
  <1> QED
    BY <1>1, <1>3, <1>4, SchMoves

LEMMA SchTick == ASSUME SchInv, Tick PROVE SchInv'
  <1>1. /\ TypeOK /\ task \in [Slot -> TaskRec]
        /\ task' = [i \in Slot |-> [task[i] EXCEPT !.left = IF @ > 0 THEN @ - 1 ELSE 0]]
        /\ UNCHANGED <<at, inside, started, asked, gone, cancels>>
    BY TypeIs DEF Tick, SchInv
  <1>2. ASSUME NEW i \in Slot
        PROVE  /\ task'[i].fn = task[i].fn /\ task'[i].arg = task[i].arg
               /\ task'[i].repeat = task[i].repeat /\ task'[i].count = task[i].count
               /\ task'[i] \in TaskRec
    <2>1. task[i] \in TaskRec /\ task'[i] = [task[i] EXCEPT !.left = IF @ > 0 THEN @ - 1 ELSE 0]
      BY <1>1
    <2> QED
      BY <2>1 DEF TaskRec
  <1>3. TypeOK'
    BY <1>1, <1>2 DEF TypeOK, TaskRec
  <1>4. \A i \in Slot : Here(i)' = Here(i)
    BY <1>1 DEF Here
  <1> QED
    BY <1>1, <1>2, <1>3, <1>4, SchMoves

\* What a cancel of the slots S does, but for the functions that are gone.
LEMMA SchClears ==
  ASSUME SchInv, NEW S \in SUBSET Slot,
         task' \in [Slot -> TaskRec],
         \A i \in S : task'[i].fn = NoFn,
         \A i \in Slot \ S : task'[i] = task[i],
         asked' = Ending(S, "cancelled"),
         cancels < MaxCancels, cancels' = cancels + 1, gone' \subseteq Fns,
         UNCHANGED <<at, inside, started>>, CancelledIsGone'
  PROVE  SchInv'
  <1>1. TypeOK /\ TableIsLive
    BY DEF SchInv
  <1>2. \A k \in Start : Ending(S, "cancelled")[k] \in AskRec
    BY <1>1, EndingIs DEF Outcome, AskRec
  <1>3. asked' \in [Start -> AskRec]
    BY <1>2 DEF Ending
  <1>4. cancels' \in 0..MaxCancels
    BY <1>1, SchedulerAssumption DEF TypeOK
  <1>5. TypeOK'
    BY <1>1, <1>3, <1>4 DEF TypeOK, TaskRec, AskRec
  <1> QED
    BY <1>5, Clearing DEF SchInv

\* The slot after it was cleared by a cancel or by sm_sch_free.
LEMMA EmptiedIs ==
  ASSUME TypeOK, NEW i \in Slot
  PROVE  LET e == [Empty EXCEPT !.left = task[i].left]
             f == [Empty EXCEPT !.left = task[i].left, !.count = task[i].count]
         IN  e \in TaskRec /\ e.fn = NoFn /\ f \in TaskRec /\ f.fn = NoFn
  <1>1. task[i].left \in Nat /\ task[i].count \in 0..MaxRepeat
    BY DEF TypeOK
  <1>2. Empty \in TaskRec /\ Empty.fn = NoFn
    BY SchedulerAssumption DEF Empty, TaskRec
  <1> DEFINE e == [Empty EXCEPT !.left = task[i].left]
  <1>3. e \in TaskRec /\ e.fn = NoFn
    BY <1>1, <1>2 DEF TaskRec
  <1>4. [e EXCEPT !.count = task[i].count] \in TaskRec
        /\ [e EXCEPT !.count = task[i].count].fn = NoFn
    <2> HIDE DEF e
    <2> QED
      BY <1>1, <1>3 DEF TaskRec
  <1> QED
    BY <1>3, <1>4

LEMMA SchCancels ==
  ASSUME SchInv, NEW S \in SUBSET Slot, Cancels(S), gone' \subseteq Fns, CancelledIsGone'
  PROVE  SchInv'
  <1>1. task' = [i \in Slot |-> IF i \in S THEN [Empty EXCEPT !.left = task[i].left] ELSE task[i]]
    BY DEF Cancels
  <1>2. TypeOK /\ task \in [Slot -> TaskRec]
    BY TypeIs DEF SchInv
  <1>3. /\ task' \in [Slot -> TaskRec]
        /\ \A i \in S : task'[i].fn = NoFn
        /\ \A i \in Slot \ S : task'[i] = task[i]
    BY <1>1, <1>2, EmptiedIs
  <1> QED
    BY <1>3, SchClears DEF Cancels

LEMMA SchCancelTask == ASSUME SchInv, NEW i \in Slot, CancelTask(i) PROVE SchInv'
  <1>1. TypeOK /\ CancelledIsGone /\ gone \subseteq Fns
    BY DEF SchInv, TypeOK
  <1>2. CancelledIsGone'
    <2> SUFFICES ASSUME NEW j \in Slot PROVE task'[j].fn \notin gone
      BY DEF CancelTask, CancelledIsGone
    <2>1. task'[j] = IF j \in {i} THEN [Empty EXCEPT !.left = task[j].left] ELSE task[j]
      BY DEF CancelTask, Cancels
    <2> QED
      BY <2>1, <1>1, EmptiedIs, SchedulerAssumption DEF CancelledIsGone
  <1> QED
    BY <1>1, <1>2, SchCancels DEF CancelTask

LEMMA SchCancelTaskz == ASSUME SchInv, NEW f \in Fns, CancelTaskz(f) PROVE SchInv'
  <1>1. TypeOK /\ CancelledIsGone /\ gone \subseteq Fns /\ Of(f) \in SUBSET Slot
    BY DEF SchInv, TypeOK, Of
  <1>2. CancelledIsGone'
    <2> SUFFICES ASSUME NEW j \in Slot PROVE task'[j].fn \notin gone \cup {f}
      BY DEF CancelTaskz, CancelledIsGone
    <2>1. task'[j] = IF j \in Of(f) THEN [Empty EXCEPT !.left = task[j].left] ELSE task[j]
      BY DEF CancelTaskz, Cancels
    <2>2. CASE j \in Of(f)
      BY <2>1, <2>2, <1>1, EmptiedIs, SchedulerAssumption
    <2>3. CASE j \notin Of(f)
      BY <2>1, <2>3, <1>1 DEF CancelledIsGone, Of
    <2> QED
      BY <2>2, <2>3
  <1> QED
    BY <1>1, <1>2, SchCancels DEF CancelTaskz

LEMMA SchFree == ASSUME SchInv, Free PROVE SchInv'
  <1>1. /\ task' = [i \in Slot |-> [Empty EXCEPT !.left = task[i].left, !.count = task[i].count]]
        /\ TypeOK /\ gone' = Fns
    BY DEF Free, SchInv
  <1>2. task' \in [Slot -> TaskRec] /\ \A i \in Slot : task'[i].fn = NoFn
    BY <1>1, EmptiedIs
  <1>3. CancelledIsGone'
    <2>1. gone' = Fns
      BY <1>1
    <2> QED
      BY <2>1, <1>2, SchedulerAssumption DEF CancelledIsGone
  <1> QED
    BY <1>1, <1>2, <1>3, SchClears DEF Free

\* The call of a callback.
LEMMA SchCallBack == ASSUME SchInv, CallBack PROVE SchInv'
  <1> DEFINE k == task[at].arg
  <1>1. /\ at \in Slot /\ ~inside /\ inside' /\ Used(at) /\ k \in Start /\ Live(k)
        /\ asked[k].repeat = task[at].repeat /\ TypeOK /\ asked \in [Start -> AskRec]
        /\ UNCHANGED <<task, at, started, gone, cancels>>
    BY TypeIs DEF SchInv, TableIsLive, CallBack, Walking, Due
  <1>2. asked[k] \in AskRec /\ asked[k].runs \in 0..MaxRepeat + 1 /\ asked[k].repeat \in Int
    <2>1. asked[k] \in AskRec
      BY <1>1
    <2> QED
      BY <2>1, AskNumbers DEF AskRec
  <1> DEFINE b == Bump(asked[k].runs, MaxRepeat + 1)
  <1>3. /\ asked' = [asked EXCEPT ![k] = [asked[k] EXCEPT !.runs = b]]
        /\ asked'[k] = [asked[k] EXCEPT !.runs = b]
        /\ \A j \in Start : j # k => asked'[j] = asked[j]
    <2>1. asked' = [asked EXCEPT ![k].runs = b]
      BY DEF CallBack
    <2> HIDE DEF b, k
    <2> QED
      BY <2>1, <1>1
  <1>4. /\ asked'[k].fn = asked[k].fn /\ asked'[k].repeat = asked[k].repeat
        /\ asked'[k].inCallback = asked[k].inCallback /\ asked'[k].outcome = asked[k].outcome
        /\ asked'[k].runs = Bump(asked[k].runs, MaxRepeat + 1)
        /\ asked'[k] \in AskRec
    <2>1. Bump(asked[k].runs, MaxRepeat + 1) \in 0..MaxRepeat + 1
      BY <1>2, SchedulerAssumption DEF Bump
    <2> QED
      BY <1>2, <1>3, <2>1 DEF AskRec
  <1>5. Here(at) = 0 /\ Here(at)' = 1 /\ \A i \in Slot : i # at => Here(i) = 0 /\ Here(i)' = 0
    BY <1>1 DEF Here
  <1>6. asked[k].repeat # Forever =>
          /\ asked[k].runs < Wanted(asked[k].repeat) /\ asked[k].runs <= task[at].count
          /\ ~asked[k].inCallback => asked[k].runs = task[at].count
          /\ task[at].count < Wanted(task[at].repeat)
          /\ asked'[k].runs = asked[k].runs + 1
    <2> SUFFICES ASSUME asked[k].repeat # Forever
                 PROVE  /\ asked[k].runs < Wanted(asked[k].repeat) /\ asked[k].runs <= task[at].count
                        /\ ~asked[k].inCallback => asked[k].runs = task[at].count
                        /\ task[at].count < Wanted(task[at].repeat)
                        /\ asked'[k].runs = asked[k].runs + 1
      OBVIOUS
    <2>1. /\ task[at].count < Wanted(task[at].repeat)
          /\ asked[k].runs <= task[at].count + 0
          /\ ~asked[k].inCallback => asked[k].runs = task[at].count + 0
      BY <1>1, <1>5 DEF SchInv, Counted
    <2>2. task[at].count \in Nat /\ task[at].repeat \in Int /\ task[at].repeat <= MaxRepeat
      <3>1. task[at] \in TaskRec
        BY <1>1, TypeIs
      <3> QED
        BY <3>1, <1>1, TaskNumbers
    <2>3. asked[k].runs <= task[at].count /\ asked[k].runs < Wanted(asked[k].repeat)
      BY <2>1, <2>2, <1>1, <1>2 DEF Wanted
    <2>4. asked[k].runs < MaxRepeat + 1
      BY <2>3, <2>2, <1>1, <1>2, SchedulerAssumption DEF Wanted
    <2> QED
      BY <2>1, <2>2, <2>3, <2>4, <1>2, <1>4 DEF Bump
  <1>7. TypeOK'
    <2>1. asked' \in [Start -> AskRec]
      BY <1>1, <1>3, <1>4
    <2> QED
      BY <2>1, <1>1 DEF TypeOK, AskRec
  <1>8. Numbering'
    BY <1>1, <1>3, <1>4 DEF SchInv, Numbering
  <1>9. TableIsLive'
    <2>1. \A i \in Slot : Used(i)' <=> Used(i)
      BY <1>1 DEF Used
    <2>2. \A j \in Start : /\ asked'[j].fn = asked[j].fn /\ asked'[j].repeat = asked[j].repeat
                           /\ asked'[j].outcome = asked[j].outcome
      BY <1>3, <1>4
    <2> QED
      BY <1>1, <2>1, <2>2 DEF SchInv, TableIsLive, Live
  <1>10. OlderInFront' /\ CancelledIsGone'
    BY <1>1 DEF SchInv, OlderInFront, CancelledIsGone, Used
  <1>11. Counted'
    <2> SUFFICES ASSUME NEW i \in Slot, Used(i), task[i].repeat # Forever
                 PROVE  /\ task[i].count < Wanted(task[i].repeat)
                        /\ asked'[task[i].arg].runs <= task[i].count + Here(i)'
                        /\ ~asked'[task[i].arg].inCallback =>
                              asked'[task[i].arg].runs = task[i].count + Here(i)'
      BY <1>1 DEF Counted, Used
    <2>1. CASE i = at
      <3>1. task[i].count \in Nat /\ asked[k].repeat # Forever /\ Here(i)' = 1
        <4>1. task[i] \in TaskRec
          BY <1>1, TypeIs
        <4> QED
          BY <2>1, <4>1, <1>1, <1>5, TaskNumbers
      <3>2. /\ asked'[k].runs = asked[k].runs + 1 /\ asked[k].runs \in Int
            /\ asked[k].runs <= task[i].count
            /\ ~asked[k].inCallback => asked[k].runs = task[i].count
            /\ task[i].count < Wanted(task[i].repeat)
            /\ asked'[k].inCallback = asked[k].inCallback /\ k = task[i].arg
        BY <2>1, <3>1, <1>2, <1>4, <1>6
      <3> QED
        BY <3>1, <3>2
    <2>2. CASE i # at
      <3>1. task[i].arg \in Start /\ task[i].arg # k
        BY <2>2, <1>1 DEF SchInv, TableIsLive
      <3> QED
        BY <2>2, <3>1, <1>3, <1>5 DEF SchInv, Counted
    <2> QED
      BY <2>1, <2>2
  <1>12. RunsWithinRepeat'
    <2> SUFFICES ASSUME NEW j \in Start, asked'[j].outcome # "none", asked'[j].repeat # Forever
                 PROVE  asked'[j].runs <= Wanted(asked'[j].repeat)
      BY DEF RunsWithinRepeat
    <2>1. CASE j = k
      BY <2>1, <1>2, <1>4, <1>6 DEF Wanted
    <2>2. CASE j # k
      BY <2>2, <1>3 DEF SchInv, RunsWithinRepeat
    <2> QED
      BY <2>1, <2>2
  <1>13. DoneHasRun'
    <2> SUFFICES ASSUME NEW j \in Start, asked'[j].outcome = "done", ~asked'[j].inCallback
                 PROVE  asked'[j].runs = Wanted(asked'[j].repeat)
      BY DEF DoneHasRun
    <2>1. j # k
      BY <1>1, <1>4 DEF Live
    <2> QED
      BY <2>1, <1>3 DEF SchInv, DoneHasRun
  <1> QED
    BY <1>7, <1>8, <1>9, <1>10, <1>11, <1>12, <1>13 DEF SchInv
\* Two fields of one slot are set.
LEMMA CountAndTimer ==
  ASSUME task \in [Slot -> TaskRec], at \in Slot,
         Bump(task[at].count, MaxRepeat) \in 0..MaxRepeat, task[at].interval \in Nat,
         task' = [task EXCEPT ![at].count = Bump(@, MaxRepeat), ![at].left = task[at].interval]
  PROVE  /\ task' \in [Slot -> TaskRec]
         /\ \A j \in Slot : j # at => task'[j] = task[j]
         /\ task'[at].fn = task[at].fn /\ task'[at].arg = task[at].arg
         /\ task'[at].repeat = task[at].repeat
         /\ task'[at].count = Bump(task[at].count, MaxRepeat)
  <1> DEFINE n == Bump(task[at].count, MaxRepeat)
             m == task[at].interval
             c == [task EXCEPT ![at].count = n]
  <1>1. n \in 0..MaxRepeat /\ m \in Nat
    OBVIOUS
  <1>2. /\ c[at] = [task[at] EXCEPT !.count = n]
        /\ \A j \in Slot : j # at => c[j] = task[j]
        /\ c = [j \in Slot |-> c[j]]
    <2> HIDE DEF n, m
    <2> QED
      OBVIOUS
  <1>3. /\ c[at].fn = task[at].fn /\ c[at].arg = task[at].arg /\ c[at].repeat = task[at].repeat
        /\ c[at].count = n /\ c[at] \in TaskRec
    <2> HIDE DEF n, m, c
    <2> QED
      BY <1>1, <1>2 DEF TaskRec
  <1>4. c \in [Slot -> TaskRec]
    <2> HIDE DEF n, m, c
    <2> QED
      BY <1>2, <1>3
  <1>5. task' = [c EXCEPT ![at].left = m]
    OBVIOUS
  <1> HIDE DEF c, n, m
  <1>6. /\ task'[at] = [c[at] EXCEPT !.left = m]
        /\ \A j \in Slot : j # at => task'[j] = c[j]
        /\ task' = [j \in Slot |-> task'[j]]
    BY <1>4, <1>5
  <1>7. /\ task'[at].fn = c[at].fn /\ task'[at].arg = c[at].arg
        /\ task'[at].repeat = c[at].repeat /\ task'[at].count = c[at].count
        /\ task'[at] \in TaskRec
    BY <1>1, <1>3, <1>6 DEF TaskRec
  <1>8. task' \in [Slot -> TaskRec]
    BY <1>4, <1>6, <1>7
  <1>9. task'[at].count = n
    BY <1>3, <1>7
  <1> QED
    BY <1>2, <1>3, <1>6, <1>7, <1>8, <1>9 DEF n

LEMMA FnAndArg ==
  ASSUME task \in [Slot -> TaskRec], at \in Slot,
         task' = [task EXCEPT ![at].fn = NoFn, ![at].arg = 0]
  PROVE  /\ task' \in [Slot -> TaskRec]
         /\ \A j \in Slot : j # at => task'[j] = task[j]
         /\ task'[at].fn = NoFn
  <1> DEFINE d == [task EXCEPT ![at].fn = NoFn]
  <1>1. /\ d[at] = [task[at] EXCEPT !.fn = NoFn]
        /\ \A j \in Slot : j # at => d[j] = task[j]
        /\ d = [j \in Slot |-> d[j]]
    OBVIOUS
  <1>2. d[at].fn = NoFn /\ d[at] \in TaskRec
    BY <1>1 DEF TaskRec
  <1>3. d \in [Slot -> TaskRec]
    BY <1>1, <1>2
  <1>4. task' = [d EXCEPT ![at].arg = 0]
    OBVIOUS
  <1> HIDE DEF d
  <1>5. /\ task'[at] = [d[at] EXCEPT !.arg = 0]
        /\ \A j \in Slot : j # at => task'[j] = d[j]
        /\ task' = [j \in Slot |-> task'[j]]
    BY <1>3, <1>4
  <1>6. task'[at].fn = NoFn /\ task'[at] \in TaskRec
    BY <1>2, <1>5, SchedulerAssumption DEF TaskRec
  <1>7. task' \in [Slot -> TaskRec]
    BY <1>3, <1>5, <1>6
  <1> QED
    BY <1>1, <1>5, <1>6, <1>7

\* The return of a callback to a task that runs again.
LEMMA SchRunsAgain == ASSUME SchInv, Return, RunsAgain(task[at]) PROVE SchInv'
  <1>1. /\ at \in Slot /\ inside /\ inside' = FALSE /\ at' = at + 1 /\ TypeOK
        /\ UNCHANGED <<asked, started, gone, cancels>>
    BY DEF Return, SchInv, TypeOK
  <1>2. /\ task \in [Slot -> TaskRec] /\ task[at] \in TaskRec
        /\ task[at].count \in 0..MaxRepeat /\ task[at].interval \in Nat /\ task[at].repeat \in Int
    <2>1. task[at] \in TaskRec /\ task \in [Slot -> TaskRec]
      BY <1>1, TypeIs
    <2>2. task[at].count \in 0..MaxRepeat /\ task[at].interval \in Intervals \cup {0}
      BY <2>1 DEF TaskRec
    <2>3. task[at].interval \in Nat
      BY <2>2, IntervalIs
    <2> QED
      BY <2>1, <2>2, <2>3, TaskNumbers
  <1> DEFINE n == Bump(task[at].count, MaxRepeat)
  <1>3. n \in 0..MaxRepeat
    BY <1>2, SchedulerAssumption DEF Bump
  <1>4. /\ task' \in [Slot -> TaskRec]
        /\ task'[at].count = n
        /\ task'[at].fn = task[at].fn /\ task'[at].arg = task[at].arg
        /\ task'[at].repeat = task[at].repeat
        /\ \A i \in Slot : i # at => task'[i] = task[i]
    <2>1. task' = [task EXCEPT ![at].count = Bump(@, MaxRepeat), ![at].left = task[at].interval]
      BY DEF Return
    <2> QED
      BY <2>1, <1>1, <1>2, <1>3, CountAndTimer
  <1>6. Here(at) = 1 /\ (\A i \in Slot : i # at => Here(i) = 0) /\ (\A i \in Slot : Here(i)' = 0)
    BY <1>1 DEF Here
  <1>7. TypeOK'
    <2>2. at' \in 0..NumTask
      BY <1>1, SchedulerAssumption DEF Slot
    <2> QED
      BY <2>2, <1>1, <1>4 DEF TypeOK, TaskRec
  <1>8. \A i \in Slot : /\ Used(i)' <=> Used(i)
                        /\ task'[i].fn = task[i].fn /\ task'[i].arg = task[i].arg
                        /\ task'[i].repeat = task[i].repeat
    BY <1>4 DEF Used
  <1>9. Numbering' /\ RunsWithinRepeat' /\ DoneHasRun'
    BY <1>1 DEF SchInv, Numbering, RunsWithinRepeat, DoneHasRun
  <1>10. TableIsLive' /\ OlderInFront' /\ CancelledIsGone'
    BY <1>1, <1>8 DEF SchInv, TableIsLive, OlderInFront, CancelledIsGone, Live
  <1>11. Counted'
    <2> SUFFICES ASSUME NEW i \in Slot, Used(i), task[i].repeat # Forever
                 PROVE  /\ task'[i].count < Wanted(task[i].repeat)
                        /\ asked[task[i].arg].runs <= task'[i].count + Here(i)'
                        /\ ~asked[task[i].arg].inCallback =>
                              asked[task[i].arg].runs = task'[i].count + Here(i)'
      BY <1>1, <1>8 DEF Counted
    <2>1. CASE i = at
      <3>1. /\ task[i].count < Wanted(task[i].repeat)
            /\ asked[task[i].arg].runs <= task[i].count + 1
            /\ ~asked[task[i].arg].inCallback => asked[task[i].arg].runs = task[i].count + 1
        BY <2>1, <1>6 DEF SchInv, Counted
      <3>2. task[i].count < task[i].repeat - 1 /\ task[i].repeat <= MaxRepeat
        <4>1. task[i].repeat # Forever => task[i].repeat <= MaxRepeat
          BY <2>1, <1>2, TaskNumbers
        <4>2. RunsAgain(task[i])
          BY <2>1
        <4> QED
          BY <4>1, <4>2 DEF RunsAgain
      <3>3. task'[i].count = task[i].count + 1
        BY <2>1, <3>2, <1>2, <1>4, SchedulerAssumption DEF Bump
      <3>4. task[i].count \in Nat /\ task[i].repeat \in Int /\ Here(i)' = 0
        <4>1. task[i] \in TaskRec /\ Here(i)' = 0
          BY <2>1, <1>2, <1>6
        <4> QED
          BY <4>1, TaskNumbers
      <3>5. task'[i].count < Wanted(task[i].repeat)
        BY <3>2, <3>3, <3>4 DEF Wanted
      <3> QED
        BY <3>1, <3>3, <3>4, <3>5
    <2>2. CASE i # at
      BY <2>2, <1>4, <1>6 DEF SchInv, Counted
    <2> QED
      BY <2>1, <2>2
  <1> QED
    BY <1>7, <1>9, <1>10, <1>11 DEF SchInv

\* .. and to one that does not: its slot is freed.
LEMMA SchRunsOut == ASSUME SchInv, Return, ~RunsAgain(task[at]) PROVE SchInv'
  <1>1. /\ at \in Slot /\ inside /\ inside' = FALSE /\ at' = at + 1 /\ TypeOK /\ TableIsLive
        /\ UNCHANGED <<started, gone, cancels>> /\ {at} \in SUBSET Slot
        /\ asked' = Ending({at}, "done")
    BY DEF Return, SchInv, TypeOK
  <1>2. task \in [Slot -> TaskRec] /\ asked \in [Start -> AskRec] /\ task[at] \in TaskRec
    BY <1>1, TypeIs
  <1>3. /\ task' \in [Slot -> TaskRec] /\ task'[at].fn = NoFn
        /\ \A i \in Slot : i # at => task'[i] = task[i]
    <2>1. task' = [task EXCEPT ![at].fn = NoFn, ![at].arg = 0]
      BY DEF Return
    <2> QED
      BY <2>1, <1>1, <1>2, FnAndArg
  <1>5. /\ \A i \in Slot : Used(i)' => i # at /\ Used(i) /\ task'[i] = task[i]
        /\ \A i \in Slot : i # at /\ Used(i) => Used(i)' /\ task'[i] = task[i]
    BY <1>3 DEF Used
  <1>6. \A j \in Start :
          /\ asked'[j] \in AskRec
          /\ asked'[j].fn = asked[j].fn /\ asked'[j].repeat = asked[j].repeat
          /\ asked'[j].runs = asked[j].runs /\ asked'[j].inCallback = asked[j].inCallback
          /\ Used(at) /\ task[at].arg = j => asked'[j].outcome = "done"
          /\ ~(Used(at) /\ task[at].arg = j) => asked'[j].outcome = asked[j].outcome
    BY <1>1, EndingIs DEF Outcome, AskRec
  <1>7. Used(at) => Live(task[at].arg) /\ task[at].arg \in Start
    BY <1>1 DEF TableIsLive
  <1>8. TypeOK'
    <2>1. task' \in [Slot -> TaskRec]
      BY <1>3
    <2>2. asked' \in [Start -> AskRec]
      BY <1>1, <1>6 DEF Ending
    <2>3. at' \in 0..NumTask
      BY <1>1, SchedulerAssumption DEF Slot
    <2> QED
      BY <2>1, <2>2, <2>3, <1>1 DEF TypeOK, TaskRec, AskRec
  <1>9. Numbering'
    <2> SUFFICES ASSUME NEW j \in Start
                 PROVE  asked'[j].outcome = "none" <=> asked[j].outcome = "none"
      BY <1>1 DEF SchInv, Numbering
    <2> QED
      BY <1>6, <1>7 DEF Live
  <1>10. TableIsLive'
    <2>1. ASSUME NEW i \in Slot, Used(i)'
          PROVE  /\ task'[i].arg \in Start /\ asked'[task'[i].arg].outcome = "live"
                 /\ task'[i].fn = asked'[task'[i].arg].fn
                 /\ task'[i].repeat = asked'[task'[i].arg].repeat
      <3>1. i # at /\ Used(i) /\ task'[i] = task[i]
        BY <2>1, <1>5
      <3>2. /\ task[i].arg \in Start /\ asked[task[i].arg].outcome = "live"
            /\ task[i].fn = asked[task[i].arg].fn /\ task[i].repeat = asked[task[i].arg].repeat
            /\ ~(Used(at) /\ task[at].arg = task[i].arg)
        BY <3>1, <1>1 DEF TableIsLive, Live
      <3> QED
        BY <3>1, <3>2, <1>6
    <2>2. ASSUME NEW j \in Start, asked'[j].outcome = "live"
          PROVE  \E i \in Slot : Used(i)' /\ task'[i].arg = j
      <3>1. ~(Used(at) /\ task[at].arg = j) /\ Live(j)
        BY <2>2, <1>6 DEF Live
      <3>2. PICK i \in Slot : Used(i) /\ task[i].arg = j
        BY <3>1, <1>1 DEF TableIsLive
      <3> QED
        BY <3>1, <3>2, <1>5
    <2>3. \A i, j \in Slot : Used(i)' /\ Used(j)' /\ task'[i].arg = task'[j].arg => i = j
      BY <1>1, <1>5 DEF TableIsLive
    <2> QED
      BY <2>1, <2>2, <2>3 DEF TableIsLive, Live
  <1>11. OlderInFront'
    <2> SUFFICES ASSUME NEW i \in Slot, NEW j \in Slot, Used(i)', task'[i].fn = task'[j].fn, i < j
                 PROVE  task'[i].arg < task'[j].arg
      BY DEF OlderInFront
    <2>1. Used(j)'
      BY DEF Used
    <2> QED
      BY <2>1, <1>5 DEF SchInv, OlderInFront
  <1>12. CancelledIsGone'
    <2> SUFFICES ASSUME NEW i \in Slot PROVE task'[i].fn \notin gone
      BY <1>1 DEF CancelledIsGone
    <2>1. gone \subseteq Fns
      BY <1>1 DEF TypeOK
    <2>2. CASE i = at
      BY <2>1, <2>2, <1>3, SchedulerAssumption
    <2>3. CASE i # at
      BY <2>3, <1>3 DEF SchInv, CancelledIsGone
    <2> QED
      BY <2>2, <2>3
  <1>13. Counted'
    <2> SUFFICES ASSUME NEW i \in Slot, Used(i)', task'[i].repeat # Forever
                 PROVE  /\ task'[i].count < Wanted(task'[i].repeat)
                        /\ asked'[task'[i].arg].runs <= task'[i].count + Here(i)'
                        /\ ~asked'[task'[i].arg].inCallback =>
                              asked'[task'[i].arg].runs = task'[i].count + Here(i)'
      BY DEF Counted
    <2>1. i # at /\ Used(i) /\ task'[i] = task[i] /\ task[i].arg \in Start
      BY <1>1, <1>5 DEF TableIsLive
    <2>2. Here(i) = 0 /\ Here(i)' = 0
      BY <2>1, <1>1 DEF Here
    <2> QED
      BY <2>1, <2>2, <1>6 DEF SchInv, Counted
  <1>14. RunsWithinRepeat'
    <2> SUFFICES ASSUME NEW j \in Start, asked'[j].outcome # "none", asked'[j].repeat # Forever
                 PROVE  asked'[j].runs <= Wanted(asked'[j].repeat)
      BY DEF RunsWithinRepeat
    <2>1. asked[j].outcome # "none"
      BY <1>6, <1>7 DEF Live
    <2> QED
      BY <2>1, <1>6 DEF SchInv, RunsWithinRepeat
  <1>15. DoneHasRun'
    <2> SUFFICES ASSUME NEW j \in Start, asked'[j].outcome = "done", ~asked'[j].inCallback
                 PROVE  asked'[j].runs = Wanted(asked'[j].repeat)
      BY DEF DoneHasRun
    <2>1. CASE ~(Used(at) /\ task[at].arg = j)
      BY <2>1, <1>6 DEF SchInv, DoneHasRun
    <2>2. CASE Used(at) /\ task[at].arg = j
      <3>1. /\ task[at].repeat # Forever /\ ~(task[at].count < task[at].repeat - 1)
            /\ asked'[j].repeat = task[at].repeat /\ Here(at) = 1
        BY <2>2, <1>1, <1>6 DEF RunsAgain, TableIsLive, Here
      <3>2. /\ task[at].count < Wanted(task[at].repeat)
            /\ asked'[j].runs = task[at].count + 1
        BY <2>2, <3>1, <1>1, <1>6 DEF SchInv, Counted
      <3>3. task[at].count \in Nat /\ task[at].repeat \in Int
        BY <1>2, TaskNumbers
      <3> QED
        BY <3>1, <3>2, <3>3 DEF Wanted
    <2> QED
      BY <2>1, <2>2
  <1> QED
    BY <1>8, <1>9, <1>10, <1>11, <1>12, <1>13, <1>14, <1>15 DEF SchInv

-----------------------------------------------------------------------------
LEMMA SchNext == SchInv /\ [Next]_vars => SchInv'
  <1> SUFFICES ASSUME SchInv, [Next]_vars PROVE SchInv'
    OBVIOUS
  <1>1. CASE Process
    BY <1>1, SchBegin, SchPass, SchCallBack, SchRunsAgain, SchRunsOut DEF Process
  <1>2. CASE Calls
    BY <1>2, SchStart, SchCancelTask, SchCancelTaskz, SchFree DEF Calls
  <1>3. CASE Tick
    BY <1>3, SchTick
  <1>4. CASE UNCHANGED vars
    <2>1. UNCHANGED <<task, at, inside, started, asked, gone, cancels>>
      BY <1>4 DEF vars
    <2>2. TypeOK'
      BY <2>1 DEF SchInv, TypeOK
    <2>3. \A i \in Slot : Here(i)' = Here(i)
      BY <2>1 DEF Here
    <2> QED
      BY <2>1, <2>2, <2>3, SchMoves
  <1> QED
    BY <1>1, <1>2, <1>3, <1>4 DEF Next

LEMMA SchAlways == Spec => []SchInv
  <1> QED
    BY SchInit, SchNext, PTL DEF Spec

\* The table holds each live start once, no start is lost or in two slots, and of
\* two starts of a function the older is in front (sm_sch_start_task,
\* sm_sch_cancel_task).
THEOREM SchedulerTableIsSound == Spec => []TableIsSound
  <1>1. SchInv => TableIsSound
    BY DEF SchInv, TableIsSound
  <1> QED
    BY <1>1, SchAlways, PTL

\* A function cancelled by name is in no slot (sm_sch_cancel_taskz).
THEOREM SchedulerCancelledIsGone == Spec => []CancelledIsGone
  <1>1. SchInv => CancelledIsGone
    BY DEF SchInv
  <1> QED
    BY <1>1, SchAlways, PTL

\* A task gets no more runs than it was started for, whatever callbacks do to
\* the table under sm_sch_process, and is over only when it has had them all,
\* unless it was started into the slot of the callback that was running.
THEOREM SchedulerRunsAsAsked == Spec => []RunsAsAsked
  <1>1. SchInv => RunsAsAsked
    BY DEF SchInv, RunsAsAsked
  <1> QED
    BY <1>1, SchAlways, PTL

=============================================================================
