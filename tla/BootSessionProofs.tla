-------------------------- MODULE BootSessionProofs --------------------------
(***************************************************************************)
(* For every firmware, length of segments, limit of repetitions, number of  *)
(* faults and of answers that come too late:                                *)
(*   - the loader in a session behaves as SmBootloader says, so that what is *)
(*     proved of SmBootloader holds in the session;                          *)
(*   - a success the master reports is true;                                 *)
(*   - while the answers keep step, segments arrive whole and in order.       *)
(*                                                                         *)
(* The second rests on an order: the link delivers in order and the output   *)
(* never goes back to requesting, so that behind a firmware info there is no *)
(* request left that could make the loader erase what it has acknowledged.   *)
(***************************************************************************)
EXTENDS BootSession, SmBootloaderProofs, SequenceTheorems

-----------------------------------------------------------------------------
\* The inductive invariant.

Sending == {"SEG_INFO", "SEG_DATA", "FW_INFO"}
Early   == {"IDLE", "REQUEST"}

SlvT == [state : SlvStates, repeat : Nat, waiting : BOOLEAN,
         expired : BOOLEAN, index : Nat]
OutT == [state : OutStates, offset : Nat, last : BOOLEAN, retry : Nat]
FrameT == [cmd : OutStates \ {"IDLE"}, seg : Nat, chunk : Nat]

\* The output is past its request, for good.
PastRequest == out.state \in Sending \/ reported # "none"

OkFwInfo(a) == a.cmd = "FW_INFO" /\ a.ok
Acked ==
  \/ \E i \in 1..Len(toMaster) : OkFwInfo(toMaster[i])
  \/ slv.state = "FINISH"
  \/ reported = "success"

NoRequest(q) == \A i \in 1..Len(q) : q[i].cmd # "REQUEST"

WeakTypes ==
  /\ slv \in SlvT /\ out \in OutT
  /\ toLoader \in Seq(FrameT) /\ toMaster \in Seq(Answers)

\* Only a session that goes on waits for an answer, and one whose output is
\* sending has left its request behind.
Phases ==
  /\ pc = "sync" => reported = "none"
  /\ out.state \in Sending => slv.state \notin Early

\* Requests come first on the link.
RequestsFirst ==
  /\ \A i, j \in 1..Len(toLoader) :
       i < j /\ toLoader[i].cmd # "REQUEST" => toLoader[j].cmd # "REQUEST"
  /\ \A i \in 1..Len(toLoader) : toLoader[i].cmd # "REQUEST" => PastRequest

\* What the loader has acknowledged is installed, and nothing that could
\* undo it is under way.
AckedIsInstalled ==
  Acked => /\ Installed
           /\ m_state \notin {"PREPARING", "UPGRADING"}
           /\ PastRequest
           /\ NoRequest(toLoader)

SessionInv == WeakTypes /\ Phases /\ RequestsFirst /\ AckedIsInstalled

-----------------------------------------------------------------------------
\* The session's operators.

\* What a callback makes of the session: it finishes only on a success with
\* the firmware info, and never goes back to the request.
LEMMA NotifyFacts ==
  ASSUME NEW s \in SlvT, NEW o \in OutT, NEW b \in BOOLEAN,
         NEW r, r = Notify(s, o, b)
  PROVE  /\ r \in SlvT
         /\ r.state = "FINISH"
              => s.state = "FINISH" \/ (b = TRUE /\ o.state = "FW_INFO")
         /\ r.state \in Early => s.state \in Early
<1> USE DEF SlvT, SlvStates
<1>1. ASSUME r = ConfirmReady(s, b)
      PROVE  r \in SlvT /\ r.state \in {s.state, "SEND_SEG"}
  <2>1. \/ r = [s EXCEPT !.repeat = 0, !.state = "SEND_SEG", !.expired = FALSE]
        \/ r = s
    BY <1>1 DEF ConfirmReady
  <2>2. "SEND_SEG" \in SlvStates /\ 0 \in Nat
    OBVIOUS
  <2> HIDE DEF SlvStates
  <2>3. CASE r = [s EXCEPT !.repeat = 0, !.state = "SEND_SEG", !.expired = FALSE]
    BY <2>2, <2>3
  <2>4. CASE r = s
    BY <2>4
  <2> QED
    BY <2>1, <2>3, <2>4
<1>2. ASSUME r = ConfirmFwInfo(s, b)
      PROVE  /\ r \in SlvT
             /\ r.state = s.state \/ (b = TRUE /\ r.state = "FINISH")
  <2>1. \/ b = TRUE /\ r = [s EXCEPT !.state = "FINISH"]
        \/ r = [s EXCEPT !.expired = TRUE]
    BY <1>2 DEF ConfirmFwInfo
  <2> QED
    BY <2>1
<1>3. ASSUME r = ConfirmSeg(s, b)
      PROVE  r \in SlvT /\ r.state \in {s.state, "SEND_FW_INFO"}
  <2> DEFINE next == s.index + 1
  <2>1. next \in Nat /\ 0 \in Nat
    OBVIOUS
  <2>2. \/ r = [s EXCEPT !.waiting = FALSE]
        \/ r = [s EXCEPT !.index = next, !.state = "SEND_FW_INFO",
                         !.expired = TRUE, !.waiting = FALSE, !.repeat = 0]
        \/ r = [s EXCEPT !.index = next, !.repeat = 0,
                         !.expired = FALSE, !.waiting = FALSE]
    BY <1>3 DEF ConfirmSeg
  <2> HIDE DEF next
  <2> QED
    BY <2>1, <2>2
<1>4. CASE o.state = "REQUEST"
  <2>1. r = ConfirmReady(s, b)
    BY <1>4 DEF Notify
  <2> QED
    BY <1>1, <2>1 DEF Early
<1>5. CASE o.state \in {"SEG_INFO", "SEG_DATA"}
  <2>1. r = ConfirmSeg(s, b)
    BY <1>5 DEF Notify
  <2> QED
    BY <1>3, <2>1 DEF Early
<1>6. CASE o.state = "FW_INFO"
  <2>1. r = ConfirmFwInfo(s, b)
    BY <1>6 DEF Notify
  <2> QED
    BY <1>2, <1>6, <2>1 DEF Early
<1>7. CASE o.state \notin {"REQUEST", "SEG_INFO", "SEG_DATA", "FW_INFO"}
  <2>1. r = s
    BY <1>7 DEF Notify
  <2> QED
    BY <2>1
<1> QED
  BY <1>4, <1>5, <1>6, <1>7

LEMMA CallbackFacts ==
  ASSUME NEW s \in SlvT, NEW o \in OutT, NEW a \in Answers
  PROVE  /\ CallbackSlave(s, o, a) \in SlvT
         /\ CallbackSlave(s, o, a).state = "FINISH"
              => s.state = "FINISH" \/ OkFwInfo(a)
         /\ CallbackSlave(s, o, a).state \in Early => s.state \in Early
<1>1. \/ CallbackSlave(s, o, a) = s
      \/ CallbackSlave(s, o, a) = Notify(s, o, FALSE)
      \/ /\ CallbackSlave(s, o, a) = Notify(s, o, TRUE)
         /\ o.state # "FW_INFO" \/ OkFwInfo(a)
  <2>1. CASE a.cmd = "REQUEST" /\ o.state = "REQUEST"
    BY <2>1 DEF CallbackSlave
  <2>2. CASE ~(a.cmd = "REQUEST" /\ o.state = "REQUEST") /\ ~a.ok
    BY <2>2 DEF CallbackSlave
  <2>3. CASE a.ok /\ o.state = "SEG_DATA"
    BY <2>3 DEF CallbackSlave
  <2>4. CASE a.ok /\ o.state = "FW_INFO"
    BY <2>4 DEF CallbackSlave, OkFwInfo
  <2>5. CASE /\ ~(a.cmd = "REQUEST" /\ o.state = "REQUEST")
             /\ a.ok /\ o.state \notin {"SEG_DATA", "FW_INFO"}
    BY <2>5 DEF CallbackSlave
  <2> QED
    BY <2>1, <2>2, <2>3, <2>4, <2>5
<1> QED
  BY <1>1, NotifyFacts

LEMMA TimedOutFacts ==
  ASSUME NEW s \in SlvT, NEW o \in OutT
  PROVE  /\ TimedOutSlave(s, o) \in SlvT
         /\ TimedOutSlave(s, o).state = "FINISH" => s.state = "FINISH"
         /\ TimedOutSlave(s, o).state \in Early => s.state \in Early
  BY NotifyFacts DEF TimedOutSlave

\* What the end of a wait makes of the output: its state changes within
\* what it is sending.
LEMMA AdvanceFacts ==
  ASSUME NEW o \in OutT, NEW case \in OutStates
  PROVE  Advance(o, case) \in OutT /\ Advance(o, case).state = o.state
  BY DEF OutT, OutStates, Advance

LEMMA OutputFacts ==
  ASSUME NEW o \in OutT, NEW a \in Answers
  PROVE  /\ CallbackOutput(o, a) \in OutT
         /\ CallbackOutput(o, a).state \in Sending <=> o.state \in Sending
  BY DEF OutT, OutStates, CallbackOutput, Sending

LEMMA TimedOutOutputFacts ==
  ASSUME NEW o \in OutT
  PROVE  TimedOutOutput(o) \in OutT /\ TimedOutOutput(o).state = o.state
<1>1. [o EXCEPT !.retry = o.retry + 1] \in OutT
        /\ [o EXCEPT !.retry = o.retry + 1].state = o.state
  BY DEF OutT
<1>2. o.state \in OutStates
  BY DEF OutT
<1> QED
  BY <1>1, <1>2, AdvanceFacts DEF TimedOutOutput

LEMMA PreparedFacts ==
  ASSUME NEW s \in SlvT, NEW o \in OutT, MaySend(s, o)
  PROVE  /\ Prepared(s, o) \in OutT /\ Prepared(s, o).state = o.state
         /\ Frame(s, Prepared(s, o)) \in FrameT
         /\ Frame(s, Prepared(s, o)).cmd = o.state
<1>1. Prepared(s, o) \in OutT /\ Prepared(s, o).state = o.state
  BY DEF OutT, Prepared
<1> QED
  BY <1>1 DEF OutT, OutStates, SlvT, FrameT, Frame, MaySend

LEMMA RepeatedFacts ==
  ASSUME NEW s \in SlvT, NEW t \in SlvT
  PROVE  Repeated(s, t) \in SlvT /\ Repeated(s, t).state \in {s.state, "ABORT"}
<1> DEFINE st == IF s.repeat + 1 >= RepeatMax THEN "ABORT" ELSE s.state
           n  == s.repeat + 1
<1>1. st \in {s.state, "ABORT"} /\ st \in SlvStates /\ n \in Nat
  BY DEF SlvT, SlvStates
<1>2. Repeated(s, t) = [t EXCEPT !.repeat = n, !.expired = FALSE, !.state = st]
  BY DEF Repeated
<1> HIDE DEF st, n
<1> QED
  BY <1>1, <1>2 DEF SlvT

\* The switch of sm_boot_slave_process: the session is reported as a success
\* only when finished, and leaves its request for good.
LEMMA CoreFacts ==
  ASSUME NEW s \in SlvT, NEW o \in OutT, Core(s, o) \/ CoreReadFails(s, o),
         reported = "none",
         o.state \in Sending => s.state \notin Early
  PROVE  /\ slv' \in SlvT /\ out' \in OutT
         /\ slv'.state = "FINISH" => s.state = "FINISH"
         /\ reported' = "success" => s.state = "FINISH"
         /\ out'.state \in Sending => slv'.state \notin Early
         /\ o.state \in Sending => out'.state \in Sending \/ reported' # "none"
<1> USE DEF SlvT, SlvStates, OutT, OutStates, Sending, Early
<1>a. /\ Repeated(s, s) \in SlvT
      /\ Repeated(s, s).state \in {s.state, "ABORT"}
  BY RepeatedFacts
<1>b. /\ Repeated(s, [s EXCEPT !.waiting = TRUE]) \in SlvT
      /\ Repeated(s, [s EXCEPT !.waiting = TRUE]).state \in {s.state, "ABORT"}
  <2>1. [s EXCEPT !.waiting = TRUE] \in SlvT
    OBVIOUS
  <2> HIDE DEF SlvT
  <2> QED
    BY <2>1, RepeatedFacts
<1>c. /\ SetRequest(o) \in OutT /\ SetRequest(o).state = "REQUEST"
      /\ SetFwInfo(o) \in OutT /\ SetFwInfo(o).state = "FW_INFO"
      /\ SetSegFw(o) \in OutT /\ SetSegFw(o).state = "SEG_INFO"
  BY DEF SetRequest, SetFwInfo, SetSegFw
<1>1. CASE CoreIdle(s, o)
  BY <1>1 DEF CoreIdle
<1>2. CASE CoreRequest(s, o)
  BY <1>2, <1>a, <1>c DEF CoreRequest
<1>3. CASE CoreFwInfo(s, o)
  BY <1>3, <1>a, <1>c DEF CoreFwInfo
<1>4. CASE CoreSegment(s, o)
  BY <1>4, <1>b, <1>c DEF CoreSegment
<1>5. CASE CoreSegOverdue(s, o)
  BY <1>5 DEF CoreSegOverdue
<1>6. CASE CoreWait(s, o)
  BY <1>6 DEF CoreWait
<1>7. CASE CoreEnd(s, o)
  BY <1>7 DEF CoreEnd
<1>8. CASE CoreReadFails(s, o)
  BY <1>8 DEF CoreReadFails
<1> QED
  BY <1>1, <1>2, <1>3, <1>4, <1>5, <1>6, <1>7, <1>8 DEF Core

-----------------------------------------------------------------------------
\* The steps of the master.

LEMMA AckedGone ==
  ASSUME toMaster \in Seq(Answers), toMaster # <<>>,
         toMaster' = Tail(toMaster)
  PROVE  /\ toMaster' \in Seq(Answers)
         /\ \A i \in 1..Len(toMaster') : toMaster'[i] = toMaster[i + 1]
                                        /\ i + 1 \in 1..Len(toMaster)
         /\ toMaster[1] = Head(toMaster) /\ Head(toMaster) \in Answers
         /\ 1 \in 1..Len(toMaster)
  OBVIOUS

\* What sm_boot_slave_process does once the output has had its turn, with s
\* and o what that turn left.
LEMMA CoreStep ==
  ASSUME SessionInv, reported = "none",
         NEW s \in SlvT, NEW o \in OutT, Core(s, o) \/ CoreReadFails(s, o),
         s.state = "FINISH" => Acked,
         s.state \in Early => slv.state \in Early,
         o.state \in Sending <=> out.state \in Sending,
         pc' = "run", UNCHANGED <<vars, toLoader>>,
         \/ toMaster' = toMaster
         \/ toMaster # <<>> /\ toMaster' = Tail(toMaster)
  PROVE  SessionInv'
<1>1. /\ slv' \in SlvT /\ out' \in OutT
      /\ slv'.state = "FINISH" => Acked
      /\ reported' = "success" => Acked
      /\ out'.state \in Sending => slv'.state \notin Early
      /\ out.state \in Sending => out'.state \in Sending \/ reported' # "none"
  BY CoreFacts DEF SessionInv, Phases
<1>2. WeakTypes'
  BY <1>1, AckedGone DEF SessionInv, WeakTypes
<1>3. Phases'
  BY <1>1 DEF Phases
<1>4. PastRequest => PastRequest'
  BY <1>1 DEF PastRequest
<1>5. RequestsFirst'
  BY <1>4 DEF SessionInv, RequestsFirst
<1>6. Acked' => Acked
  <2>1. ASSUME NEW i \in 1..Len(toMaster'), OkFwInfo(toMaster'[i])
        PROVE  Acked
    BY <2>1, AckedGone DEF SessionInv, WeakTypes, Acked
  <2> QED
    BY <1>1, <2>1 DEF Acked
<1>7. AckedIsInstalled'
  BY <1>4, <1>6 DEF SessionInv, AckedIsInstalled, Installed, NoRequest,
                    vars, ramVars, nvVars
<1> QED
  BY <1>2, <1>3, <1>5, <1>7 DEF SessionInv

LEMMA StepMasterSkips == SessionInv /\ MasterSkips => SessionInv'
<1> SUFFICES ASSUME SessionInv, MasterSkips PROVE SessionInv'
  OBVIOUS
<1>1. slv \in SlvT /\ out \in OutT
  BY DEF SessionInv, WeakTypes
<1>2. pc' = "run"
  BY DEF MasterSkips
<1>3. /\ Core(slv, out) /\ reported = "none"
      /\ UNCHANGED <<vars, toLoader>> /\ toMaster' = toMaster
  BY DEF MasterSkips, linkVars
<1> QED
  BY <1>1, <1>2, <1>3, CoreStep DEF Acked

\* A command joins the link behind the others: a request only while there are
\* but requests.
LEMMA StepMasterSends == SessionInv /\ MasterSends => SessionInv'
<1> SUFFICES ASSUME SessionInv, MasterSends PROVE SessionInv'
  OBVIOUS
<1> DEFINE f == Frame(slv, Prepared(slv, out))
<1>1. /\ slv \in SlvT /\ out \in OutT /\ reported = "none"
      /\ MaySend(slv, out) /\ out' = Prepared(slv, out) /\ slv' = slv
      /\ reported' = reported /\ toMaster' = toMaster
      /\ toLoader \in Seq(FrameT) /\ toMaster \in Seq(Answers)
      /\ toLoader' = toLoader \/ toLoader' = Append(toLoader, f)
      /\ UNCHANGED vars
  BY DEF SessionInv, WeakTypes, MasterSends
<1>2. /\ out' \in OutT /\ out'.state = out.state
      /\ f \in FrameT /\ f.cmd = out.state
  BY <1>1, PreparedFacts
<1>3. out.state \in Sending \/ out.state = "REQUEST"
  BY <1>1 DEF MaySend, Sending
<1> HIDE DEF f
<1>4. WeakTypes'
  BY <1>1, <1>2 DEF WeakTypes
<1>5. Phases'
  BY <1>1, <1>2 DEF SessionInv, Phases
<1>6. PastRequest' <=> PastRequest
  BY <1>1, <1>2 DEF PastRequest
<1>7. RequestsFirst'
  <2>1. CASE toLoader' = toLoader
    BY <1>6, <2>1 DEF SessionInv, RequestsFirst
  <2>2. CASE toLoader' = Append(toLoader, f)
    <3>1. /\ Len(toLoader') = Len(toLoader) + 1 /\ Len(toLoader) \in Nat
          /\ toLoader'[Len(toLoader) + 1] = f
          /\ \A i \in 1..Len(toLoader) : toLoader'[i] = toLoader[i]
      BY <1>1, <1>2, <2>2
    <3>2. f.cmd # "REQUEST" <=> PastRequest
      BY <1>1, <1>2, <1>3 DEF PastRequest, Sending
    <3>3. \A i \in 1..Len(toLoader) :
            toLoader[i].cmd # "REQUEST" => PastRequest
      BY DEF SessionInv, RequestsFirst
    <3>4. \A i \in 1..Len(toLoader') :
            toLoader'[i].cmd # "REQUEST" => PastRequest'
      BY <1>6, <3>1, <3>2, <3>3
    <3>5. ASSUME NEW i \in 1..Len(toLoader'), NEW j \in 1..Len(toLoader'),
                 i < j, toLoader'[i].cmd # "REQUEST"
          PROVE  toLoader'[j].cmd # "REQUEST"
      <4>1. i \in 1..Len(toLoader) /\ toLoader[i].cmd # "REQUEST"
        BY <3>1, <3>5
      <4>2. CASE j \in 1..Len(toLoader)
        BY <3>1, <3>5, <4>1, <4>2 DEF SessionInv, RequestsFirst
      <4>3. CASE j = Len(toLoader) + 1
        BY <3>1, <3>2, <3>3, <4>1, <4>3
      <4> QED
        BY <3>1, <4>2, <4>3
    <3> QED
      BY <3>4, <3>5 DEF RequestsFirst
  <2> QED
    BY <1>1, <2>1, <2>2
<1>8. AckedIsInstalled'
  <2>1. Acked' => Acked
    BY <1>1 DEF Acked
  <2>2. ASSUME Acked, NoRequest(toLoader) PROVE NoRequest(toLoader')
    <3>1. f.cmd # "REQUEST"
      BY <1>1, <1>2, <1>3, <2>2 DEF SessionInv, AckedIsInstalled, PastRequest,
                                    Sending
    <3> QED
      BY <1>1, <1>2, <2>2, <3>1 DEF NoRequest
  <2> QED
    BY <1>1, <1>6, <2>1, <2>2
    DEF SessionInv, AckedIsInstalled, Installed, vars, ramVars, nvVars
<1> QED
  BY <1>4, <1>5, <1>7, <1>8 DEF SessionInv

LEMMA StepMasterSendFails == SessionInv /\ MasterSendFails => SessionInv'
<1> SUFFICES ASSUME SessionInv, MasterSendFails PROVE SessionInv'
  OBVIOUS
<1> DEFINE o == Advance(Prepared(slv, out), out.state)
<1>1. /\ slv \in SlvT /\ out \in OutT /\ MaySend(slv, out)
      /\ reported = "none" /\ Core(slv, o)
      /\ UNCHANGED <<vars, toLoader>> /\ toMaster' = toMaster
  BY DEF SessionInv, WeakTypes, MasterSendFails, linkVars
<1>2. pc' = "run"
  BY DEF MasterSendFails
<1>3. out.state \in OutStates
  BY <1>1 DEF OutT
<1>4. o \in OutT /\ o.state = out.state
  <2>1. Prepared(slv, out) \in OutT /\ Prepared(slv, out).state = out.state
    BY <1>1, PreparedFacts
  <2> QED
    BY <1>3, <2>1, AdvanceFacts
<1> HIDE DEF o
<1> QED
  BY <1>1, <1>2, <1>4, CoreStep DEF Acked

LEMMA StepMasterHears == SessionInv /\ MasterHears => SessionInv'
<1> SUFFICES ASSUME SessionInv, MasterHears PROVE SessionInv'
  OBVIOUS
<1> DEFINE a == Head(toMaster)
           s == CallbackSlave(slv, out, a)
           o == Advance(CallbackOutput(out, a), out.state)
<1>1. /\ slv \in SlvT /\ out \in OutT /\ toMaster \in Seq(Answers)
      /\ reported = "none" /\ (Core(s, o) \/ CoreReadFails(s, o)) /\ pc' = "run"
      /\ UNCHANGED <<vars, toLoader>>
      /\ toMaster # <<>> /\ toMaster' = Tail(toMaster)
  BY DEF SessionInv, WeakTypes, Phases, MasterHears
<1>2. /\ a \in Answers /\ 1 \in 1..Len(toMaster) /\ toMaster[1] = a
      /\ out.state \in OutStates
  BY <1>1, AckedGone DEF OutT
<1> HIDE DEF a
<1>3. /\ s \in SlvT
      /\ s.state = "FINISH" => slv.state = "FINISH" \/ OkFwInfo(a)
      /\ s.state \in Early => slv.state \in Early
  BY <1>1, <1>2, CallbackFacts
<1>4. o \in OutT /\ (o.state \in Sending <=> out.state \in Sending)
  <2> DEFINE p == CallbackOutput(out, a)
  <2>1. p \in OutT /\ (p.state \in Sending <=> out.state \in Sending)
    BY <1>1, <1>2, OutputFacts
  <2> HIDE DEF p
  <2>2. Advance(p, out.state) \in OutT /\ Advance(p, out.state).state = p.state
    BY <1>2, <2>1, AdvanceFacts
  <2> QED
    BY <2>1, <2>2 DEF p
<1>5. s.state = "FINISH" => Acked
  BY <1>2, <1>3 DEF Acked
<1> HIDE DEF s, o
<1> QED
  BY <1>1, <1>3, <1>4, <1>5, CoreStep

LEMMA StepMasterHearsNoise == SessionInv /\ MasterHearsNoise => SessionInv'
<1> SUFFICES ASSUME SessionInv, MasterHearsNoise PROVE SessionInv'
  OBVIOUS
<1> DEFINE o == Advance(out, out.state)
<1>1. /\ slv \in SlvT /\ out \in OutT
      /\ reported = "none" /\ Core(slv, o) /\ pc' = "run"
      /\ UNCHANGED <<vars, toLoader>>
      /\ toMaster # <<>> /\ toMaster' = Tail(toMaster)
  BY DEF SessionInv, WeakTypes, Phases, MasterHearsNoise
<1>2. o \in OutT /\ o.state = out.state
  BY <1>1, AdvanceFacts DEF OutT
<1> HIDE DEF o
<1> QED
  BY <1>1, <1>2, CoreStep DEF Acked

LEMMA StepMasterTimesOut == SessionInv /\ MasterTimesOut => SessionInv'
<1> SUFFICES ASSUME SessionInv, MasterTimesOut PROVE SessionInv'
  OBVIOUS
<1> DEFINE s == TimedOutSlave(slv, out)
           o == TimedOutOutput(out)
<1>1. /\ slv \in SlvT /\ out \in OutT
      /\ reported = "none" /\ Core(s, o) /\ pc' = "run"
      /\ UNCHANGED <<vars, toLoader>> /\ toMaster' = toMaster
  BY DEF SessionInv, WeakTypes, Phases, MasterTimesOut, linkVars
<1>2. /\ s \in SlvT /\ (s.state = "FINISH" => slv.state = "FINISH")
      /\ s.state \in Early => slv.state \in Early
  BY <1>1, TimedOutFacts
<1>3. o \in OutT /\ o.state = out.state
  BY <1>1, TimedOutOutputFacts
<1> HIDE DEF s, o
<1> QED
  BY <1>1, <1>2, <1>3, CoreStep DEF Acked

LEMMA StepMasterTimerExpires ==
  SessionInv /\ MasterTimerExpires => SessionInv'
<1> SUFFICES ASSUME SessionInv, MasterTimerExpires PROVE SessionInv'
  OBVIOUS
<1>1. slv \in SlvT /\ out \in OutT
  BY DEF SessionInv, WeakTypes
<1>2. slv' \in SlvT /\ slv'.state = slv.state
  BY <1>1 DEF MasterTimerExpires, SlvT
<1> QED
  BY <1>2 DEF MasterTimerExpires, SessionInv, WeakTypes, Phases, RequestsFirst,
     AckedIsInstalled, Acked, PastRequest, NoRequest, Installed, linkVars,
     vars, ramVars, nvVars

-----------------------------------------------------------------------------
\* The steps of the loader and of the link.

Settled == Installed /\ m_state \notin {"PREPARING", "UPGRADING"}

LEMMA Shorter ==
  ASSUME NEW S, NEW q \in Seq(S), q # <<>>
  PROVE  /\ Tail(q) \in Seq(S) /\ Len(Tail(q)) = Len(q) - 1 /\ Len(q) \in Nat
         /\ \A i \in 1..Len(Tail(q)) : /\ Tail(q)[i] = q[i + 1]
                                       /\ i + 1 \in 1..Len(q)
         /\ q[1] = Head(q) /\ 1 \in 1..Len(q) /\ Head(q) \in S
  OBVIOUS

\* The order of what is on the link is not disturbed by taking the oldest
\* command or all of them.
LEMMA OrderKept ==
  ASSUME SessionInv, UNCHANGED masterVars,
         \/ toLoader' = toLoader
         \/ toLoader # <<>> /\ toLoader' = Tail(toLoader)
         \/ toLoader' = <<>>
  PROVE  /\ toLoader' \in Seq(FrameT)
         /\ Phases' /\ RequestsFirst' /\ PastRequest' = PastRequest
         /\ NoRequest(toLoader) => NoRequest(toLoader')
<1>1. toLoader \in Seq(FrameT)
  BY DEF SessionInv, WeakTypes
<1>2. Phases' /\ PastRequest' = PastRequest
  BY DEF SessionInv, Phases, PastRequest, masterVars
<1>3. CASE toLoader' = toLoader
  BY <1>1, <1>2, <1>3 DEF SessionInv, RequestsFirst, NoRequest
<1>4. CASE toLoader # <<>> /\ toLoader' = Tail(toLoader)
  <2>1. /\ toLoader' \in Seq(FrameT) /\ Len(toLoader') = Len(toLoader) - 1
        /\ Len(toLoader) \in Nat
        /\ \A i \in 1..Len(toLoader') : /\ toLoader'[i] = toLoader[i + 1]
                                        /\ i + 1 \in 1..Len(toLoader)
    BY <1>1, <1>4, Shorter
  <2>2. NoRequest(toLoader) => NoRequest(toLoader')
    BY <2>1 DEF NoRequest
  <2>3. RequestsFirst'
    <3>1. ASSUME NEW i \in 1..Len(toLoader'), toLoader'[i].cmd # "REQUEST"
          PROVE  PastRequest'
      BY <1>2, <2>1, <3>1 DEF SessionInv, RequestsFirst
    <3>2. ASSUME NEW i \in 1..Len(toLoader'), NEW j \in 1..Len(toLoader'),
                 i < j, toLoader'[i].cmd # "REQUEST"
          PROVE  toLoader'[j].cmd # "REQUEST"
      <4>1. /\ i + 1 \in 1..Len(toLoader) /\ j + 1 \in 1..Len(toLoader)
            /\ i + 1 < j + 1 /\ toLoader[i + 1].cmd # "REQUEST"
            /\ toLoader'[j] = toLoader[j + 1]
        BY <2>1, <3>2
      <4> QED
        BY <4>1 DEF SessionInv, RequestsFirst
    <3> QED
      BY <3>1, <3>2 DEF RequestsFirst
  <2> QED
    BY <1>2, <2>1, <2>2, <2>3
<1>5. CASE toLoader' = <<>>
  BY <1>2, <1>5 DEF RequestsFirst, NoRequest
<1> QED
  BY <1>3, <1>4, <1>5

\* A step in which nothing is answered.
LEMMA SilentStep ==
  ASSUME SessionInv, UNCHANGED masterVars,
         \/ toLoader' = toLoader
         \/ toLoader # <<>> /\ toLoader' = Tail(toLoader)
         \/ toLoader' = <<>>,
         \/ toMaster' = toMaster
         \/ toMaster # <<>> /\ toMaster' = Tail(toMaster),
         Settled => Settled'
  PROVE  SessionInv'
<1>1. toMaster \in Seq(Answers)
  BY DEF SessionInv, WeakTypes
<1>2. Acked' => Acked
  <2>1. ASSUME NEW i \in 1..Len(toMaster'), OkFwInfo(toMaster'[i])
        PROVE  Acked
    BY <1>1, <2>1, Shorter DEF Acked
  <2> QED
    BY <2>1 DEF Acked, masterVars
<1>3. WeakTypes'
  BY <1>1, OrderKept, Shorter DEF SessionInv, WeakTypes, masterVars
<1>4. AckedIsInstalled'
  BY <1>2, OrderKept DEF SessionInv, AckedIsInstalled, Settled
<1> QED
  BY <1>3, <1>4, OrderKept DEF SessionInv

\* A step in which the oldest command is answered with r.
LEMMA AnswerStep ==
  ASSUME SessionInv, UNCHANGED masterVars,
         toLoader # <<>>, toLoader' = Tail(toLoader),
         NEW r \in Answers, toMaster' = Append(toMaster, r),
         Acked \/ OkFwInfo(r) => Settled',
         OkFwInfo(r) => Head(toLoader).cmd # "REQUEST"
  PROVE  SessionInv'
<1>1. toMaster \in Seq(Answers) /\ toLoader \in Seq(FrameT)
  BY DEF SessionInv, WeakTypes
<1>2. Acked' => Acked \/ OkFwInfo(r)
  <2>1. ASSUME NEW i \in 1..Len(toMaster'), OkFwInfo(toMaster'[i])
        PROVE  Acked \/ OkFwInfo(r)
    <3>1. \/ i \in 1..Len(toMaster) /\ toMaster'[i] = toMaster[i]
          \/ toMaster'[i] = r
      BY <1>1
    <3> QED
      BY <2>1, <3>1 DEF Acked
  <2> QED
    BY <2>1 DEF Acked, masterVars
<1>3. WeakTypes'
  BY <1>1, OrderKept DEF SessionInv, WeakTypes, masterVars
<1>4. OkFwInfo(r) => PastRequest /\ NoRequest(toLoader')
  <2> SUFFICES ASSUME OkFwInfo(r) PROVE PastRequest /\ NoRequest(toLoader')
    OBVIOUS
  <2>1. toLoader[1].cmd # "REQUEST" /\ 1 \in 1..Len(toLoader)
    BY <1>1, Shorter
  <2>2. \A i \in 1..Len(toLoader') : /\ toLoader'[i] = toLoader[i + 1]
                                    /\ i + 1 \in 1..Len(toLoader) /\ 1 < i + 1
    BY <1>1, Shorter
  <2>3. \A i \in 1..Len(toLoader') : toLoader[i + 1].cmd # "REQUEST"
    BY <2>1, <2>2 DEF SessionInv, RequestsFirst
  <2> QED
    BY <2>1, <2>2, <2>3 DEF SessionInv, RequestsFirst, NoRequest
<1>5. AckedIsInstalled'
  BY <1>2, <1>4, OrderKept DEF SessionInv, AckedIsInstalled, Settled
<1> QED
  BY <1>3, <1>5, OrderKept DEF SessionInv

\* An installed firmware passes the check of the loader's start.
LEMMA InstalledIsValid == Installed => IsValid(main, mainInfo)
  BY SessionAssumption DEF Installed, IsValid

LEMMA StepLoaderSteps == SessionInv /\ LoaderSteps => SessionInv'
<1> SUFFICES ASSUME SessionInv, LoaderSteps PROVE SessionInv'
  OBVIOUS
<1>1. /\ UNCHANGED masterVars /\ toLoader' = toLoader /\ toMaster' = toMaster
      /\ \/ ProcessInit \/ ProcessPreparing \/ WaitingTimer
         \/ UpgradingTimer \/ ProcessFinish \/ ProcessFailure
  BY DEF LoaderSteps, sessionVars, linkVars
<1>2. Settled => Settled'
  <2> SUFFICES ASSUME Settled PROVE Settled'
    OBVIOUS
  <2>1. CASE ProcessInit
    BY <2>1, InstalledIsValid
    DEF ProcessInit, InitFlagSet, InitMainValid, InitFormatSub, InitRollback,
        Settled, Installed
  <2>2. CASE WaitingTimer
    BY <2>2 DEF WaitingTimer, Settled, Installed, nvVars
  <2>3. CASE UpgradingTimer
    BY <2>3 DEF UpgradingTimer, Settled, Installed, nvVars
  <2>4. CASE ProcessFinish \/ ProcessFailure
    BY <2>4 DEF ProcessFinish, ProcessFailure, Settled, Installed, nvVars,
                ramVars
  <2>5. ~ProcessPreparing
    BY DEF ProcessPreparing, Settled
  <2> QED
    BY <1>1, <2>1, <2>2, <2>3, <2>4, <2>5
<1> QED
  BY <1>1, <1>2, SilentStep

LEMMA StepLoaderRestarts == SessionInv /\ LoaderRestarts => SessionInv'
<1> SUFFICES ASSUME SessionInv, LoaderRestarts PROVE SessionInv'
  OBVIOUS
<1>1. UNCHANGED masterVars /\ toLoader' = <<>> /\ toMaster' = toMaster
  BY DEF LoaderRestarts
<1>2. Settled => Settled'
  BY DEF LoaderRestarts, Restart, FreshRam, Settled, Installed
<1> QED
  BY <1>1, <1>2, SilentStep

LEMMA StepOthers ==
  SessionInv /\ (LoaderTimerExpires \/ LoaderLosesPower \/ Lose \/ CalmEnds)
    => SessionInv'
<1> SUFFICES ASSUME SessionInv,
                    LoaderTimerExpires \/ LoaderLosesPower \/ Lose \/ CalmEnds
             PROVE  SessionInv'
  OBVIOUS
<1>1. Settled => Settled'
  BY DEF LoaderTimerExpires, TimerExpires, LoaderLosesPower, PowerLoss, Lose,
         CalmEnds, vars, ramVars, nvVars, Settled, Installed
<1>2. UNCHANGED masterVars
  BY DEF LoaderTimerExpires, LoaderLosesPower, Lose, CalmEnds, sessionVars
<1>3. /\ toLoader' = toLoader \/ (toLoader # <<>> /\ toLoader' = Tail(toLoader))
      /\ toMaster' = toMaster \/ (toMaster # <<>> /\ toMaster' = Tail(toMaster))
  BY DEF LoaderTimerExpires, LoaderLosesPower, Lose, CalmEnds, sessionVars,
         linkVars
<1> QED
  BY <1>1, <1>2, <1>3, SilentStep

LEMMA AnswerOk ==
  ASSUME NEW c, NEW v, Answer(c, TRUE, v) \/ Answer(c, FALSE, v)
  PROVE  reply'.ok \in BOOLEAN
<1>1. CASE Answer(c, TRUE, v)
  BY <1>1 DEF Answer
<1>2. CASE Answer(c, FALSE, v)
  BY <1>2 DEF Answer
<1> QED
  BY <1>1, <1>2

\* The handlers, in a loader that has acknowledged the firmware or has not.
LEMMA StepLoaderPolls == SessionInv /\ LoaderPolls => SessionInv'
<1> SUFFICES ASSUME SessionInv, LoaderPolls PROVE SessionInv'
  OBVIOUS
<1> DEFINE f == Head(toLoader)
<1>1. UNCHANGED masterVars
  BY DEF LoaderPolls
<1>2. CASE NoEvent /\ UNCHANGED linkVars
  <2>1. Settled => Settled'
    BY <1>2 DEF NoEvent, Settled, Installed, nvVars
  <2> QED
    BY <1>1, <1>2, <2>1, SilentStep DEF linkVars
<1>3. ASSUME toLoader # <<>>, toLoader' = Tail(toLoader), Handle(f)
      PROVE  SessionInv'
  <2>1. f = toLoader[1] /\ 1 \in 1..Len(toLoader)
    BY <1>3, Shorter DEF SessionInv, WeakTypes
  <2>2. CASE f.cmd = "REQUEST" /\ HandleRequest
    <3> DEFINE r == [cmd |-> "REQUEST", ok |-> reply'.ok]
    <3>1. reply'.ok \in BOOLEAN
      <4>1. \/ Answer("REQUEST", TRUE, NoImage)
            \/ Answer("REQUEST", FALSE, NoImage)
        BY <2>2 DEF HandleRequest, RequestUpgrade
      <4> QED
        BY <4>1, AnswerOk
    <3>2. r \in Answers /\ ~OkFwInfo(r)
      BY <3>1 DEF Answers, OutStates, OkFwInfo
    <3>3. toMaster' = Append(toMaster, r)
      BY <2>2 DEF HandleRequest, Reply
    <3>4. ~Acked
      BY <2>1, <2>2 DEF SessionInv, AckedIsInstalled, NoRequest
    <3> HIDE DEF r
    <3> QED
      BY <1>1, <1>3, <3>2, <3>3, <3>4, AnswerStep
  <2>3. CASE f.cmd = "SEG_INFO" /\ HandleSegInfo(f)
    <3> DEFINE r == [cmd |-> "SEG_INFO", ok |-> TRUE]
    <3>1. r \in Answers /\ ~OkFwInfo(r)
      BY DEF Answers, OutStates, OkFwInfo
    <3>2. toMaster' = Append(toMaster, r)
      BY <2>3 DEF HandleSegInfo, Reply
    <3>3. Acked => Settled'
      BY <2>3 DEF SessionInv, AckedIsInstalled, HandleSegInfo, NoEvent,
                  Settled, Installed, nvVars
    <3> HIDE DEF r
    <3> QED
      BY <1>1, <1>3, <3>1, <3>2, <3>3, AnswerStep
  <2>4. CASE f.cmd = "SEG_DATA" /\ HandleSegData(f)
    <3>1. PICK b \in BOOLEAN :
            toMaster' = Append(toMaster, [cmd |-> "SEG_DATA", ok |-> b])
      <4>1. CASE Whole(seg')
        <5>1. reply'.ok \in BOOLEAN
          <6>1. \/ Answer("SEGMENT", TRUE, Firmware)
                \/ Answer("SEGMENT", FALSE, Firmware)
            BY <2>4, <4>1 DEF HandleSegData, NewSegment
          <6> QED
            BY <6>1, AnswerOk
        <5> QED
          BY <2>4, <4>1, <5>1 DEF HandleSegData, Reply
      <4>2. CASE ~Whole(seg')
        BY <2>4, <4>2 DEF HandleSegData, Reply
      <4> QED
        BY <4>1, <4>2
    <3> DEFINE r == [cmd |-> "SEG_DATA", ok |-> b]
    <3>2. r \in Answers /\ ~OkFwInfo(r)
      BY DEF Answers, OutStates, OkFwInfo
    <3>3. Acked => Settled'
      <4>1. m_state # "UPGRADING"
              => m_state' = m_state /\ main' = main /\ mainInfo' = mainInfo
        BY <2>4 DEF HandleSegData, NewSegment, NoEvent, nvVars
      <4> QED
        BY <4>1 DEF SessionInv, AckedIsInstalled, Settled, Installed
    <3> HIDE DEF r
    <3> QED
      BY <1>1, <1>3, <3>1, <3>2, <3>3, AnswerStep DEF r
  <2>5. CASE f.cmd = "FW_INFO" /\ HandleFwInfo
    <3> DEFINE r == [cmd |-> "FW_INFO", ok |-> reply'.ok]
    <3>1. PICK u \in UninitFirst :
            LET sign == [image |-> Firmware, first |-> u]
            IN  \/ FwInfoUnexpected(Firmware)
                \/ FwInfoInvalid(Firmware, sign) \/ FwInfoValid(Firmware, sign)
      BY <2>5 DEF HandleFwInfo, FwInfo
    <3>2. main' = main
      BY <2>5 DEF HandleFwInfo, FwInfo
    <3>3. reply'.ok \in BOOLEAN
      <4>1. \/ Answer("FW_INFO", TRUE, Firmware)
            \/ Answer("FW_INFO", FALSE, Firmware)
        BY <3>1 DEF FwInfoUnexpected, FwInfoInvalid, FwInfoValid
      <4> QED
        BY <4>1, AnswerOk
    <3>4. r \in Answers
      BY <3>3 DEF Answers, OutStates
    <3>5. toMaster' = Append(toMaster, r)
      BY <2>5 DEF HandleFwInfo, Reply
    <3>6. OkFwInfo(r) => Settled'
      <4> DEFINE sign == [image |-> Firmware, first |-> u]
      <4>1. reply'.ok = TRUE
              => /\ IsValid(main, sign) /\ mainInfo' = sign
                 /\ m_state' = "FINISH"
        BY <3>1 DEF FwInfoUnexpected, FwInfoInvalid, FwInfoValid, Answer
      <4>2. sign.image = Firmware /\ sign.first = u
        OBVIOUS
      <4>3. IsValid(main, sign) => sign.first \/ main = Full(Firmware)
        BY <4>2 DEF IsValid
      <4> HIDE DEF sign
      <4>4. OkFwInfo(r) => reply'.ok = TRUE
        BY <3>3 DEF OkFwInfo
      <4> QED
        BY <3>2, <4>1, <4>2, <4>3, <4>4 DEF Settled, Installed
    <3>7. Acked => Settled'
      <4> SUFFICES ASSUME Acked PROVE Settled'
        OBVIOUS
      <4>1. Settled
        BY DEF SessionInv, AckedIsInstalled, Settled
      <4>2. m_state' = "FAILURE" /\ mainInfo' = mainInfo
        BY <3>1, <4>1 DEF FwInfoUnexpected, FwInfoInvalid, FwInfoValid, Settled
      <4> QED
        BY <3>2, <4>1, <4>2 DEF Settled, Installed
    <3> HIDE DEF r
    <3> QED
      BY <1>1, <1>3, <2>5, <3>4, <3>5, <3>6, <3>7, AnswerStep
  <2> QED
    BY <1>3, <2>2, <2>3, <2>4, <2>5 DEF Handle
<1> QED
  BY <1>2, <1>3 DEF LoaderPolls, HostProcess

-----------------------------------------------------------------------------
\* The theorems.

LEMMA SessionInitInv == SessionInit => SessionInv
<1> SUFFICES ASSUME SessionInit PROVE SessionInv
  OBVIOUS
<1>1. slv \in SlvT /\ slv.state = "IDLE" /\ out \in OutT /\ out.state = "IDLE"
  BY SlaveAssumption DEF SessionInit, SlaveInit, SlvT, SlvStates, OutT, OutStates
<1>2. ~Acked
  BY <1>1 DEF SessionInit, SlaveInit, Acked
<1> QED
  BY <1>1, <1>2 DEF SessionInv, WeakTypes, Phases, RequestsFirst,
     AckedIsInstalled, SessionInit, SlaveInit, Sending

LEMMA SessionStep == SessionInv /\ [SessionNext]_allVars => SessionInv'
<1>1. SessionInv /\ SessionNext => SessionInv'
  BY StepMasterSkips, StepMasterSends, StepMasterSendFails, StepMasterHears,
     StepMasterHearsNoise, StepMasterTimesOut,
     StepMasterTimerExpires, StepLoaderPolls, StepLoaderSteps,
     StepLoaderRestarts, StepOthers
  DEF SessionNext, Master, Loader
<1>2. SessionInv /\ UNCHANGED allVars => SessionInv'
  BY DEF allVars, vars, ramVars, nvVars, sessionVars, masterVars, linkVars,
     SessionInv, WeakTypes, Phases, RequestsFirst, AckedIsInstalled, Acked,
     PastRequest, NoRequest, Installed
<1> QED
  BY <1>1, <1>2

\* Whatever the link loses, delays or breaks and however the loader is reset,
\* a success the master reports is true: the firmware and its signature are
\* in the loader's flash (sm_boot_slave.c with sm_boot_host.c).
THEOREM SessionSuccess == SessionSpec => []SuccessIsInstalled
<1>1. SessionSpec => []SessionInv
  BY SessionInitInv, SessionStep, PTL DEF SessionSpec
<1>2. SessionInv => SuccessIsInstalled
  BY DEF SessionInv, AckedIsInstalled, Acked, SuccessIsInstalled
<1> QED
  BY <1>1, <1>2, PTL

\* A poll of the session's interface is one of SmBootloader's polls.
LEMMA PollIsPoll ==
  ASSUME IndInv, ~quiet, LoaderPolls
  PROVE  (\E i \in Interfaces : WaitingPoll(i)) \/ UpgradingPoll
<1>1. 1 \in Interfaces
  BY SessionAssumption DEF Interfaces
<1>2. InterfaceProcess(1)
  <2>1. CASE NoEvent
    BY <2>1 DEF InterfaceProcess
  <2>2. ASSUME m_enable[1], Handle(Head(toLoader))
        PROVE  InterfaceProcess(1)
    <3> DEFINE f == Head(toLoader)
    <3>1. CASE HandleRequest
      BY <2>2, <3>1 DEF HandleRequest, InterfaceProcess
    <3>2. CASE HandleSegInfo(f)
      BY <3>2, <2>1 DEF HandleSegInfo
    <3>3. CASE HandleSegData(f)
      <4>1. CASE Whole(seg') /\ NewSegment(seg'.no, Firmware)
        <5>1. seg'.no \in Segments /\ Firmware \in Images
          BY <4>1, SessionAssumption DEF Whole, Segments
        <5> QED
          BY <2>2, <4>1, <5>1 DEF InterfaceProcess
      <4>2. CASE NoEvent
        BY <2>1, <4>2
      <4> QED
        BY <3>3, <4>1, <4>2 DEF HandleSegData
    <3>4. CASE HandleFwInfo
      <4>1. FwInfo(Firmware) /\ Firmware \in Images
        BY <3>4, SessionAssumption DEF HandleFwInfo
      <4> QED
        BY <2>2, <4>1 DEF InterfaceProcess
    <3> QED
      BY <2>2, <3>1, <3>2, <3>3, <3>4 DEF Handle
  <2> QED
    BY <2>1, <2>2 DEF LoaderPolls, HostProcess
<1>3. CASE WaitingPolled(1)
  BY <1>1, <1>2, <1>3 DEF WaitingPoll
<1>4. CASE UpgradingPolled
  <2>1. m_boot_if_active = 1
    BY <1>4, SessionAssumption
    DEF UpgradingPolled, IndInv, TypeOK, ActiveInterfaceSet
  <2> QED
    BY <1>2, <1>4, <2>1 DEF UpgradingPoll
<1> QED
  BY <1>3, <1>4 DEF LoaderPolls

LEMMA SessionStepIsLoaderStep ==
  ASSUME IndInv, ~quiet, [SessionNext]_allVars
  PROVE  [Next]_vars /\ ~quiet'
<1>1. CASE LoaderPolls
  <2>1. ~quiet'
    BY <1>1 DEF LoaderPolls, WaitingPolled, UpgradingPolled
  <2> QED
    BY <1>1, <2>1, PollIsPoll DEF Next, Process
<1>2. CASE LoaderSteps
  <2>1. Process
    BY <1>2 DEF LoaderSteps, Process
  <2>2. ~quiet'
    BY <1>2 DEF LoaderSteps, ProcessInit, ProcessPreparing, WaitingTimer,
       UpgradingTimer, ProcessFinish, ProcessFailure, envVars
  <2> QED
    BY <2>1, <2>2 DEF Next
<1>3. CASE LoaderRestarts
  BY <1>3 DEF LoaderRestarts, Restart, Next
<1>4. CASE LoaderTimerExpires
  BY <1>4 DEF LoaderTimerExpires, TimerExpires, Next, envVars
<1>5. CASE LoaderLosesPower
  BY <1>5 DEF LoaderLosesPower, PowerLoss, Next
<1>6. CASE Master \/ MasterTimerExpires \/ Lose \/ CalmEnds
  BY <1>6 DEF Master, MasterSkips, MasterSends, MasterSendFails, MasterHears,
     MasterHearsNoise, MasterTimesOut, MasterTimerExpires,
     Lose, CalmEnds, vars, envVars
<1>7. CASE UNCHANGED allVars
  BY <1>7 DEF allVars, vars, envVars
<1> QED
  BY <1>1, <1>2, <1>3, <1>4, <1>5, <1>6, <1>7 DEF SessionNext, Loader

\* The loader in a session does what SmBootloader says a loader does.
THEOREM SessionRefinesLoader == SessionSpec => Spec
<1>1. SessionInit => Init /\ IndInv /\ ~quiet
  BY InitIndInv DEF SessionInit, Init
<1>2. IndInv /\ ~quiet /\ [SessionNext]_allVars
        => [Next]_vars /\ IndInv' /\ ~quiet'
  BY SessionStepIsLoaderStep, StepIndInv
<1> QED
  BY <1>1, <1>2, PTL DEF SessionSpec, Spec

\* So a session never ends in an application the loader has not checked.
THEOREM SessionJumpSafety == SessionSpec => []JumpOnlyToIntactApp
  BY SessionRefinesLoader, JumpSafety, PTL

-----------------------------------------------------------------------------
\* In step: what the loader assembles, beside what the master sends.
\*
\* As long as every wait ends with its own answer there is at most one command
\* or answer under way, and the master's offset in the segment is the number of
\* packets the loader holds.  A wait that ends without an answer fails the
\* segment, which is then announced from its beginning or given up.  An answer
\* lost in noise does not: its packet did arrive, and the offset moves on.

Packets(k, n) == [c \in 1..n |-> <<k, c>>]

Segmenting == out.state \in {"SEG_INFO", "SEG_DATA"}

SegmentBuffers == [no : 0..Last, data : Seq((0..Last) \X Nat)]

SessionTypes ==
  /\ slv \in Slaves /\ toLoader \in Seq(Frames) /\ seg \in SegmentBuffers
  /\ reported \in {"none", "success", "failure"} /\ pc \in {"run", "sync"}
  /\ calm \in BOOLEAN /\ inStep \in BOOLEAN
  /\ faults \in 0..MaxFaults /\ late \in 0..MaxLate

\* The state of the output follows that of the session.
Follows(s, o) ==
  /\ s.repeat = RepeatMax => s.state \in {"ABORT", "FINISH"}
  /\ s.state \in Early \/ o.state = "REQUEST" => s.index = 1 /\ ~s.waiting
  /\ s.state = "SEND_SEG" => s.index <= Last
  /\ o.state = "SEG_INFO" => o.offset = 0 /\ ~o.last
  /\ o.state = "FW_INFO" => s.state \in {"SEND_FW_INFO", "ABORT", "FINISH"}

Progress ==
  /\ Follows(slv, out)
  /\ reported = "none" /\ out.state = "IDLE" => slv.state \in Early
  /\ out.state = "REQUEST" => slv.state \in {"REQUEST", "ABORT"}
  /\ Segmenting =>
       /\ slv.index <= Last
       /\ slv.state \in {"SEND_SEG", "ABORT"}
       /\ slv.state = "SEND_SEG" => slv.waiting /\ slv.repeat > 0
  /\ pc = "sync" => /\ reported = "none" /\ out.state # "IDLE"
                    /\ out.state = "SEG_DATA" => out.offset < SegChunks[slv.index]

\* At most one command or answer is under way, that of the wait; what an
\* application left unread counts for nothing.
OneUnderWay ==
  /\ toMaster # <<>> =>
       /\ pc = "sync" /\ toLoader = <<>> /\ Len(toMaster) = 1
       /\ Head(toMaster).cmd = out.state
  /\ toLoader # <<>> /\ power # "app" =>
       /\ pc = "sync" /\ Len(toLoader) = 1
       /\ Head(toLoader) = Frame(slv, out)

InOrder ==
  seg.no # 0 => /\ seg.data = Packets(seg.no, Len(seg.data))
                /\ Len(seg.data) <= SegChunks[seg.no]

Announced ==
  out.state = "SEG_INFO" /\ toMaster # <<>>
    => seg = [no |-> slv.index, data |-> <<>>]

\* The next segment could not be read; the output still has the last one.
ReadFailed ==
  slv.state = "ABORT" /\ pc = "run" /\ out.offset >= SegChunks[slv.index]

Sent ==
  /\ seg.no = slv.index
  /\ pc = "run" \/ (toLoader # <<>> /\ power # "app") => Len(seg.data) = out.offset
  /\ toMaster # <<>> => Len(seg.data) = out.offset + 1
  /\ out.last => out.offset + (IF pc = "run" THEN 0 ELSE 1) >= SegChunks[slv.index]
  /\ out.last /\ toMaster # <<>> /\ Head(toMaster).ok => main[slv.index] = Firmware

BeforeSegments ==
  /\ m_state = "INIT" => slv.index = 1 /\ toMaster = <<>> /\ out.state \in Early
  /\ m_state = "PREPARING" =>
       /\ slv.index = 1 /\ out.state \in Early \cup {"SEG_INFO"}
       /\ out.state = "SEG_INFO" => toMaster = <<>>

InStep ==
  inStep => /\ OneUnderWay /\ InOrder /\ Announced
            /\ out.state = "SEG_DATA" => ReadFailed \/ Sent
            /\ BeforeSegments /\ CountedSegmentIsWritten

WholeInv == SessionTypes /\ Progress /\ InStep

-----------------------------------------------------------------------------
\* The master's part.

\* What the output's turn leaves to the switch of sm_boot_slave_process.
Ready(s, o) ==
  /\ Follows(s, o)
  /\ o.state = "IDLE" => s.state \in Early
  /\ o.state = "REQUEST" => \/ s.state \in {"REQUEST", "ABORT"}
                            \/ s.state = "SEND_SEG" /\ ~s.waiting
  /\ o.state \in {"SEG_INFO", "SEG_DATA"} =>
       \/ /\ s.state \in {"SEND_SEG", "ABORT"} /\ s.index <= Last
          /\ s.state = "SEND_SEG" /\ s.waiting => s.repeat > 0
       \/ s.state = "SEND_FW_INFO" /\ s.expired

LEMMA ChunkFacts ==
  /\ Last \in Nat /\ Last > 0 /\ RepeatMax \in Nat \ {0}
  /\ \A k \in 1..Last : SegChunks[k] \in Nat \ {0}
  /\ \A k \in 1..Last - 1 : SegChunks[k + 1] <= SegChunks[k]
  BY SlaveAssumption DEF Last

LEMMA SlaveFacts ==
  ASSUME NEW s \in Slaves
  PROVE  /\ s.state \in SlvStates /\ s.repeat \in 0..RepeatMax
         /\ s.waiting \in BOOLEAN /\ s.expired \in BOOLEAN
         /\ s.index \in 1..(Last + 1)
  BY DEF Slaves

LEMMA RepeatedReady ==
  ASSUME NEW s \in Slaves, NEW t \in Slaves, s.repeat < RepeatMax,
         s.state \in SlvStates
  PROVE  /\ Repeated(s, t) \in Slaves
         /\ Repeated(s, t).state \in {s.state, "ABORT"}
         /\ Repeated(s, t).index = t.index /\ Repeated(s, t).waiting = t.waiting
         /\ Repeated(s, t).repeat = s.repeat + 1
         /\ Repeated(s, t).repeat = RepeatMax => Repeated(s, t).state = "ABORT"
<1> DEFINE st == IF s.repeat + 1 >= RepeatMax THEN "ABORT" ELSE s.state
           n  == s.repeat + 1
<1>1. /\ st \in {s.state, "ABORT"} /\ st \in SlvStates /\ n \in 0..RepeatMax
      /\ n = RepeatMax => st = "ABORT"
  BY SlaveFacts, ChunkFacts DEF SlvStates
<1>2. Repeated(s, t) = [t EXCEPT !.repeat = n, !.expired = FALSE, !.state = st]
  BY DEF Repeated
<1>3. /\ Repeated(s, t) \in Slaves
      /\ Repeated(s, t).state = st /\ Repeated(s, t).repeat = n
      /\ Repeated(s, t).index = t.index /\ Repeated(s, t).waiting = t.waiting
  <2> HIDE DEF st, n
  <2> QED
    BY <1>1, <1>2 DEF Slaves
<1> QED
  BY <1>1, <1>3

\* The switch: the output follows the session again, and goes on with a
\* segment only while the session waits for it or could not read the next.
LEMMA CoreReady ==
  ASSUME NEW s \in Slaves, NEW o \in Outputs, Ready(s, o),
         Core(s, o) \/ CoreReadFails(s, o), reported = "none", pc' = "run"
  PROVE  /\ slv' \in Slaves /\ reported' \in {"none", "success", "failure"}
         /\ Progress'
         /\ slv'.index = s.index
         /\ out'.state = "SEG_DATA" =>
              /\ out' = o
              /\ \/ s.state = "SEND_SEG" /\ s.waiting
                 \/ CoreReadFails(s, o)
         /\ out'.state = "SEG_INFO" => o.state = "SEG_INFO" \/ s.state = "SEND_SEG"
         /\ out'.state = "FW_INFO" =>
              o.state = "FW_INFO" \/ s.state = "SEND_FW_INFO"
<1> USE SlaveFacts, ChunkFacts
        DEF SlvStates, Outputs, OutStates, Early, Ready, Follows
<1>a. s.state \notin {"ABORT", "FINISH"} => s.repeat < RepeatMax
  OBVIOUS
<1>c. /\ SetRequest(o).state = "REQUEST"
      /\ SetFwInfo(o).state = "FW_INFO"
      /\ SetSegFw(o).state = "SEG_INFO"
      /\ SetSegFw(o).offset = 0 /\ SetSegFw(o).last = FALSE
  BY DEF SetRequest, SetFwInfo, SetSegFw
<1>1. CASE CoreIdle(s, o)
  <2>1. /\ slv' \in Slaves /\ slv'.state = "REQUEST" /\ slv'.index = s.index
        /\ slv'.waiting = s.waiting /\ slv'.repeat = s.repeat
        /\ out' = o /\ reported' = reported
    BY <1>1 DEF CoreIdle, Slaves
  <2>2. s.state = "IDLE"
    BY <1>1 DEF CoreIdle
  <2> QED
    BY <2>1, <2>2, <1>a DEF Progress, Segmenting
<1>2. CASE CoreRequest(s, o)
  <2>1. /\ s.state = "REQUEST" /\ slv' = Repeated(s, s)
        /\ out'.state = "REQUEST" /\ reported' = reported
    BY <1>2, <1>c DEF CoreRequest
  <2>2. /\ slv' \in Slaves /\ slv'.state \in {"REQUEST", "ABORT"}
        /\ slv'.index = s.index /\ slv'.waiting = s.waiting
        /\ slv'.repeat = RepeatMax => slv'.state = "ABORT"
    BY <1>a, <2>1, RepeatedReady
  <2> QED
    BY <2>1, <2>2 DEF Progress, Segmenting
<1>3. CASE CoreFwInfo(s, o)
  <2>1. /\ s.state = "SEND_FW_INFO" /\ slv' = Repeated(s, s)
        /\ out'.state = "FW_INFO" /\ reported' = reported
    BY <1>3, <1>c DEF CoreFwInfo
  <2>2. /\ slv' \in Slaves /\ slv'.state \in {"SEND_FW_INFO", "ABORT"}
        /\ slv'.index = s.index /\ slv'.waiting = s.waiting
        /\ slv'.repeat = RepeatMax => slv'.state = "ABORT"
    BY <1>a, <2>1, RepeatedReady
  <2> QED
    BY <2>1, <2>2 DEF Progress, Segmenting
<1>4. CASE CoreSegment(s, o)
  <2> DEFINE t == [s EXCEPT !.waiting = TRUE]
  <2>1. /\ t \in Slaves /\ t.index = s.index /\ t.waiting = TRUE
    BY DEF Slaves
  <2>2. /\ s.state = "SEND_SEG" /\ slv' = Repeated(s, t)
        /\ out' = SetSegFw(o) /\ reported' = reported
    BY <1>4 DEF CoreSegment
  <2> HIDE DEF t
  <2>3. /\ slv' \in Slaves /\ slv'.state \in {"SEND_SEG", "ABORT"}
        /\ slv'.index = s.index /\ slv'.waiting = TRUE
        /\ slv'.repeat = s.repeat + 1
        /\ slv'.repeat = RepeatMax => slv'.state = "ABORT"
    BY <1>a, <2>1, <2>2, RepeatedReady
  <2> QED
    BY <1>c, <2>2, <2>3 DEF Progress, Segmenting
<1>5. CASE CoreSegOverdue(s, o)
  <2>1. /\ slv' \in Slaves /\ slv'.state = "ABORT" /\ slv'.index = s.index
        /\ slv'.waiting = s.waiting
        /\ out' = o /\ reported' = reported
        /\ s.state = "SEND_SEG" /\ s.waiting
    BY <1>5 DEF CoreSegOverdue, Slaves
  <2> QED
    BY <2>1 DEF Progress, Segmenting
<1>6. CASE CoreWait(s, o)
  <2>1. /\ slv' = s /\ out' = o /\ reported' = reported
        /\ \/ s.state \in {"REQUEST", "SEND_FW_INFO"} /\ ~s.expired
           \/ s.state = "SEND_SEG" /\ s.waiting /\ ~s.expired
    BY <1>6 DEF CoreWait
  <2> QED
    BY <2>1 DEF Progress, Segmenting
<1>7. CASE CoreEnd(s, o)
  <2>1. /\ slv' = s /\ out'.state = "IDLE"
        /\ reported' \in {"success", "failure"}
        /\ s.state \in {"FINISH", "ABORT"}
    BY <1>7 DEF CoreEnd
  <2> QED
    BY <2>1 DEF Progress, Segmenting
<1>8. CASE CoreReadFails(s, o)
  <2>1. /\ slv' \in Slaves /\ slv'.state = "ABORT" /\ slv'.index = s.index
        /\ slv'.waiting = s.waiting
        /\ out' = o /\ reported' = reported
        /\ s.state = "SEND_SEG" /\ ~s.waiting
    BY <1>8 DEF CoreReadFails, Slaves
  <2> QED
    BY <1>8, <2>1 DEF Progress, Segmenting
<1> QED
  BY <1>1, <1>2, <1>3, <1>4, <1>5, <1>6, <1>7, <1>8 DEF Core

\* What each of the session's callbacks changes.
LEMMA ConfirmReadyFacts ==
  ASSUME NEW s \in Slaves, NEW r, r = ConfirmReady(s, TRUE)
  PROVE  /\ r \in Slaves /\ r.repeat = 0 /\ r.state = "SEND_SEG"
         /\ r.index = s.index /\ r.waiting = s.waiting
<1>1. r = [s EXCEPT !.repeat = 0, !.state = "SEND_SEG", !.expired = FALSE]
  BY DEF ConfirmReady
<1>2. "SEND_SEG" \in SlvStates /\ 0 \in 0..RepeatMax
  BY ChunkFacts DEF SlvStates
<1> QED
  BY <1>1, <1>2 DEF Slaves

LEMMA ConfirmFwInfoFacts ==
  ASSUME NEW s \in Slaves, NEW b \in BOOLEAN, NEW r, r = ConfirmFwInfo(s, b)
  PROVE  /\ r \in Slaves /\ r.repeat = s.repeat
         /\ r.state = "FINISH" \/ r.state = s.state
         /\ r.index = s.index /\ r.waiting = s.waiting
<1>1. \/ r = [s EXCEPT !.state = "FINISH"]
      \/ r = [s EXCEPT !.expired = TRUE]
  BY DEF ConfirmFwInfo
<1>2. "FINISH" \in SlvStates
  BY DEF SlvStates
<1> QED
  BY <1>1, <1>2 DEF Slaves

LEMMA ConfirmSegFacts ==
  ASSUME NEW s \in Slaves, NEW b \in BOOLEAN, s.index <= Last,
         NEW r, r = ConfirmSeg(s, b)
  PROVE  /\ r \in Slaves /\ r.waiting = FALSE
         /\ b = FALSE =>
              r.repeat = s.repeat /\ r.state = s.state /\ r.index = s.index
         /\ b = TRUE => r.repeat = 0 /\ r.index = s.index + 1
         /\ b = TRUE /\ s.index = Last =>
              r.state = "SEND_FW_INFO" /\ r.expired = TRUE
         /\ b = TRUE /\ s.index # Last => r.state = s.state /\ r.index <= Last
<1> DEFINE next == s.index + 1
<1>1. /\ next \in 1..Last + 1 /\ 0 \in 0..RepeatMax
      /\ "SEND_FW_INFO" \in SlvStates
      /\ s.index # Last => next <= Last
  BY SlaveFacts, ChunkFacts DEF SlvStates
<1>2. /\ b = FALSE => r = [s EXCEPT !.waiting = FALSE]
      /\ b = TRUE /\ s.index = Last =>
           r = [s EXCEPT !.index = next, !.state = "SEND_FW_INFO",
                         !.expired = TRUE, !.waiting = FALSE, !.repeat = 0]
      /\ b = TRUE /\ s.index # Last =>
           r = [s EXCEPT !.index = next, !.repeat = 0,
                         !.expired = FALSE, !.waiting = FALSE]
  BY DEF ConfirmSeg
<1>3. next = s.index + 1
  OBVIOUS
<1> HIDE DEF next
<1>4. CASE b = FALSE
  BY <1>2, <1>4 DEF Slaves
<1>5. CASE b = TRUE /\ s.index = Last
  BY <1>1, <1>2, <1>3, <1>5 DEF Slaves
<1>6. CASE b = TRUE /\ s.index # Last
  BY <1>1, <1>2, <1>3, <1>6 DEF Slaves
<1> QED
  BY <1>4, <1>5, <1>6

\* What a callback leaves, before the output moves on.
LEMMA NotifiedReady ==
  ASSUME slv \in Slaves, out \in Outputs, Progress, pc = "sync",
         NEW b \in BOOLEAN, NEW s, s = slv \/ s = Notify(slv, out, b)
  PROVE  /\ s \in Slaves /\ Ready(s, out)
         /\ s.index = slv.index \/ (b = TRUE /\ s.index = slv.index + 1 /\ Segmenting)
         /\ Segmenting /\ s.waiting => s = slv
         /\ s.state = "SEND_SEG" => out.state = "REQUEST" \/ Segmenting
         /\ s.state = "SEND_FW_INFO" => Segmenting \/ out.state = "FW_INFO"
<1>a. /\ slv.index \in 1..Last + 1 /\ slv.repeat \in 0..RepeatMax
      /\ slv.waiting \in BOOLEAN /\ out.state \in OutStates
      /\ slv.state \in SlvStates /\ RepeatMax # 0
  BY SlaveFacts, ChunkFacts DEF Outputs
<1>b. /\ Follows(slv, out) /\ out.state # "IDLE"
      /\ out.state = "REQUEST" => slv.state \in {"REQUEST", "ABORT"}
      /\ Segmenting =>
           /\ slv.index <= Last
           /\ slv.state \in {"SEND_SEG", "ABORT"}
           /\ slv.state = "SEND_SEG" => slv.waiting /\ slv.repeat > 0
  BY DEF Progress
<1>1. CASE s = slv
  BY <1>1, <1>a, <1>b DEF Ready, Follows, Segmenting, Early, OutStates
<1>2. CASE out.state = "REQUEST" /\ s = ConfirmReady(slv, b)
  <2>1. CASE b = TRUE
    <3>1. /\ s \in Slaves /\ s.repeat = 0 /\ s.state = "SEND_SEG"
          /\ s.index = slv.index /\ s.waiting = slv.waiting
      BY <1>2, <2>1, ConfirmReadyFacts
    <3> QED
      BY <1>a, <1>b, <1>2, <3>1, ChunkFacts
      DEF Ready, Follows, Segmenting, Early
  <2>2. CASE b = FALSE
    BY <1>1, <1>2, <2>2 DEF ConfirmReady
  <2> QED
    BY <2>1, <2>2
<1>3. CASE out.state = "FW_INFO" /\ s = ConfirmFwInfo(slv, b)
  <2>1. /\ s \in Slaves /\ s.repeat = slv.repeat
        /\ s.state = "FINISH" \/ s.state = slv.state
        /\ s.index = slv.index /\ s.waiting = slv.waiting
    BY <1>3, ConfirmFwInfoFacts
  <2> QED
    BY <1>a, <1>b, <1>3, <2>1 DEF Ready, Follows, Segmenting, Early
<1>4. CASE Segmenting /\ s = ConfirmSeg(slv, b)
  <2>1. /\ s \in Slaves /\ s.waiting = FALSE
        /\ b = FALSE =>
             s.repeat = slv.repeat /\ s.state = slv.state /\ s.index = slv.index
        /\ b = TRUE => s.repeat = 0 /\ s.index = slv.index + 1
        /\ b = TRUE /\ slv.index = Last =>
             s.state = "SEND_FW_INFO" /\ s.expired = TRUE
        /\ b = TRUE /\ slv.index # Last =>
             s.state = slv.state /\ s.index <= Last
    BY <1>4, <1>b, ConfirmSegFacts
  <2>2. CASE b = FALSE
    <3>1. /\ s.state \in {"SEND_SEG", "ABORT"} /\ s.waiting = FALSE
          /\ s.index <= Last
          /\ s.repeat = RepeatMax => s.state = "ABORT"
          /\ s.index = slv.index \/ (b = TRUE /\ s.index = slv.index + 1)
      BY <1>a, <1>b, <1>4, <2>1, <2>2 DEF Follows
    <3>2. Ready(s, out)
      BY <1>b, <1>4, <3>1 DEF Ready, Follows, Segmenting, Early
    <3> QED
      BY <1>4, <2>1, <3>1, <3>2
  <2>3. CASE b = TRUE /\ slv.index = Last
    <3>1. /\ s.state = "SEND_FW_INFO" /\ s.waiting = FALSE /\ s.expired = TRUE
          /\ s.repeat # RepeatMax /\ s.index = slv.index + 1
      BY <1>a, <2>1, <2>3
    <3>2. Ready(s, out)
      BY <1>b, <1>4, <3>1 DEF Ready, Follows, Segmenting, Early
    <3> QED
      BY <1>4, <2>1, <2>3, <3>1, <3>2
  <2>4. CASE b = TRUE /\ slv.index # Last
    <3>1. /\ s.state \in {"SEND_SEG", "ABORT"} /\ s.waiting = FALSE
          /\ s.index <= Last
          /\ s.repeat = RepeatMax => s.state = "ABORT"
          /\ s.index = slv.index \/ (b = TRUE /\ s.index = slv.index + 1)
      BY <1>a, <1>b, <1>4, <2>1, <2>4 DEF Follows
    <3>2. Ready(s, out)
      BY <1>b, <1>4, <3>1 DEF Ready, Follows, Segmenting, Early
    <3> QED
      BY <1>4, <2>1, <3>1, <3>2
  <2> QED
    BY <2>2, <2>3, <2>4
<1> QED
  BY <1>a, <1>b, <1>1, <1>2, <1>3, <1>4 DEF Notify, Segmenting, OutStates

\* The output's own changes at the end of a wait.
LEMMA ReadyKept ==
  ASSUME NEW s \in Slaves, NEW o \in Outputs, NEW p \in Outputs, Ready(s, o),
         \/ p.state = o.state
         \/ p.state = "SEG_DATA" /\ o.state = "SEG_INFO",
         p.state = "SEG_INFO" => p.offset = 0 /\ ~p.last
  PROVE  Ready(s, p)
  BY DEF Ready, Follows

\* What the session and the output are before their turn.
LEMMA RunReady ==
  ASSUME slv \in Slaves, out \in Outputs, Progress, reported = "none"
  PROVE  Ready(slv, out)
  BY DEF Progress, Ready, Follows, Segmenting

LEMMA OutputsAreOutT == OutT = Outputs
  BY DEF OutT, Outputs

\* The switch in step with the loader: s and o are what the output's turn
\* left, and nothing is on the link any more.
LEMMA CoreInStep ==
  ASSUME NEW s \in Slaves, NEW o \in Outputs, Ready(s, o), out \in Outputs,
         Core(s, o) \/ CoreReadFails(s, o), reported = "none", pc' = "run",
         UNCHANGED <<vars, seg>>, toLoader' = toLoader, toMaster' = <<>>,
         toLoader = <<>> \/ power = "app",
         inStep, InOrder, CountedSegmentIsWritten, slv.index \in 1..Last + 1,
         s.index = slv.index
           \/ (s.index = slv.index + 1 /\ main[slv.index] = Firmware),
         m_state = "INIT" =>
           s.index = 1 /\ o.state \in Early
             /\ s.state \notin {"SEND_SEG", "SEND_FW_INFO"},
         m_state = "PREPARING" =>
           s.index = 1 /\ o.state \in Early \cup {"SEG_INFO"}
             /\ s.state # "SEND_FW_INFO",
         out'.state = "SEG_DATA" => ReadFailed' \/ Sent'
  PROVE  InStep'
<1>1. /\ slv'.index = s.index
      /\ out'.state = "SEG_DATA" => out' = o
      /\ out'.state = "SEG_INFO" => o.state = "SEG_INFO" \/ s.state = "SEND_SEG"
      /\ out'.state = "FW_INFO" =>
              o.state = "FW_INFO" \/ s.state = "SEND_FW_INFO"
      /\ out'.state \in OutStates
  <2>1. out'.state \in OutStates
    BY DEF Core, CoreIdle, CoreRequest, CoreFwInfo, CoreSegment,
           CoreSegOverdue, CoreWait, CoreEnd, CoreReadFails, SetRequest,
           SetFwInfo, SetSegFw, Outputs, OutStates
  <2> QED
    BY <2>1, CoreReady
<1>2. /\ main' = main /\ m_state' = m_state /\ power' = power /\ seg' = seg
  BY DEF vars, ramVars, nvVars, envVars
<1>3. OneUnderWay'
  BY <1>2 DEF OneUnderWay
<1>4. InOrder' /\ Announced'
  BY <1>2 DEF InOrder, Announced
<1>5. BeforeSegments'
  BY <1>1, <1>2 DEF BeforeSegments, OutStates, Early
<1>6. \A k \in 1..Last : k < s.index => main[k] = Firmware
  BY ChunkFacts DEF CountedSegmentIsWritten
<1>7. CountedSegmentIsWritten'
  BY <1>1, <1>2, <1>6 DEF CountedSegmentIsWritten
<1> QED
  BY <1>3, <1>4, <1>5, <1>7 DEF InStep

LEMMA WholeMasterSkips == SessionInv /\ WholeInv /\ MasterSkips => WholeInv'
<1> SUFFICES ASSUME SessionInv, WholeInv, MasterSkips PROVE WholeInv'
  OBVIOUS
<1>1. /\ slv \in Slaves /\ out \in Outputs /\ Progress /\ slv.index \in 1..Last + 1
      /\ reported = "none" /\ pc = "run" /\ pc' = "run" /\ Core(slv, out)
      /\ UNCHANGED <<vars, seg>> /\ toLoader' = toLoader /\ toMaster' = toMaster
      /\ UNCHANGED trouble
  BY OutputsAreOutT, SlaveFacts
  DEF WholeInv, SessionTypes, SessionInv, WeakTypes, MasterSkips, linkVars
<1>2. Ready(slv, out)
  BY <1>1, RunReady
<1>3. /\ slv' \in Slaves /\ reported' \in {"none", "success", "failure"}
      /\ Progress' /\ slv'.index = slv.index
      /\ out'.state = "SEG_DATA" =>
           out' = out /\ slv.state = "SEND_SEG"
  <2>1. ~(CoreReadFails(slv, out) /\ out.state = "SEG_DATA")
    BY <1>1 DEF CoreReadFails, Progress, Segmenting
  <2> QED
    BY <1>1, <1>2, <2>1, CoreReady
<1>4. SessionTypes'
  BY <1>1, <1>3 DEF WholeInv, SessionTypes, trouble
<1>5. InStep'
  <2> SUFFICES ASSUME inStep PROVE InStep'
    BY <1>1 DEF InStep, trouble
  <2>1. /\ OneUnderWay /\ InOrder /\ BeforeSegments /\ CountedSegmentIsWritten
        /\ out.state = "SEG_DATA" => ReadFailed \/ Sent
    BY DEF WholeInv, InStep
  <2>2. toMaster' = <<>> /\ (toLoader = <<>> \/ power = "app")
    BY <1>1, <2>1 DEF OneUnderWay
  <2>3. out'.state = "SEG_DATA" => ReadFailed' \/ Sent'
    BY <1>1, <1>3, <2>1, <2>2 DEF ReadFailed, Sent
  <2>4. /\ m_state = "INIT" =>
             slv.index = 1 /\ out.state \in Early
               /\ slv.state \notin {"SEND_SEG", "SEND_FW_INFO"}
        /\ m_state = "PREPARING" =>
             slv.index = 1 /\ out.state \in Early \cup {"SEG_INFO"}
               /\ slv.state # "SEND_FW_INFO"
    BY <1>1, <2>1 DEF BeforeSegments, Progress, Segmenting, Early
  <2> QED
    BY <1>1, <1>2, <2>1, <2>2, <2>3, <2>4, CoreInStep
<1> QED
  BY <1>3, <1>4, <1>5 DEF WholeInv

\* A packet is one of the segment it is announced with.
LEMMA FrameFacts ==
  ASSUME slv \in Slaves, out \in Outputs, Progress, MaySend(slv, out),
         reported = "none",
         NEW o, o = Prepared(slv, out)
  PROVE  /\ o \in Outputs /\ o.state = out.state /\ o.offset = out.offset
         /\ o.last => out.last \/ out.offset + 1 >= SegChunks[slv.index]
         /\ o.state # "SEG_DATA" => o = out
         /\ o.state = "SEG_DATA" => out.offset < SegChunks[slv.index]
         /\ Frame(slv, o) \in Frames /\ Frame(slv, o).cmd = out.state
         /\ out.state # "IDLE"
<1>1. /\ out.offset \in Nat /\ out.state \in OutStates \ {"IDLE"}
      /\ slv.index \in 1..Last + 1
      /\ out.state = "SEG_DATA" => DataLeft(slv, out)
      /\ Segmenting => slv.index \in 1..Last
  BY SlaveFacts DEF Outputs, OutStates, MaySend, Progress
<1>2. /\ o \in Outputs /\ o.state = out.state /\ o.offset = out.offset
      /\ o.last => out.last \/ out.offset + 1 >= SegChunks[slv.index]
      /\ o.state # "SEG_DATA" => o = out
  BY DEF Prepared, Outputs
<1>3. Frame(slv, o) \in Frames
  <2> DEFINE c == IF o.state = "SEG_DATA" THEN o.offset + 1 ELSE 0
             g == IF o.state \in {"SEG_INFO", "SEG_DATA"} THEN slv.index ELSE 0
  <2>1. Frame(slv, o) = [cmd |-> o.state, seg |-> g, chunk |-> c]
    BY DEF Frame
  <2>2. /\ c \in Nat /\ g \in 0..Last /\ o.state \in OutStates \ {"IDLE"}
        /\ c > 0 => g > 0 /\ c <= SegChunks[g]
    BY <1>1, <1>2, ChunkFacts DEF DataLeft, Segmenting
  <2> HIDE DEF c, g
  <2> QED
    BY <2>1, <2>2 DEF Frames
<1>4. Frame(slv, o).cmd = out.state
  BY <1>2 DEF Frame
<1> QED
  BY <1>1, <1>2, <1>3, <1>4 DEF DataLeft

LEMMA WholeMasterSends == SessionInv /\ WholeInv /\ MasterSends => WholeInv'
<1> SUFFICES ASSUME SessionInv, WholeInv, MasterSends PROVE WholeInv'
  OBVIOUS
<1> DEFINE f == Frame(slv, out')
<1>1. /\ slv \in Slaves /\ out \in Outputs /\ Progress /\ toLoader \in Seq(Frames)
      /\ reported = "none" /\ pc = "run" /\ pc' = "sync" /\ slv' = slv
      /\ MaySend(slv, out) /\ out' = Prepared(slv, out) /\ reported' = "none"
      /\ toLoader' = IF power = "app" THEN toLoader ELSE Append(toLoader, f)
      /\ toMaster' = toMaster /\ UNCHANGED <<vars, seg, trouble>>
  BY OutputsAreOutT
  DEF WholeInv, SessionTypes, SessionInv, WeakTypes, MasterSends
<1>2. /\ out'.state = out.state /\ out'.offset = out.offset
      /\ out'.last => out.last \/ out.offset + 1 >= SegChunks[slv.index]
      /\ out'.state # "SEG_DATA" => out' = out
      /\ out'.state = "SEG_DATA" => out.offset < SegChunks[slv.index]
      /\ f \in Frames /\ f.cmd = out.state /\ out.state # "IDLE"
  BY <1>1, FrameFacts
<1> HIDE DEF f
<1>3. SessionTypes'
  BY <1>1, <1>2 DEF WholeInv, SessionTypes, trouble
<1>4. Progress'
  BY <1>1, <1>2 DEF Progress, Follows, Segmenting
<1>5. InStep'
  <2> SUFFICES ASSUME inStep PROVE InStep'
    BY <1>1 DEF InStep, trouble
  <2>1. /\ OneUnderWay /\ InOrder /\ BeforeSegments /\ CountedSegmentIsWritten
        /\ out.state = "SEG_DATA" => ReadFailed \/ Sent
    BY DEF WholeInv, InStep
  <2>2. /\ toMaster' = <<>> /\ (toLoader = <<>> \/ power = "app")
        /\ power' = power /\ main' = main /\ m_state' = m_state /\ seg' = seg
    BY <1>1, <2>1 DEF OneUnderWay, vars, ramVars, nvVars, envVars
  <2>3. OneUnderWay'
    BY <1>1, <1>2, <2>2 DEF OneUnderWay, f
  <2>4. InOrder' /\ Announced' /\ CountedSegmentIsWritten'
    BY <1>1, <2>1, <2>2 DEF InOrder, Announced, CountedSegmentIsWritten
  <2>5. BeforeSegments'
    BY <1>1, <1>2, <2>1, <2>2 DEF BeforeSegments
  <2>6. out.state = "SEG_DATA" => Sent'
    <3> SUFFICES ASSUME out.state = "SEG_DATA" PROVE Sent'
      OBVIOUS
    <3>1. out.offset \in Nat /\ slv.index \in 1..Last
      BY <1>1, SlaveFacts DEF Outputs, Progress, Segmenting
    <3>2. SegChunks[slv.index] \in Nat
      BY <3>1, ChunkFacts
    <3>3. ~ReadFailed
      BY <1>2, <3>1, <3>2 DEF ReadFailed
    <3>4. seg.no = slv.index /\ Len(seg.data) = out.offset
          /\ (out.last => out.offset + 0 >= SegChunks[slv.index])
      BY <1>1, <2>1, <3>3 DEF Sent
    <3>5. out'.last => out.offset + 1 >= SegChunks[slv.index]
      BY <1>2, <3>1, <3>2, <3>4
    <3> QED
      BY <1>1, <1>2, <2>2, <3>4, <3>5 DEF Sent
  <2> QED
    BY <1>2, <2>3, <2>4, <2>5, <2>6 DEF InStep
<1> QED
  BY <1>3, <1>4, <1>5 DEF WholeInv

LEMMA WholeMasterSendFails == SessionInv /\ WholeInv /\ MasterSendFails => WholeInv'
<1> SUFFICES ASSUME SessionInv, WholeInv, MasterSendFails PROVE WholeInv'
  OBVIOUS
<1> DEFINE p == Prepared(slv, out)
           o == Advance(p, out.state)
<1>1. /\ slv \in Slaves /\ out \in Outputs /\ Progress
      /\ reported = "none" /\ pc' = "run" /\ MaySend(slv, out) /\ Core(slv, o)
      /\ UNCHANGED <<toLoader, seg, calm, faults>> /\ late' = late + 1
      /\ late < MaxLate /\ inStep' = FALSE
  BY OutputsAreOutT
  DEF WholeInv, SessionTypes, SessionInv, WeakTypes, MasterSendFails, linkVars
<1>2. /\ p \in Outputs /\ p.state = out.state /\ p.offset = out.offset
      /\ p.state # "SEG_DATA" => p = out
  BY <1>1, FrameFacts
<1> HIDE DEF p
<1>3. /\ o \in Outputs /\ o.state = out.state
      /\ o.state = "SEG_INFO" => o.offset = 0 /\ ~o.last
  <2>1. p.offset + 1 \in Nat
    BY <1>2 DEF Outputs
  <2>2. o \in Outputs /\ o.state = p.state /\ (o.state # "SEG_DATA" => o = p)
    BY <1>2, <2>1 DEF Advance, Outputs
  <2> QED
    BY <1>1, <1>2, <2>2 DEF Progress, Follows
<1> HIDE DEF o
<1>4. Ready(slv, o)
  BY <1>1, <1>3, RunReady, ReadyKept
<1>5. slv' \in Slaves /\ reported' \in {"none", "success", "failure"} /\ Progress'
  BY <1>1, <1>3, <1>4, CoreReady
<1>6. SessionTypes'
  <2>1. late + 1 \in 0..MaxLate
    BY <1>1, SessionAssumption DEF WholeInv, SessionTypes
  <2> QED
    BY <1>1, <1>5, <2>1 DEF WholeInv, SessionTypes
<1>7. InStep'
  BY <1>1 DEF InStep
<1> QED
  BY <1>5, <1>6, <1>7 DEF WholeInv

\* An answer in step with the wait for it, or noise in its place: s and o are
\* what the callback and the output leave.
LEMMA HeardInStep ==
  ASSUME SessionInv, WholeInv, inStep, UNCHANGED <<vars, toLoader, seg>>,
         pc = "sync", pc' = "run", toMaster # <<>>, toMaster' = Tail(toMaster),
         reported = "none",
         NEW s \in Slaves, NEW o \in Outputs, Ready(s, o),
         Core(s, o) \/ CoreReadFails(s, o),
         s.index = slv.index
           \/ /\ s.index = slv.index + 1
              /\ out.state = "SEG_DATA" /\ out.last /\ Head(toMaster).ok,
         Segmenting /\ s.waiting => s = slv,
         s.state = "SEND_SEG" => out.state = "REQUEST" \/ Segmenting,
         s.state = "SEND_FW_INFO" => Segmenting \/ out.state = "FW_INFO",
         out.state = "SEG_DATA" =>
           o.state = "SEG_DATA" /\ o.last = out.last
             /\ o.offset = out.offset + 1,
         o.state = out.state
           \/ /\ o.state = "SEG_DATA" /\ out.state = "SEG_INFO" /\ s = slv
              /\ o.offset = 0 /\ ~o.last
  PROVE  InStep'
<1>1. /\ OneUnderWay /\ InOrder /\ BeforeSegments /\ CountedSegmentIsWritten
      /\ Announced
      /\ out.state = "SEG_DATA" => ReadFailed \/ Sent
  BY DEF WholeInv, InStep
<1>2. /\ out \in Outputs /\ slv \in Slaves /\ Progress
      /\ toMaster \in Seq(Answers) /\ slv.index \in 1..Last + 1
  BY OutputsAreOutT, SlaveFacts
  DEF WholeInv, SessionTypes, SessionInv, WeakTypes
<1>3. toMaster' = <<>> /\ toLoader = <<>>
  BY <1>1, <1>2 DEF OneUnderWay
<1>4. out.state = "SEG_DATA" =>
        /\ seg.no = slv.index /\ Len(seg.data) = out.offset + 1
        /\ out.last => out.offset + 1 >= SegChunks[slv.index]
        /\ out.last /\ Head(toMaster).ok => main[slv.index] = Firmware
  BY <1>1 DEF Sent, ReadFailed
<1>5. /\ s.index = slv.index
           \/ (s.index = slv.index + 1 /\ main[slv.index] = Firmware)
  BY <1>4
<1>6. /\ m_state = "INIT" => FALSE
      /\ m_state = "PREPARING" =>
           s.index = 1 /\ out.state = "REQUEST" /\ o.state = "REQUEST"
             /\ s.state # "SEND_FW_INFO"
  BY <1>1, <1>2 DEF BeforeSegments, Early, Progress, Segmenting
<1>7. /\ slv'.index = s.index
      /\ out'.state = "SEG_DATA" =>
           /\ out' = o
           /\ \/ s.state = "SEND_SEG" /\ s.waiting
              \/ CoreReadFails(s, o)
  BY CoreReady
<1>8. ASSUME out'.state = "SEG_DATA" PROVE ReadFailed' \/ Sent'
  <2>1. o.state = "SEG_DATA" /\ out' = o /\ Segmenting /\ slv.index \in 1..Last
    BY <1>2, <1>7, <1>8 DEF Segmenting, Progress
  <2>2. out.offset \in Nat /\ SegChunks[slv.index] \in Nat
    BY <1>2, <2>1, ChunkFacts DEF Outputs
  <2>3. main' = main
    BY DEF vars, nvVars
  <2>4. CASE s = slv /\ out.state = "SEG_DATA"
    BY <1>3, <1>4, <1>7, <1>8, <2>1, <2>2, <2>3, <2>4 DEF Sent
  <2>5. CASE s = slv /\ out.state = "SEG_INFO"
    <3>1. seg = [no |-> slv.index, data |-> <<>>]
      BY <1>1, <2>5 DEF Announced
    <3>2. o.offset = 0 /\ ~o.last
      BY <2>1, <2>5
    <3> QED
      BY <1>3, <1>7, <1>8, <2>1, <2>5, <3>1, <3>2 DEF Sent
  <2>6. CASE s # slv
    <3>1. ~s.waiting /\ CoreReadFails(s, o)
      BY <1>7, <1>8, <2>1, <2>6
    <3>2. out.state = "SEG_DATA" /\ o.offset = out.offset + 1 /\ o.last = out.last
      BY <2>1, <2>6
    <3>3. slv'.state = "ABORT" /\ s.state = "SEND_SEG" /\ s.index \in 1..Last
      BY <3>1, SlaveFacts DEF CoreReadFails, Slaves, Ready, Follows
    <3>4. CASE s.index = slv.index
      BY <1>3, <1>4, <1>7, <1>8, <2>1, <2>2, <2>3, <3>2, <3>4 DEF Sent
    <3>5. CASE s.index = slv.index + 1 /\ out.last
      <4>1. /\ SegChunks[s.index] <= SegChunks[slv.index]
            /\ SegChunks[s.index] \in Nat
        <5>1. slv.index \in 1..Last - 1
          BY <2>1, <3>3, <3>5, ChunkFacts
        <5> QED
          BY <3>3, <3>5, <5>1, ChunkFacts
      <4>2. out.offset + 1 >= SegChunks[slv.index]
        BY <1>4, <3>2, <3>5
      <4>3. o.offset >= SegChunks[s.index]
        BY <2>2, <3>2, <4>1, <4>2
      <4> QED
        BY <1>7, <2>1, <3>3, <4>3 DEF ReadFailed
    <3> QED
      BY <3>4, <3>5
  <2> QED
    BY <1>8, <2>1, <2>4, <2>5, <2>6 DEF Segmenting
<1>9. UNCHANGED <<vars, seg>> /\ toLoader' = toLoader
  OBVIOUS
<1> QED
  BY <1>1, <1>2, <1>3, <1>5, <1>6, <1>8, <1>9, CoreInStep DEF Early

\* What sm_host_cmd_callback leaves.
LEMMA HeardReady ==
  ASSUME slv \in Slaves, out \in Outputs, Progress, pc = "sync",
         NEW a \in Answers, NEW s, s = CallbackSlave(slv, out, a),
         NEW o, o = Advance(CallbackOutput(out, a), out.state)
  PROVE  /\ s \in Slaves /\ o \in Outputs /\ Ready(s, o)
         /\ s.index = slv.index
              \/ /\ s.index = slv.index + 1
                 /\ out.state = "SEG_DATA" /\ out.last /\ a.ok
         /\ Segmenting /\ s.waiting => s = slv
         /\ s.state = "SEND_SEG" => out.state = "REQUEST" \/ Segmenting
         /\ s.state = "SEND_FW_INFO" => Segmenting \/ out.state = "FW_INFO"
         /\ out.state = "SEG_DATA" =>
              o.state = "SEG_DATA" /\ o.last = out.last
                /\ o.offset = out.offset + 1
         /\ o.state = out.state
              \/ /\ o.state = "SEG_DATA" /\ out.state = "SEG_INFO" /\ s = slv
                 /\ o.offset = 0 /\ ~o.last
<1>1. PICK b \in BOOLEAN :
        /\ s = slv \/ s = Notify(slv, out, b)
        /\ b = TRUE => \/ out.state \in {"REQUEST", "FW_INFO"}
                       \/ out.state = "SEG_DATA" /\ out.last /\ a.ok
        /\ out.state = "SEG_INFO" /\ a.ok => s = slv
  <2>1. CASE a.cmd = "REQUEST" /\ out.state = "REQUEST"
    BY <2>1 DEF CallbackSlave
  <2>2. CASE ~(a.cmd = "REQUEST" /\ out.state = "REQUEST") /\ ~a.ok
    BY <2>2 DEF CallbackSlave
  <2>3. CASE ~(a.cmd = "REQUEST" /\ out.state = "REQUEST") /\ a.ok
    <3>1. \/ s = slv
          \/ /\ s = Notify(slv, out, TRUE)
             /\ \/ out.state = "SEG_DATA" /\ out.last
                \/ out.state = "FW_INFO"
      BY <2>3 DEF CallbackSlave
    <3> QED
      BY <2>3, <3>1
  <2> QED
    BY <2>1, <2>2, <2>3
<1>2. /\ s \in Slaves /\ Ready(s, out)
      /\ s.index = slv.index \/ (b = TRUE /\ s.index = slv.index + 1 /\ Segmenting)
      /\ Segmenting /\ s.waiting => s = slv
      /\ s.state = "SEND_SEG" => out.state = "REQUEST" \/ Segmenting
      /\ s.state = "SEND_FW_INFO" => Segmenting \/ out.state = "FW_INFO"
  BY <1>1, NotifiedReady
<1>3. /\ out.offset + 1 \in Nat /\ "SEG_DATA" \in OutStates
      /\ out.state = "SEG_INFO" => out.offset = 0 /\ ~out.last
  BY DEF Outputs, OutStates, Progress, Follows
<1>4. /\ o \in Outputs
      /\ out.state = "SEG_DATA" => o = [out EXCEPT !.offset = out.offset + 1]
      /\ out.state # "SEG_DATA" =>
           \/ o = out
           \/ /\ o = [out EXCEPT !.state = "SEG_DATA"] /\ out.state = "SEG_INFO"
              /\ a.ok
  BY <1>3 DEF CallbackOutput, Advance, Outputs
<1>5. /\ out.state = "SEG_DATA" =>
           o.state = "SEG_DATA" /\ o.last = out.last
             /\ o.offset = out.offset + 1
      /\ o.state = out.state
           \/ /\ o.state = "SEG_DATA" /\ out.state = "SEG_INFO" /\ s = slv
              /\ o.offset = 0 /\ ~o.last
      /\ o.state = "SEG_INFO" => o.offset = 0 /\ ~o.last
  BY <1>1, <1>3, <1>4 DEF Outputs
<1>6. Ready(s, o)
  BY <1>2, <1>4, <1>5, ReadyKept
<1>7. s.index = slv.index
        \/ /\ s.index = slv.index + 1
           /\ out.state = "SEG_DATA" /\ out.last /\ a.ok
  BY <1>1, <1>2 DEF Segmenting
<1> QED
  BY <1>2, <1>4, <1>5, <1>6, <1>7

LEMMA FaultTypes ==
  ASSUME WholeInv, Fault
  PROVE  faults' \in 0..MaxFaults /\ calm' = calm /\ late' = late
           /\ inStep' = inStep
  BY SessionAssumption DEF Fault, WholeInv, SessionTypes

LEMMA WholeMasterHears == SessionInv /\ WholeInv /\ MasterHears => WholeInv'
<1> SUFFICES ASSUME SessionInv, WholeInv, MasterHears PROVE WholeInv'
  OBVIOUS
<1> DEFINE a == Head(toMaster)
           s == CallbackSlave(slv, out, a)
           o == Advance(CallbackOutput(out, a), out.state)
<1>1. /\ slv \in Slaves /\ out \in Outputs /\ Progress
      /\ reported = "none" /\ pc = "sync" /\ pc' = "run"
      /\ Core(s, o) \/ CoreReadFails(s, o)
      /\ UNCHANGED trouble \/ Fault
      /\ UNCHANGED <<vars, toLoader, seg>>
      /\ toMaster # <<>> /\ toMaster' = Tail(toMaster) /\ a \in Answers
  BY OutputsAreOutT, Shorter
  DEF WholeInv, SessionTypes, SessionInv, WeakTypes, Phases, MasterHears
<1>2. /\ s \in Slaves /\ o \in Outputs /\ Ready(s, o)
      /\ s.index = slv.index
           \/ /\ s.index = slv.index + 1
              /\ out.state = "SEG_DATA" /\ out.last /\ a.ok
      /\ Segmenting /\ s.waiting => s = slv
      /\ s.state = "SEND_SEG" => out.state = "REQUEST" \/ Segmenting
      /\ s.state = "SEND_FW_INFO" => Segmenting \/ out.state = "FW_INFO"
      /\ out.state = "SEG_DATA" =>
           o.state = "SEG_DATA" /\ o.last = out.last
             /\ o.offset = out.offset + 1
      /\ o.state = out.state
           \/ /\ o.state = "SEG_DATA" /\ out.state = "SEG_INFO" /\ s = slv
              /\ o.offset = 0 /\ ~o.last
  BY <1>1, HeardReady
<1> HIDE DEF s, o
<1>3. slv' \in Slaves /\ reported' \in {"none", "success", "failure"} /\ Progress'
  BY <1>1, <1>2, CoreReady
<1>4. /\ faults' \in 0..MaxFaults /\ calm' = calm /\ late' = late
      /\ inStep' = inStep
  BY <1>1, FaultTypes DEF trouble, WholeInv, SessionTypes
<1>5. SessionTypes'
  BY <1>1, <1>3, <1>4 DEF WholeInv, SessionTypes
<1>6. InStep'
  <2>1. CASE inStep
    BY <1>1, <1>2, <2>1, HeardInStep
  <2>2. CASE ~inStep
    BY <1>4, <2>2 DEF InStep
  <2> QED
    BY <2>1, <2>2
<1> QED
  BY <1>3, <1>5, <1>6 DEF WholeInv

\* The output moves on without a callback.
LEMMA AdvancedReady ==
  ASSUME out \in Outputs, NEW s \in Slaves, Ready(s, out),
         NEW o, o = Advance(out, out.state)
  PROVE  /\ o \in Outputs /\ o.state = out.state /\ o.last = out.last
         /\ out.state = "SEG_DATA" => o.offset = out.offset + 1
         /\ Ready(s, o)
<1>1. out.offset + 1 \in Nat
  BY DEF Outputs
<1>2. /\ o \in Outputs /\ o.state = out.state /\ o.last = out.last
      /\ out.state = "SEG_DATA" => o.offset = out.offset + 1
      /\ out.state # "SEG_DATA" => o = out
  BY <1>1 DEF Advance, Outputs
<1> QED
  BY <1>2 DEF Ready, Follows

LEMMA WholeMasterHearsNoise ==
  SessionInv /\ WholeInv /\ MasterHearsNoise => WholeInv'
<1> SUFFICES ASSUME SessionInv, WholeInv, MasterHearsNoise PROVE WholeInv'
  OBVIOUS
<1> DEFINE o == Advance(out, out.state)
<1>1. /\ slv \in Slaves /\ out \in Outputs /\ Progress
      /\ reported = "none" /\ pc = "sync" /\ pc' = "run"
      /\ Core(slv, o) /\ Fault
      /\ UNCHANGED <<vars, toLoader, seg>>
      /\ toMaster # <<>> /\ toMaster' = Tail(toMaster)
  BY OutputsAreOutT
  DEF WholeInv, SessionTypes, SessionInv, WeakTypes, Phases, MasterHearsNoise
<1>2. /\ o \in Outputs /\ Ready(slv, o)
      /\ o.state = out.state /\ o.last = out.last
      /\ out.state = "SEG_DATA" => o.offset = out.offset + 1
  BY <1>1, RunReady, AdvancedReady
<1>a. /\ slv.state = "SEND_SEG" => out.state = "REQUEST" \/ Segmenting
      /\ slv.state = "SEND_FW_INFO" => Segmenting \/ out.state = "FW_INFO"
  BY <1>1 DEF Progress, Follows, Outputs, OutStates, Segmenting, Early
<1> HIDE DEF o
<1>3. slv' \in Slaves /\ reported' \in {"none", "success", "failure"} /\ Progress'
  BY <1>1, <1>2, CoreReady
<1>4. /\ faults' \in 0..MaxFaults /\ calm' = calm /\ late' = late
      /\ inStep' = inStep
  BY <1>1, FaultTypes
<1>5. SessionTypes'
  BY <1>1, <1>3, <1>4 DEF WholeInv, SessionTypes
<1>6. InStep'
  <2>1. CASE inStep
    BY <1>1, <1>2, <1>a, <2>1, HeardInStep
  <2>2. CASE ~inStep
    BY <1>4, <2>2 DEF InStep
  <2> QED
    BY <2>1, <2>2
<1> QED
  BY <1>3, <1>5, <1>6 DEF WholeInv

\* A wait that ended without an answer is a failure of the segment, which is
\* announced again or given up; so nothing of it is taken for sent.
LEMMA WholeMasterTimesOut ==
  SessionInv /\ WholeInv /\ MasterTimesOut => WholeInv'
<1> SUFFICES ASSUME SessionInv, WholeInv, MasterTimesOut PROVE WholeInv'
  OBVIOUS
<1> DEFINE s == TimedOutSlave(slv, out)
           p == IF out.state = "SEG_INFO" /\ out.retry < RetryMax
                  THEN [out EXCEPT !.retry = out.retry + 1] ELSE out
           o == TimedOutOutput(out)
<1>1. /\ slv \in Slaves /\ out \in Outputs /\ Progress
      /\ reported = "none" /\ pc = "sync" /\ pc' = "run" /\ Core(s, o)
      /\ \/ ~AnswerMayCome /\ UNCHANGED <<late, inStep>>
         \/ late < MaxLate /\ late' = late + 1 /\ inStep' = FALSE
      /\ UNCHANGED <<vars, toLoader, toMaster, seg, calm, faults>>
  BY OutputsAreOutT
  DEF WholeInv, SessionTypes, SessionInv, WeakTypes, Phases, MasterTimesOut,
      linkVars
<1>2. /\ s \in Slaves /\ Ready(s, out) /\ s.index = slv.index
      /\ out.state = "SEG_DATA" => ~s.waiting \/ s.state # "SEND_SEG"
      /\ s.state = "SEND_SEG" => out.state = "REQUEST" \/ Segmenting
      /\ s.state = "SEND_FW_INFO" => Segmenting \/ out.state = "FW_INFO"
  <2>1. s = slv \/ s = Notify(slv, out, FALSE)
    BY DEF TimedOutSlave
  <2>2. /\ s \in Slaves /\ Ready(s, out) /\ s.index = slv.index
        /\ s.state = "SEND_SEG" => out.state = "REQUEST" \/ Segmenting
        /\ s.state = "SEND_FW_INFO" => Segmenting \/ out.state = "FW_INFO"
    BY <1>1, <2>1, NotifiedReady
  <2>3. ASSUME out.state = "SEG_DATA" PROVE ~s.waiting
    <3>1. s = ConfirmSeg(slv, FALSE)
      BY <2>3 DEF TimedOutSlave, Notify
    <3>2. slv.index <= Last
      BY <1>1, <2>3 DEF Progress, Segmenting
    <3> QED
      BY <1>1, <3>1, <3>2, ConfirmSegFacts
  <2> QED
    BY <2>2, <2>3
<1>3. /\ p \in Outputs /\ p.state = out.state /\ p.offset = out.offset
      /\ p.last = out.last /\ o = Advance(p, p.state)
  <2>1. out.retry + 1 \in Nat
    BY <1>1 DEF Outputs
  <2>2. /\ p \in Outputs /\ p.state = out.state /\ p.offset = out.offset
        /\ p.last = out.last
    BY <1>1, <2>1 DEF Outputs
  <2> QED
    BY <2>2 DEF TimedOutOutput
<1> HIDE DEF s, p
<1>4. o \in Outputs /\ Ready(s, o) /\ o.state = out.state
  <2>1. p.offset + 1 \in Nat
    BY <1>3 DEF Outputs
  <2>2. o \in Outputs /\ o.state = out.state
          /\ (o.state # "SEG_DATA" => o = p)
    BY <1>3, <2>1 DEF Advance, Outputs
  <2> QED
    BY <1>2, <1>3, <2>2 DEF Ready, Follows
<1> HIDE DEF o
<1>5. /\ slv' \in Slaves /\ reported' \in {"none", "success", "failure"}
      /\ Progress'
      /\ out'.state = "SEG_DATA" =>
           /\ out' = o
           /\ \/ s.state = "SEND_SEG" /\ s.waiting
              \/ CoreReadFails(s, o)
  BY <1>1, <1>2, <1>4, CoreReady
<1>6. SessionTypes'
  <2>1. late' \in 0..MaxLate /\ inStep' \in BOOLEAN
    <3>1. /\ late \in 0..MaxLate /\ inStep \in BOOLEAN
          /\ late < MaxLate => late + 1 \in 0..MaxLate
      BY SessionAssumption DEF WholeInv, SessionTypes
    <3>2. CASE UNCHANGED <<late, inStep>>
      BY <3>1, <3>2
    <3>3. CASE late < MaxLate /\ late' = late + 1 /\ inStep' = FALSE
      BY <3>1, <3>3
    <3> QED
      BY <1>1, <3>2, <3>3
  <2> QED
    BY <1>1, <1>5, <2>1 DEF WholeInv, SessionTypes
<1>7. out'.state # "SEG_DATA"
  <2> SUFFICES ASSUME out'.state = "SEG_DATA" PROVE FALSE
    OBVIOUS
  <2>1. out.state = "SEG_DATA" /\ ~s.waiting /\ s.state = "SEND_SEG" /\ out' = o
    <3>1. out' = o /\ out.state = "SEG_DATA"
      BY <1>4, <1>5
    <3>2. CoreReadFails(s, o)
      BY <1>2, <1>5, <3>1
    <3> QED
      BY <3>1, <3>2 DEF CoreReadFails
  <2>2. out'.state = "SEG_INFO"
    BY <1>1, <1>4, <2>1
    DEF Core, CoreIdle, CoreRequest, CoreFwInfo, CoreSegment, CoreSegOverdue,
        CoreWait, CoreEnd, SetSegFw, Outputs
  <2> QED
    BY <2>2
<1>8. InStep'
  <2> SUFFICES ASSUME inStep, inStep' PROVE InStep'
    BY <1>1 DEF InStep, WholeInv, SessionTypes
  <2>1. /\ OneUnderWay /\ InOrder /\ BeforeSegments /\ CountedSegmentIsWritten
    BY DEF WholeInv, InStep
  <2>2. toMaster = <<>> /\ (toLoader = <<>> \/ power = "app")
    BY <1>1 DEF AnswerMayCome
  <2>3. /\ m_state = "INIT" =>
             s.index = 1 /\ o.state \in Early
               /\ s.state \notin {"SEND_SEG", "SEND_FW_INFO"}
        /\ m_state = "PREPARING" =>
             s.index = 1 /\ o.state \in Early \cup {"SEG_INFO"}
               /\ s.state # "SEND_FW_INFO"
    <3>1. out.state = "REQUEST" => s = slv
      BY <1>1 DEF TimedOutSlave, s
    <3>2. Segmenting => s.index <= Last /\ out.state \in {"SEG_INFO", "SEG_DATA"}
      BY <1>1, <1>2 DEF Progress, Segmenting
    <3>3. Segmenting => s.state \in {"SEND_SEG", "ABORT"}
      <4>1. Segmenting => s = slv \/ s = ConfirmSeg(slv, FALSE)
        BY DEF TimedOutSlave, Notify, Segmenting, s
      <4> QED
        BY <1>1, <4>1, ConfirmSegFacts DEF Progress
    <3> QED
      BY <1>1, <1>2, <1>4, <2>1, <3>1, <3>2, <3>3
      DEF BeforeSegments, Early, Progress, Segmenting
  <2>4. slv.index \in 1..Last + 1 /\ toLoader' = toLoader /\ toMaster' = <<>>
    BY <1>1, <2>2, SlaveFacts
  <2>5. UNCHANGED <<vars, seg>>
    BY <1>1
  <2> QED
    BY <1>1, <1>2, <1>4, <1>7, <2>1, <2>2, <2>3, <2>4, <2>5, CoreInStep
<1> QED
  BY <1>5, <1>6, <1>8 DEF WholeInv

LEMMA WholeMasterTimerExpires ==
  SessionInv /\ WholeInv /\ MasterTimerExpires => WholeInv'
<1> SUFFICES ASSUME SessionInv, WholeInv, MasterTimerExpires PROVE WholeInv'
  OBVIOUS
<1>1. /\ slv' = [slv EXCEPT !.expired = TRUE] /\ slv \in Slaves
      /\ UNCHANGED <<vars, out, reported, pc, linkVars, seg, trouble>>
  BY DEF WholeInv, SessionTypes, MasterTimerExpires
<1>2. /\ slv' \in Slaves /\ slv'.state = slv.state /\ slv'.repeat = slv.repeat
      /\ slv'.waiting = slv.waiting /\ slv'.index = slv.index
  BY <1>1 DEF Slaves
<1>3. SessionTypes' /\ Progress'
  BY <1>1, <1>2 DEF WholeInv, SessionTypes, Progress, Follows, Segmenting,
     linkVars, trouble
<1>4. Frame(slv', out') = Frame(slv, out)
  BY <1>1, <1>2 DEF Frame
<1>5. InStep'
  BY <1>1, <1>2, <1>4
  DEF WholeInv, InStep, OneUnderWay, InOrder, Announced, ReadFailed, Sent,
      BeforeSegments, CountedSegmentIsWritten, linkVars, trouble, vars, ramVars,
      nvVars, envVars
<1> QED
  BY <1>2, <1>3, <1>5 DEF WholeInv

-----------------------------------------------------------------------------
\* The loader's part and the link's.

LEMMA SingleTail ==
  ASSUME NEW S, NEW q \in Seq(S), Len(q) = 1
  PROVE  Tail(q) = <<>>
<1>1. q # <<>>
  OBVIOUS
<1>2. Tail(q) \in Seq(S) /\ Len(Tail(q)) = 0
  BY <1>1, Shorter
<1> QED
  BY <1>2, EmptySeq

\* A step that leaves the master alone and the loader's flash as it is, or
\* changes it where no segment has been counted.
LEMMA QuietStep ==
  ASSUME SessionInv, WholeInv, UNCHANGED masterVars, seg' = seg,
         inStep' = inStep, calm' \in BOOLEAN,
         faults' \in 0..MaxFaults, late' \in 0..MaxLate,
         \/ toLoader' = toLoader
         \/ toLoader # <<>> /\ toLoader' = Tail(toLoader),
         \/ toMaster' = toMaster
         \/ toMaster # <<>> /\ toMaster' = Tail(toMaster),
         power = "app" => power' = "app",
         m_state' \in {"INIT", "PREPARING"} => m_state' = m_state,
         main' = main \/ m_state \in {"INIT", "PREPARING"}
  PROVE  WholeInv'
<1>1. /\ UNCHANGED <<slv, out, reported, pc>> /\ toLoader \in Seq(Frames)
      /\ toMaster \in Seq(Answers)
  BY DEF masterVars, WholeInv, SessionTypes, SessionInv, WeakTypes
<1>2. SessionTypes'
  BY <1>1, Shorter DEF WholeInv, SessionTypes
<1>3. Progress'
  BY <1>1 DEF WholeInv, Progress, Follows, Segmenting
<1>4. InStep'
  <2> SUFFICES ASSUME inStep PROVE InStep'
    BY DEF InStep
  <2>1. /\ OneUnderWay /\ InOrder /\ BeforeSegments /\ CountedSegmentIsWritten
        /\ Announced
        /\ out.state = "SEG_DATA" => ReadFailed \/ Sent
    BY DEF WholeInv, InStep
  <2>2. /\ toMaster' # <<>> => toMaster' = toMaster
        /\ toLoader' # <<>> /\ power' # "app"
             => toLoader' = toLoader /\ power # "app"
    <3>1. toMaster # <<>> => Tail(toMaster) = <<>>
      BY <1>1, <2>1, SingleTail DEF OneUnderWay
    <3>2. toLoader # <<>> /\ power # "app" => Tail(toLoader) = <<>>
      BY <1>1, <2>1, SingleTail DEF OneUnderWay
    <3> QED
      BY <3>1, <3>2
  <2>3. Frame(slv', out') = Frame(slv, out)
    BY <1>1
  <2>4. OneUnderWay'
    <3>1. toMaster' # <<>> => toLoader' = <<>>
      BY <1>1, <2>1, <2>2 DEF OneUnderWay
    <3> QED
      BY <1>1, <2>1, <2>2, <2>3, <3>1 DEF OneUnderWay
  <2>5. InOrder' /\ Announced'
    BY <1>1, <2>1, <2>2 DEF InOrder, Announced
  <2>6. BeforeSegments'
    BY <1>1, <2>1, <2>2 DEF BeforeSegments
  <2>7. CountedSegmentIsWritten'
    <3>1. slv.index = 1 \/ main' = main
      BY <2>1 DEF BeforeSegments
    <3> QED
      BY <1>1, <2>1, <3>1 DEF CountedSegmentIsWritten
  <2>8. out.state = "SEG_DATA" => ReadFailed' \/ Sent'
    <3> SUFFICES ASSUME out.state = "SEG_DATA" PROVE ReadFailed' \/ Sent'
      OBVIOUS
    <3>1. main' = main
      BY <2>1 DEF BeforeSegments, Early
    <3> QED
      BY <1>1, <2>1, <2>2, <3>1 DEF ReadFailed, Sent
  <2> QED
    BY <1>1, <2>4, <2>5, <2>6, <2>7, <2>8 DEF InStep
<1> QED
  BY <1>2, <1>3, <1>4 DEF WholeInv

LEMMA WholeLoaderSteps == SessionInv /\ WholeInv /\ LoaderSteps => WholeInv'
<1> SUFFICES ASSUME SessionInv, WholeInv, LoaderSteps PROVE WholeInv'
  OBVIOUS
<1>1. /\ UNCHANGED masterVars /\ toLoader' = toLoader /\ toMaster' = toMaster
      /\ seg' = seg /\ inStep' = inStep /\ calm' \in BOOLEAN
      /\ faults' \in 0..MaxFaults /\ late' \in 0..MaxLate
      /\ \/ ProcessInit \/ ProcessPreparing \/ WaitingTimer
         \/ UpgradingTimer \/ ProcessFinish \/ ProcessFailure
  BY DEF LoaderSteps, sessionVars, linkVars, trouble, WholeInv, SessionTypes
<1>2. /\ power = "app" => power' = "app"
      /\ m_state' \in {"INIT", "PREPARING"} => m_state' = m_state
      /\ main' = main \/ m_state \in {"INIT", "PREPARING"}
  BY <1>1 DEF ProcessInit, ProcessPreparing, WaitingTimer, UpgradingTimer,
     ProcessFinish, ProcessFailure, nvVars, ramVars
<1> QED
  BY <1>1, <1>2, QuietStep

LEMMA WholeOthers ==
  SessionInv /\ WholeInv
      /\ (LoaderTimerExpires \/ LoaderLosesPower \/ Lose \/ CalmEnds)
    => WholeInv'
<1> SUFFICES ASSUME SessionInv, WholeInv,
                    LoaderTimerExpires \/ LoaderLosesPower \/ Lose \/ CalmEnds
             PROVE  WholeInv'
  OBVIOUS
<1>1. /\ UNCHANGED masterVars /\ seg' = seg /\ inStep' = inStep
      /\ toLoader' = toLoader \/ (toLoader # <<>> /\ toLoader' = Tail(toLoader))
      /\ toMaster' = toMaster \/ (toMaster # <<>> /\ toMaster' = Tail(toMaster))
      /\ power = "app" => power' = "app"
      /\ m_state' = m_state /\ main' = main
  BY DEF LoaderTimerExpires, TimerExpires, LoaderLosesPower, PowerLoss, Lose,
     CalmEnds, Fault, sessionVars, trouble, linkVars, vars, ramVars, nvVars,
     envVars
<1>2. calm' \in BOOLEAN /\ faults' \in 0..MaxFaults /\ late' \in 0..MaxLate
  BY FaultTypes
  DEF LoaderTimerExpires, LoaderLosesPower, Lose, CalmEnds, sessionVars,
      trouble, WholeInv, SessionTypes
<1> QED
  BY <1>1, <1>2, QuietStep

LEMMA WholeLoaderRestarts ==
  SessionInv /\ WholeInv /\ LoaderRestarts => WholeInv'
<1> SUFFICES ASSUME SessionInv, WholeInv, LoaderRestarts PROVE WholeInv'
  OBVIOUS
<1>1. /\ UNCHANGED masterVars /\ toLoader' = <<>> /\ seg' = NoSegment
      /\ inStep' = FALSE /\ UNCHANGED <<calm, faults, late>>
  BY DEF LoaderRestarts
<1>2. seg' \in SegmentBuffers
  <2>1. <<>> \in Seq((0..Last) \X Nat) /\ 0 \in 0..Last
    BY ChunkFacts
  <2> QED
    BY <1>1, <2>1 DEF NoSegment, SegmentBuffers
<1>3. <<>> \in Seq(Frames)
  OBVIOUS
<1>4. SessionTypes' /\ Progress'
  BY <1>1, <1>2, <1>3
  DEF WholeInv, SessionTypes, Progress, Follows, Segmenting, masterVars
<1> QED
  BY <1>1, <1>4 DEF WholeInv, InStep

\* The packets of a segment, one more.
LEMMA PacketsFacts ==
  ASSUME NEW k \in 1..Last, NEW n \in Nat
  PROVE  /\ Packets(k, n) \in Seq((0..Last) \X Nat) /\ Len(Packets(k, n)) = n
         /\ Append(Packets(k, n), <<k, n + 1>>) = Packets(k, n + 1)
<1>1. \A m \in Nat : /\ Packets(k, m) \in Seq((0..Last) \X Nat)
                     /\ Len(Packets(k, m)) = m
                     /\ \A c \in 1..m : Packets(k, m)[c] = <<k, c>>
  BY ChunkFacts DEF Packets
<1> DEFINE a == Append(Packets(k, n), <<k, n + 1>>)
           b == Packets(k, n + 1)
<1>2. <<k, n + 1>> \in (0..Last) \X Nat
  BY ChunkFacts
<1>3. /\ a \in Seq((0..Last) \X Nat) /\ Len(a) = n + 1
      /\ \A c \in 1..n + 1 : a[c] = <<k, c>>
  <2> DEFINE p == Packets(k, n)
             x == <<k, n + 1>>
  <2>1. /\ p \in Seq((0..Last) \X Nat) /\ Len(p) = n
        /\ \A c \in 1..n : p[c] = <<k, c>>
    BY <1>1
  <2>2. x \in (0..Last) \X Nat /\ a = Append(p, x)
    BY <1>2
  <2> HIDE DEF p, x, a
  <2>3. /\ a \in Seq((0..Last) \X Nat) /\ Len(a) = n + 1
        /\ \A c \in 1..n : a[c] = p[c]
        /\ a[n + 1] = x
    BY <2>1, <2>2
  <2>4. ASSUME NEW c \in 1..n + 1 PROVE a[c] = <<k, c>>
    <3>1. CASE c = n + 1
      BY <2>3, <3>1 DEF x
    <3>2. CASE c \in 1..n
      BY <2>1, <2>3, <3>2
    <3> QED
      BY <3>1, <3>2
  <2> QED
    BY <2>3, <2>4
<1>4. /\ b \in Seq((0..Last) \X Nat) /\ Len(b) = n + 1
      /\ \A c \in 1..n + 1 : b[c] = <<k, c>>
  <2>1. n + 1 \in Nat
    OBVIOUS
  <2> QED
    BY <1>1, <2>1
<1>5. a = b
  BY <1>3, <1>4, SeqEqual
<1> QED
  BY <1>1, <1>5

\* What sm_boot_cmd_handle makes of any command leaves the types.
LEMMA HandledTypes ==
  ASSUME WholeInv, NEW f \in Frames, Handle(f)
  PROVE  seg' \in SegmentBuffers
<1>1. seg \in SegmentBuffers /\ f.seg \in 0..Last /\ f.chunk \in Nat
  BY DEF WholeInv, SessionTypes, Frames
<1>2. CASE seg' = seg
  BY <1>1, <1>2
<1>3. CASE HandleSegInfo(f)
  <2>1. <<>> \in Seq((0..Last) \X Nat)
    OBVIOUS
  <2> QED
    BY <1>1, <1>3, <2>1 DEF HandleSegInfo, SegmentBuffers
<1>4. CASE HandleSegData(f)
  <2>1. Append(seg.data, <<f.seg, f.chunk>>) \in Seq((0..Last) \X Nat)
    BY <1>1 DEF SegmentBuffers
  <2>2. Filled(seg, f) \in SegmentBuffers
    BY <1>1, <2>1 DEF Filled, SegmentBuffers
  <2> QED
    BY <1>4, <2>2 DEF HandleSegData
<1> QED
  BY <1>2, <1>3, <1>4 DEF Handle, HandleRequest, HandleFwInfo

\* The loader is polled while it waits or upgrades.
LEMMA PolledState ==
  ASSUME WaitingPolled(1) \/ UpgradingPolled
  PROVE  m_state \in {"WAITING", "UPGRADING"} /\ power = "boot" /\ power' = "boot"
  BY DEF WaitingPolled, UpgradingPolled

\* A command handled in step: what it announces or carries is what the
\* master's output is at.
LEMMA HandledInStep ==
  ASSUME SessionInv, WholeInv, inStep, IndInv, UNCHANGED masterVars,
         inStep' = inStep,
         WaitingPolled(1) \/ UpgradingPolled,
         toLoader # <<>>, toLoader' = Tail(toLoader), Handle(Head(toLoader))
  PROVE  InStep'
<1> DEFINE f == Frame(slv, out)
<1>1. /\ OneUnderWay /\ InOrder /\ BeforeSegments /\ CountedSegmentIsWritten
      /\ Announced
      /\ out.state = "SEG_DATA" => ReadFailed \/ Sent
  BY DEF WholeInv, InStep
<1>2. /\ m_state \in {"WAITING", "UPGRADING"} /\ power = "boot" /\ power' = "boot"
  BY PolledState
<1>3. /\ pc = "sync" /\ Head(toLoader) = f /\ toLoader' = <<>> /\ toMaster = <<>>
      /\ toLoader \in Seq(Frames)
      /\ UNCHANGED <<slv, out, reported, pc>>
  BY <1>1, <1>2, SingleTail
  DEF OneUnderWay, WholeInv, SessionTypes, masterVars
<1>4. /\ slv \in Slaves /\ out \in Outputs /\ Progress /\ seg \in SegmentBuffers
      /\ slv.index \in 1..Last + 1 /\ f.cmd = out.state
  BY OutputsAreOutT, SlaveFacts
  DEF WholeInv, SessionTypes, SessionInv, WeakTypes, Frame
<1>5. Handle(f)
  BY <1>3
\* What the four cases have in common.
<1>6. ASSUME NEW b, toMaster' = Append(toMaster, [cmd |-> out.state, ok |-> b]),
             InOrder', CountedSegmentIsWritten', BeforeSegments',
             out.state = "SEG_INFO" =>
               seg' = [no |-> slv.index, data |-> <<>>],
             out.state = "SEG_DATA" =>
               /\ seg'.no = slv.index /\ Len(seg'.data) = out.offset + 1
               /\ out.last => out.offset + 1 >= SegChunks[slv.index]
               /\ out.last /\ b => main'[slv.index] = Firmware
      PROVE  InStep'
  <2>1. /\ toMaster' = <<[cmd |-> out.state, ok |-> b]>>
        /\ Len(toMaster') = 1
        /\ Head(toMaster') = [cmd |-> out.state, ok |-> b]
    BY <1>3, <1>6
  <2>2. OneUnderWay'
    BY <1>3, <2>1 DEF OneUnderWay
  <2>3. Announced'
    BY <1>3, <1>6 DEF Announced
  <2>4. out.state = "SEG_DATA" => Sent'
    BY <1>3, <1>6, <2>1 DEF Sent
  <2> QED
    BY <1>3, <1>6, <2>2, <2>3, <2>4 DEF InStep
<1> HIDE DEF f
<1>7. CASE f.cmd = "REQUEST" /\ HandleRequest
  <2>1. /\ toMaster' = Append(toMaster, [cmd |-> out.state, ok |-> reply'.ok])
        /\ out.state = "REQUEST" /\ seg' = seg /\ main' = main
    BY <1>4, <1>7 DEF HandleRequest, RequestUpgrade, Reply, nvVars
  <2>2. slv.index = 1
    BY <1>4, <2>1 DEF Progress, Follows
  <2>3. InOrder' /\ CountedSegmentIsWritten'
    BY <1>1, <1>3, <2>1 DEF InOrder, CountedSegmentIsWritten
  <2>4. BeforeSegments'
    <3>1. m_state' \in {"WAITING", "UPGRADING", "PREPARING"}
      BY <1>2, <1>7 DEF HandleRequest, RequestUpgrade
    <3> QED
      BY <1>3, <2>1, <2>2, <3>1 DEF BeforeSegments, Early
  <2> QED
    BY <1>6, <2>1, <2>3, <2>4
<1>8. CASE f.cmd = "SEG_INFO" /\ HandleSegInfo(f)
  <2>1. /\ toMaster' = Append(toMaster, [cmd |-> out.state, ok |-> TRUE])
        /\ out.state = "SEG_INFO" /\ seg' = [no |-> f.seg, data |-> <<>>]
        /\ main' = main /\ m_state' = m_state
    BY <1>4, <1>8 DEF HandleSegInfo, NoEvent, Reply, nvVars
  <2>2. f.seg = slv.index /\ slv.index \in 1..Last
    BY <1>4, <2>1 DEF f, Frame, Progress, Segmenting
  <2>3. InOrder'
    <3>1. SegChunks[slv.index] \in Nat /\ Len(<<>>) = 0
      BY <2>2, ChunkFacts
    <3>2. Packets(slv.index, 0) = <<>>
      BY <2>2, PacketsFacts, EmptySeq
    <3> QED
      BY <2>1, <2>2, <3>1, <3>2 DEF InOrder
  <2>4. CountedSegmentIsWritten' /\ BeforeSegments'
    BY <1>1, <1>2, <1>3, <2>1 DEF CountedSegmentIsWritten, BeforeSegments
  <2> QED
    BY <1>6, <2>1, <2>2, <2>3, <2>4
<1>9. CASE f.cmd = "SEG_DATA" /\ HandleSegData(f)
  <2> DEFINE k == slv.index
             n == out.offset
  <2>1. /\ out.state = "SEG_DATA" /\ k \in 1..Last /\ n \in Nat
        /\ n < SegChunks[k] /\ SegChunks[k] \in Nat
        /\ f.seg = k /\ f.chunk = n + 1
    BY <1>3, <1>4, <1>9, ChunkFacts
    DEF f, Frame, Progress, Segmenting, Outputs
  <2>2. /\ seg.no = k /\ Len(seg.data) = n
        /\ out.last => n + 1 >= SegChunks[k]
    BY <1>1, <1>2, <1>3, <2>1 DEF ReadFailed, Sent
  <2>3. seg.data = Packets(k, n)
    BY <1>1, <2>1, <2>2 DEF InOrder
  <2>4. seg' = [no |-> k, data |-> Packets(k, n + 1)]
    <3>1. Filled(seg, f) = [seg EXCEPT !.data = Append(seg.data, <<k, n + 1>>)]
      BY <2>1, <2>2 DEF Filled
    <3>2. Append(seg.data, <<k, n + 1>>) = Packets(k, n + 1)
      BY <2>1, <2>3, PacketsFacts
    <3> QED
      BY <1>4, <1>9, <2>2, <3>1, <3>2 DEF HandleSegData, SegmentBuffers
  <2>5. Len(seg'.data) = n + 1 /\ seg'.no = k
    <3>1. n + 1 \in Nat
      BY <2>1
    <3>2. Len(Packets(k, n + 1)) = n + 1
      BY <2>1, <3>1, PacketsFacts
    <3> QED
      BY <2>4, <3>2
  <2>6. out.last => Whole(seg')
    <3>1. out.last => n + 1 = SegChunks[k]
      BY <2>1, <2>2
    <3> QED
      BY <2>1, <2>4, <3>1 DEF Whole, Packets
  <2>7. InOrder'
    BY <2>1, <2>4, <2>5 DEF InOrder
  <2>8. m_state' = m_state
    BY <1>9 DEF HandleSegData, NewSegment, NoEvent
  <2>9. BeforeSegments'
    BY <1>2, <2>8 DEF BeforeSegments
  <2>10. main \in Partitions /\ Segments = 1..Last
    BY SessionAssumption DEF IndInv, TypeOK, Segments
  <2>11. PICK b \in BOOLEAN :
           /\ toMaster' = Append(toMaster, [cmd |-> "SEG_DATA", ok |-> b])
           /\ \/ main' = main
              \/ \E c : main' = [main EXCEPT ![k] = c]
           /\ out.last /\ b => main'[k] = Firmware
    <3>1. CASE Whole(seg')
      <4>1. /\ NewSegment(k, Firmware)
            /\ toMaster' = Append(toMaster, [cmd |-> "SEG_DATA", ok |-> reply'.ok])
        BY <1>9, <2>5, <3>1 DEF HandleSegData, Reply
      <4>2. /\ \/ main' = main
               \/ \E c : main' = [main EXCEPT ![k] = c]
            /\ reply'.ok => main'[k] = Firmware
        <5>1. CASE /\ main' = [main EXCEPT ![k] = Firmware]
                   /\ Answer("SEGMENT", TRUE, Firmware)
          <6>1. main'[k] = Firmware
            BY <2>1, <2>10, <5>1 DEF Partitions
          <6> QED
            BY <5>1, <6>1
        <5>2. CASE /\ main' \in {main, [main EXCEPT ![k] = "TORN"]}
                   /\ Answer("SEGMENT", FALSE, Firmware)
          <6>1. reply'.ok = FALSE
            BY <5>2 DEF Answer
          <6> QED
            BY <5>2, <6>1
        <5>3. CASE main' = main /\ Answer("SEGMENT", FALSE, Firmware)
          <6>1. reply'.ok = FALSE
            BY <5>3 DEF Answer
          <6> QED
            BY <5>3, <6>1
        <5> QED
          BY <4>1, <5>1, <5>2, <5>3 DEF NewSegment
      <4>3. reply'.ok \in BOOLEAN
        BY <4>1, AnswerOk DEF NewSegment
      <4> DEFINE ok == reply'.ok
      <4>4. /\ ok \in BOOLEAN
            /\ toMaster' = Append(toMaster, [cmd |-> "SEG_DATA", ok |-> ok])
            /\ out.last /\ ok => main'[k] = Firmware
        BY <4>1, <4>2, <4>3
      <4> HIDE DEF ok
      <4> QED
        BY <4>2, <4>4
    <3>2. CASE ~Whole(seg')
      BY <1>9, <2>6, <3>2 DEF HandleSegData, NoEvent, Reply, nvVars
    <3> QED
      BY <3>1, <3>2
  <2>12. CountedSegmentIsWritten'
    <3> SUFFICES ASSUME NEW j \in 1..Last, j < k PROVE main'[j] = Firmware
      BY <1>3 DEF CountedSegmentIsWritten
    <3>1. main[j] = Firmware /\ j # k
      BY <1>1, <2>1 DEF CountedSegmentIsWritten
    <3> QED
      BY <2>10, <2>11, <3>1 DEF Partitions
  <2> HIDE DEF k, n
  <2> QED
    BY <1>6, <2>1, <2>2, <2>5, <2>7, <2>9, <2>11, <2>12 DEF k, n
<1>10. CASE f.cmd = "FW_INFO" /\ HandleFwInfo
  <2>1. /\ toMaster' = Append(toMaster, [cmd |-> out.state, ok |-> reply'.ok])
        /\ out.state = "FW_INFO" /\ seg' = seg /\ main' = main
    BY <1>4, <1>10 DEF HandleFwInfo, FwInfo, Reply
  <2>2. InOrder' /\ CountedSegmentIsWritten'
    BY <1>1, <1>3, <2>1 DEF InOrder, CountedSegmentIsWritten
  <2>3. m_state' \in {"FAILURE", "FINISH"}
    BY <1>10 DEF HandleFwInfo, FwInfo, FwInfoUnexpected, FwInfoInvalid,
                 FwInfoValid
  <2> QED
    BY <1>6, <2>1, <2>2, <2>3 DEF BeforeSegments
<1> QED
  BY <1>5, <1>7, <1>8, <1>9, <1>10 DEF Handle

LEMMA WholeLoaderPolls ==
  IndInv /\ SessionInv /\ WholeInv /\ LoaderPolls => WholeInv'
<1> SUFFICES ASSUME IndInv, SessionInv, WholeInv, LoaderPolls PROVE WholeInv'
  OBVIOUS
<1>1. /\ UNCHANGED masterVars /\ UNCHANGED <<calm, faults, late, inStep>>
      /\ calm \in BOOLEAN /\ faults \in 0..MaxFaults /\ late \in 0..MaxLate
      /\ WaitingPolled(1) \/ UpgradingPolled
  BY DEF LoaderPolls, trouble, WholeInv, SessionTypes
<1>2. CASE NoEvent /\ UNCHANGED <<linkVars, seg>>
  <2>1. m_state' = m_state /\ main' = main /\ power' = power
    BY <1>1, <1>2, PolledState DEF NoEvent, nvVars
  <2> QED
    BY <1>1, <1>2, <2>1, QuietStep DEF linkVars
<1>3. ASSUME toLoader # <<>>, toLoader' = Tail(toLoader), Handle(Head(toLoader))
      PROVE  WholeInv'
  <2>1. /\ Tail(toLoader) \in Seq(Frames) /\ Head(toLoader) \in Frames
    BY <1>3, Shorter DEF WholeInv, SessionTypes
  <2>2. seg' \in SegmentBuffers
    BY <1>3, <2>1, HandledTypes
  <2>3. SessionTypes' /\ Progress'
    BY <1>1, <1>3, <2>1, <2>2
    DEF WholeInv, SessionTypes, Progress, Follows, Segmenting, masterVars
  <2>4. CASE inStep
    BY <1>1, <1>3, <2>3, <2>4, HandledInStep DEF WholeInv
  <2>5. CASE ~inStep
    BY <1>1, <2>3, <2>5 DEF WholeInv, InStep
  <2> QED
    BY <2>4, <2>5
<1> QED
  BY <1>2, <1>3 DEF LoaderPolls, HostProcess

LEMMA WholeInit == SessionInit => WholeInv
<1> SUFFICES ASSUME SessionInit PROVE WholeInv
  OBVIOUS
<1>1. slv \in Slaves /\ seg \in SegmentBuffers
  <2>1. <<>> \in Seq((0..Last) \X Nat)
    OBVIOUS
  <2> QED
    BY <2>1, ChunkFacts
    DEF SessionInit, SlaveInit, Slaves, SlvStates, SegmentBuffers, NoSegment
<1>2. SessionTypes
  BY <1>1, SessionAssumption DEF SessionInit, SlaveInit, SessionTypes
<1>3. Progress
  BY ChunkFacts DEF SessionInit, SlaveInit, Progress, Follows, Segmenting, Early
<1>4. InStep
  BY DEF SessionInit, SlaveInit, InStep, OneUnderWay, InOrder, Announced,
     BeforeSegments, CountedSegmentIsWritten, NoSegment, Early
<1> QED
  BY <1>2, <1>3, <1>4 DEF WholeInv

LEMMA WholeStep ==
  IndInv /\ SessionInv /\ WholeInv /\ [SessionNext]_allVars => WholeInv'
<1>1. IndInv /\ SessionInv /\ WholeInv /\ SessionNext => WholeInv'
  BY WholeMasterSkips, WholeMasterSends, WholeMasterSendFails, WholeMasterHears,
     WholeMasterHearsNoise, WholeMasterTimesOut, WholeMasterTimerExpires,
     WholeLoaderPolls, WholeLoaderSteps, WholeLoaderRestarts, WholeOthers
  DEF SessionNext, Master, Loader
<1>2. WholeInv /\ UNCHANGED allVars => WholeInv'
  BY DEF allVars, vars, ramVars, nvVars, envVars, sessionVars, masterVars,
     linkVars, trouble, WholeInv, SessionTypes, Progress, Follows, Segmenting,
     InStep, OneUnderWay, InOrder, Announced, ReadFailed, Sent, BeforeSegments,
     CountedSegmentIsWritten
<1> QED
  BY <1>1, <1>2

\* The packets of a full buffer are those of its segment.
LEMMA InOrderIsWhole ==
  ASSUME SessionTypes, InOrder, seg.no # 0, Len(seg.data) = SegChunks[seg.no]
  PROVE  Whole(seg)
<1>1. seg.no \in 1..Last
  BY ChunkFacts DEF SessionTypes, SegmentBuffers
<1> QED
  BY <1>1 DEF InOrder, Whole, Packets

\* As long as the answers keep step, what the loader finds full is whole and
\* what the master counts is written, whatever is lost, broken or repeated on
\* the way (sm_host_485_boot_output.c with sm_boot_host.c and sm_segment.c).
THEOREM SessionSegmentsWhole == SessionSpec => []SegmentsComeWhole
<1>1. SessionInit => SessionInv /\ WholeInv /\ IndInv /\ ~quiet
  BY SessionInitInv, WholeInit, InitIndInv DEF SessionInit, Init
<1>2. SessionInv /\ WholeInv /\ IndInv /\ ~quiet /\ [SessionNext]_allVars
        => SessionInv' /\ WholeInv' /\ IndInv' /\ ~quiet'
  BY SessionStep, WholeStep, SessionStepIsLoaderStep, StepIndInv
<1>3. SessionInv /\ WholeInv /\ IndInv => SegmentsComeWhole
  <2> SUFFICES ASSUME SessionInv, WholeInv, IndInv PROVE SegmentsComeWhole
    OBVIOUS
  <2>1. SessionTypeOK
    BY OutputsAreOutT
    DEF IndInv, WholeInv, SessionTypes, SegmentBuffers, SessionInv, WeakTypes,
        SessionTypeOK
  <2>2. CountedSegmentIsWritten
    BY DEF WholeInv, InStep, CountedSegmentIsWritten
  <2>3. FullSegmentIsWhole
    BY InOrderIsWhole DEF WholeInv, InStep, FullSegmentIsWhole
  <2> QED
    BY <2>1, <2>2, <2>3 DEF SegmentsComeWhole
<1> QED
  BY <1>1, <1>2, <1>3, PTL DEF SessionSpec

=============================================================================
