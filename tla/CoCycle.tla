------------------------------ MODULE CoCycle ------------------------------
(***************************************************************************)
(* What a CANopen node does in the cycle that SYNC gives it, as operators on *)
(* the records the program keeps: the SYNC producer and consumer (CO_SYNC.c), *)
(* the transmit PDOs (CO_TPDO.c, CO_PDO.c) and the search of the object       *)
(* dictionary (CO_OD.c).  Numbers are as wide as Width says, 2^16 in the code. *)
(* A frame's bytes are the places they are read from: <<object, byte>>.       *)
(***************************************************************************)
EXTENDS Integers, Sequences, SequencesExt

CONSTANTS Width,      \* of the 16-bit numbers
          FrameLen,   \* bytes of a CAN frame, 8
          MaxMapped   \* MAX_MAPPED_OBJECTS, 8

ASSUME CycleAssumption == {Width, FrameLen, MaxMapped} \subseteq Nat \ {0}

EVENT_LO == Width - 1
SYNC_ACYCLIC == 0
Byte == 256

\* Bits of aux_sync_reg.  A shift by as many or more is undefined: maxAux, and
\* the auxiliary counter of another producer, stay below.
RegBits == 32

-----------------------------------------------------------------------------
\* SYNC.  A record has the parameters (valid, gen, period, window, maxCounter,
\* maxAux) and the state; aux_sync_reg is the set of the bits it has.

SyncInit(p) ==
  [valid |-> p.valid, gen |-> p.gen, period |-> p.period, window |-> p.window,
   maxCounter |-> p.maxCounter, maxAux |-> p.maxAux,
   timer |-> 0, index |-> 0, counter |-> 0, aux |-> 0, reg |-> {}, inside |-> FALSE]

\* Mutation: the index wraps round.
MutAdvance(x, d) == (x + d) % Width

\* The timer and the index stay where they are rather than wrap round.
Advance(x, d) == LET y == (x + d) % Width IN IF y > x THEN y ELSE x

Ticked(s, d) == [s EXCEPT !.timer = Advance(@, d), !.index = Advance(@, 1)]

Restarted(s) == [s EXCEPT !.timer = 0, !.index = 0]

Windowed(s) == [s EXCEPT !.inside = s.timer <= s.window]

\* Mutation: the auxiliary counter wraps round one early.
MutNumbered(s) ==
  LET c == (s.counter + 1) % Width
      a == (s.aux + 1) % Byte
      b == IF a >= s.maxAux THEN 0 ELSE a
  IN IF c <= s.maxCounter THEN [s EXCEPT !.counter = c]
     ELSE [s EXCEPT !.counter = 1, !.aux = b, !.reg = {b}]

\* The number of the producer's next SYNC; CO_SYNC_update_aux_sync_reg is
\* called when the auxiliary counter moves, and only then.
Numbered(s) ==
  LET c == (s.counter + 1) % Width
      a == (s.aux + 1) % Byte
      b == IF a > s.maxAux THEN 0 ELSE a
  IN IF c <= s.maxCounter THEN [s EXCEPT !.counter = c]
     ELSE [s EXCEPT !.counter = 1, !.aux = b, !.reg = {b}]

\* Mutation: the SYNC is due when the window has passed.
MutProduced(s, d) ==
  LET t == Ticked(s, d)
  IN IF t.timer >= t.window THEN Restarted(Numbered(t)) ELSE t

\* CO_SYNC_process of a producer; a new index 0 is a SYNC sent.
Produced(s, d) ==
  LET t == Ticked(s, d)
  IN IF t.timer >= t.period THEN Restarted(Numbered(t)) ELSE t

Frame(s) == <<s.counter, s.aux>>

-----------------------------------------------------------------------------
\* The object dictionary: od is the sequence of <<index, length>> of its
\* objects in the order of their indexes; past is what follows it in memory.

\* Mutation: the object at the upper end is not looked at.
MutSearch(od, past, i, min, max) ==
  LET index(no) == IF no < Len(od) THEN od[no + 1][1] ELSE past
      find[lo, hi \in 0..Len(od)] ==
        IF lo >= hi THEN -1
        ELSE LET cur == (lo + hi) \div 2
             IN CASE i = index(cur) -> cur
                  [] i < index(cur) -> find[lo, IF cur > 0 THEN cur - 1 ELSE 0]
                  [] i > index(cur) -> find[cur + 1, hi]
  IN find[min, max]

\* CO_OD_get_no, -1 for OD_UNSUPPORT_ENTRY: it may look at the entry past the
\* last.
Search(od, past, i, min, max) ==
  LET index(no) == IF no < Len(od) THEN od[no + 1][1] ELSE past
      find[lo, hi \in 0..Len(od)] ==
        IF lo >= hi THEN IF lo = hi /\ index(lo) = i THEN lo ELSE -1
        ELSE LET cur == (lo + hi) \div 2
             IN CASE i = index(cur) -> cur
                  [] i < index(cur) -> find[lo, IF cur > 0 THEN cur - 1 ELSE 0]
                  [] i > index(cur) -> find[cur + 1, hi]
  IN find[min, max]

\* CO_OD_get_sub_object_pointer, for an object of one value: the object, or
\* none for a number past the end.
LengthOf(od, past, i) ==
  LET no == Search(od, past, i, 0, Len(od))
  IN IF no \in 0..Len(od) - 1 THEN od[no + 1][2] ELSE -1

-----------------------------------------------------------------------------
\* Transmit PDOs.

\* Places that are no object's: a null pointer, data_0, mapping_fail_data.
Unset == <<-1, 0>>
Zero  == <<-2, 0>>
MapFail == [b \in 1..FrameLen |-> <<-3, b>>]

\* CO_PDO_set_mapping_parameter refuses them, in CO_detect_error's while(1).
MappingRefused(map) == Len(map) >= MaxMapped

\* The places one mapped object <<index, len>> stands for.
Pointers(od, past, m) ==
  [b \in 1..m[2] |-> IF b <= LengthOf(od, past, m[1]) THEN <<m[1], b>> ELSE Zero]

\* CO_PDO_mapping: one object that is missing or one byte too many and the
\* whole frame is "map_fail"; what no object fills keeps its null pointer.
Mapping(od, past, map) ==
  LET bytes == FoldLeft(LAMBDA acc, m : acc \o Pointers(od, past, m), <<>>, map)
  IN IF (\E k \in 1..Len(map) : LengthOf(od, past, map[k][1]) = -1)
          \/ Len(bytes) > FrameLen
     THEN MapFail
     ELSE [b \in 1..FrameLen |-> IF b <= Len(bytes) THEN bytes[b] ELSE Unset]

\* CO_TPDO_init: the identifier of the parameters, with its valid bit, comes
\* after the mapping and covers what the mapping said.
TpdoInit(od, past, p) ==
  [valid |-> p.valid, type |-> p.type, mask |-> p.mask, map |-> p.map,
   data |-> Mapping(od, past, p.map), request |-> FALSE]

\* Mutation: a request goes out whether the PDO is due or not.
MutSends(t, s) ==
  t.valid /\ (t.request \/ (t.type = s.counter /\ s.reg \cap t.mask # {}))

\* CO_TPDO_process: whether this call sends the PDO.
Sends(t, s) ==
  /\ t.valid
  /\ \/ t.type = EVENT_LO /\ t.request
     \/ t.type # EVENT_LO /\ t.type = s.counter /\ s.reg \cap t.mask # {}
     \/ t.type = SYNC_ACYCLIC /\ t.request

\* Mutation: the request stays.
MutProcessed(t, s) == t

\* CO_TPDO_send forgets the request, also when it was the cycle that sent.
Processed(t, s) == IF Sends(t, s) THEN [t EXCEPT !.request = FALSE] ELSE t
=============================================================================
