---------------------------- MODULE CoSdoFrames ----------------------------
(***************************************************************************)
(* What the CANopen SDO server and client share: the sub-objects of the    *)
(* dictionary, the frames and the two directions of the wire.              *)
(*                                                                         *)
(* A byte is a pair <<transfer, position>>: as data of which transfer, and *)
(* where in its value, it was sent.  That is all that the data has to tell *)
(* apart: bytes of two transfers mixed, or a byte at the wrong place.      *)
(* Stray stands for every byte that was not sent as data: the first        *)
(* contents of an application's buffer, and what a transmit buffer still   *)
(* holds behind the data of a frame, where any byte sent before may stand. *)
(***************************************************************************)
EXTENDS Integers, Sequences

CONSTANTS
  Objects,     \* sub-objects in the object dictionary
  Unknown,     \* a multiplexer (index, sub-index) that is not in it
  ObjLen,      \* CO_Sub_Object.len of each
  Ext,         \* those with an extension (p_ext): shadow data and confirm_func
  Temp,        \* those with temporary data (p_temp_data)
  AfterReset,  \* ODA_VWTE_after_reset: a written value takes effect after reset
  Readable,    \* ODA_SDO_R
  Writable     \* ODA_SDO_W

ASSUME ObjectAssumption ==
  /\ Objects # {} /\ Unknown \notin Objects
  /\ ObjLen \in [Objects -> Nat]
  /\ \A o \in Objects : ObjLen[o] < 65536        \* a uint16_t
  /\ Ext \subseteq Objects /\ Temp \subseteq Objects
  /\ AfterReset \subseteq Objects
  /\ Readable \subseteq Objects /\ Writable \subseteq Objects

VARIABLES toServer, toClient    \* frames on their way, oldest first

wires == <<toServer, toClient>>

Muxes == Objects \cup {Unknown}
Byte  == Nat \X Nat
Stray == <<0, 0>>                             \* a byte no frame has as its data
Payload(i, n) == [k \in 1..n |-> <<i, k>>]    \* the n bytes of transfer i

SegmentBytes   == 7      \* data bytes of a segment frame
ExpeditedBytes == 4      \* data bytes of an expedited initiate frame

\* The length an expedited frame for n bytes announces: 4 - n is sent in two
\* bits, so that 0 bytes look like 4.
Announced(n) == ExpeditedBytes - ((ExpeditedBytes - n) % 4)

\* trans_data_len is a uint16_t: it holds 16 bits of the size a frame announces.
TransLen(size) == size % 65536

\* Command specifiers; those of the two directions never meet.
Specifiers == {"DOWNLOAD_INITIATE", "DOWNLOAD_SEGMENT",
               "UPLOAD_INITIATE", "UPLOAD_SEGMENT", "ABORT"}

\* One record for every frame; what a command does not use is left at the
\* value of Plain.
Frame == [cs   : Specifiers,
          mux  : Muxes,
          size : Nat,          \* announced size
          e    : BOOLEAN,      \* expedited
          s    : BOOLEAN,      \* size indicated
          t    : {0, 1},       \* toggle bit
          c    : BOOLEAN,      \* no more segments
          data : Seq(Byte)]

Plain(cs) == [cs |-> cs, mux |-> Unknown, size |-> 0, e |-> FALSE, s |-> FALSE,
              t |-> 0, c |-> FALSE, data |-> <<>>]

\* CO_SDO_abort_and_response, the frame it sends.
AbortFrame == Plain("ABORT")

\* The n bytes of buffer b that follow offset off.
Slice(b, off, n) == SubSeq(b, off + 1, off + n)

\* CO_memcpy of n bytes of a frame into buffer b at offset off.  The sender
\* copies its data into a transmit buffer it never clears: where a frame carries
\* fewer than n bytes of data, the others are those of earlier frames.
Copy(b, off, d, n) ==
  [k \in DOMAIN b |-> IF k - off \in 1..n
                      THEN IF k - off <= Len(d) THEN d[k - off] ELSE Stray
                      ELSE b[k]]

\* The toggle bit: toggle ^= (1UL << 4).
Flip(t) == 1 - t

Smaller(m, n) == IF m < n THEN m ELSE n
=============================================================================
