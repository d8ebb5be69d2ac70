--------------------------- MODULE MCModbusUpgrade ---------------------------
(* Two segments: of two frames, the last a single byte, which is never sent, and
   of one full frame; the other user tries the limits of a range, a function
   nobody serves, and a broadcast. *)
EXTENDS ModbusUpgrade
MCSegChunks == <<2, 1>>
MCSegBytes == <<5, 4>>
MCAppCalls ==
  {Call(1, 3, 65535, 1, 0, <<"app">>), Call(1, 16, 65414, 123, 0, <<"app">>),
   Call(1, 15, 0, 1968, 0, <<"app">>), Call(0, 6, 7, 1, 0, <<"app">>)}
=============================================================================
