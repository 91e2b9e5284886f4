----------------------- MODULE MCFpgaConnectionBacklog -----------------------
(* Control signals, and a write longer than the line carries within the timeout. *)
EXTENDS FpgaConnection

LongCommands ==
  {<<Control(StartSignal)>>, <<Control(StopSignal)>>, <<WriteCall(0, <<1, 2, 3>>)>>}
============================================================================
