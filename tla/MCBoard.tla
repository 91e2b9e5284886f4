------------------------------ MODULE MCBoard ------------------------------
(***************************************************************************)
(* The board with the one-instruction programs, which it is only started   *)
(* on, and with three programs that run for ever and are disturbed:        *)
(*     a loop with an interrupt handler, by events, stops and starts;      *)
(*     a loop that copies a word, by reads and writes of the computer;     *)
(*     the same, by resets.                                                *)
(***************************************************************************)
EXTENDS Board, MCPrograms, Bitwise

MCAnd(a, b) == a & b
MCOr(a, b)  == a | b
MCXor(a, b) == a ^^ b

Program(code) == [a \in Address |-> IF a < Len(code) THEN code[a + 1]
                                    ELSE IF a \in DOMAIN Table THEN Table[a] ELSE Filler]

\* 0 EINT, 1 LDX #2, 4 J 1; the handler at 13: LDX #1, DINT, EINT, RINT.
InterruptProgram ==
  Program(<<\hF8, \h05, 0, 2, \h3F, 0, 1, Filler, Filler, Filler, Filler, Filler, Filler,
            \h05, 0, 1, \hF9, \hF8, \hFA>>)

\* 0 LDA 16, 3 STA 22, 6 J 0.
CopyProgram == Program(<<\h03, 0, 16, \h0F, 0, 22, \h3F, 0, 0>>)

Scenario(image, signals, n, requests, k) ==
  [image |-> image, signals |-> signals, pulses |-> n, requests |-> requests, accesses |-> k]

MCScenarios ==
  {Scenario(image, {"start"}, 1, {}, 0) : image \in OneInstructionImages}
  \cup {Scenario(InterruptProgram, {"start", "stop", "toggle", "event"}, 3, {}, 0),
        Scenario(CopyProgram, {"start", "stop"}, 2,
                 {ReadRequest(17), WriteRequest(16, 7), WriteRequest(17, 7),
                  WriteRequest(18, 7), WriteRequest(23, 7)}, 1),
        Scenario(CopyProgram, {"start", "reset", "board"}, 3, {WriteRequest(17, 7)}, 1)}

=============================================================================
