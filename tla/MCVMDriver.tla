------------------------------ MODULE MCVMDriver ------------------------------
(***************************************************************************)
(* A program that counts to two and stores the count, and an interrupt     *)
(* handler that uses A, X and the condition code after saving them:        *)
(*                                                                         *)
(*    0        EINT                      24  handler  STA save_a           *)
(*    1        CLEAR X                   27           STX save_x           *)
(*    3  loop  TIX #2                    30           CLEAR X              *)
(*    6        JLT loop                  32           TIX #0               *)
(*    9        STX count                 35           LDA #7               *)
(*   12        DINT                      38           LDX save_x           *)
(*   13  halt  J halt                    41           LDA save_a           *)
(*                                       44           EINT                 *)
(*   48 save_a   51 save_x   54 count    45           RINT                 *)
(*   60 marker    61 interrupt vector, with a bit above the address        *)
(*                                                                         *)
(* A second program enables interrupts and copies bytes from device 0 to   *)
(* the file of device 3 for ever; its marker cell holds 0.                 *)
(***************************************************************************)
EXTENDS Machine, VMDriver, Bitwise

MCAnd(a, b) == a & b
MCOr(a, b)  == a | b
MCXor(a, b) == a ^^ b

Main == <<\hF8, \hB4, \h10, \h2D, 0, 2, \h3B, 0, 3, \h13, 0, 54, \hF9, \h3F, 0, 13>>

Handler == <<\h0F, 0, 48, \h13, 0, 51, \hB4, \h10, \h2D, 0, 0, \h01, 0, 7,
             \h07, 0, 51, \h03, 0, 48, \hF8, \hFA>>

Forever == <<\hF8, \hD9, 0, 0, \hDD, 0, 3, \h3F, 0, 1>>

InterruptedProgram(main, marker) ==
  [a \in Address |->
     IF a < Len(main) THEN main[a + 1]
     ELSE IF a \in 24 .. 23 + Len(Handler) THEN Handler[a - 23]
     ELSE CASE a = 60 -> marker
            [] a = 61 -> 1
            [] a = 63 -> 24
            [] OTHER  -> 0]

MCImages == {InterruptedProgram(Main, 1), InterruptedProgram(Forever, 0)}
MCFloats == {[k \in 0 .. 5 |-> 0]}

\* A program that halts when it is left alone also halts under interrupts, and then
\* the process reports success: every handler it enters comes back to it.
HaltsWithSuccess == memory[60] = 1 => <>[](loop = "done" /\ exit_success)

=============================================================================
