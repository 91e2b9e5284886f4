---------------------------- MODULE FpgaConnection ----------------------------
(***************************************************************************)
(* sicfpga (fpga/connection.cc, loader.cc, utility.cc) talking to the      *)
(* board over the serial line.  A utility command is a sequence of         *)
(* connection calls, abandoned at the first that fails; a call sends a     *)
(* command byte, waits for 'K', unlocks the board and tries once more if   *)
(* that is not what comes, and then transfers its data.                    *)
(*                                                                         *)
(* Time.  A poll expires after 100 ms, in which the line carries about     *)
(* 1150 bytes (TimeoutBytes): it can expire only when nothing more will    *)
(* come, or when more than that was queued in front of the bytes it waits  *)
(* an answer to.  TtyBuffer is the room for queued bytes; a write takes    *)
(* what fits.                                                              *)
(*                                                                         *)
(* Failures.  Ctrl+C ends the program at any point, with _exit(0): no      *)
(* destructor runs; it may be started again at once, while the board still *)
(* goes on with what it was told.  The line may be hung up, as when the    *)
(* adapter is pulled out: then nothing can be written, poll() returns at   *)
(* once, and read() gives nothing.  The board may be reset.                *)
(***************************************************************************)
EXTENDS ComputerInterface

CONSTANTS Commands,      \* utility commands that users give, as sequences of calls
          TimeoutBytes, TtyBuffer,
          MaxSessions,   \* bound on the runs of sicfpga
          MaxCommands,   \* bound on the commands of all its runs
          MaxResets,     \* bound on the presses of the reset button
          HangUpSessions \* bound: the runs of sicfpga whose line may be hung up

VARIABLES pc,              \* what the program waits for or does next
          call,            \* the connection call being made
          calls,           \* calls of the utility command still to be made
          success,         \* what call returned, once it has ended
          retried,         \* SendCommand has unlocked the board for this call
          received,        \* bytes read since the call started to read several
          unlock_success,
          backlog,         \* more than TimeoutBytes were queued when the wait began
          hung_up,         \* the line is dead for the session that has it open
          sessions, commands, resets,
          sent,            \* history: what SendCommand returned for call, if it has
          image,           \* history: memory as the successful writes make it
          disturbed        \* history: what has disturbed the session (FoundBoard, Reset
                           \* and HangUp say which), or "no"

host_vars == <<pc, call, calls, success, retried, received, unlock_success, backlog,
              hung_up, sessions, commands>>
history_vars == <<sent, image, disturbed>>
link_vars == <<channel_vars, device_vars, host_vars, resets, history_vars>>

TestCall == [op |-> "test"]
Control(sig) == [op |-> "control", signal |-> sig]
WriteCall(a, data) == [op |-> "write", address |-> a, data |-> data]
ReadCall(a, n) == [op |-> "read", address |-> a, size |-> n]

\* What the utility may ask for: it masks an address to its register, and reads
\* at least one byte.
Calls == [op : {"test"}]
           \cup [op : {"control"}, signal : 0..3]
           \cup [op : {"write"}, address : Address, data : Seq(Byte)]
           \cup [op : {"read"}, address : Address, size : Nat \ {0}]

ASSUME CommandsAssumption == \A cmd \in Commands : cmd \in Seq(Calls) /\ cmd # <<>>
ASSUME LineAssumption == {TimeoutBytes, TtyBuffer} \subseteq Nat

\* One write per text section.  (An object file that is not linked is refused
\* before the first.)
LoadObjectFile(sections) ==
  [i \in DOMAIN sections |-> WriteCall(sections[i].address, sections[i].data)]

\* CommandLoad: stop and reset the CPU, then load.
Load(sections) == <<Control(StopSignal), Control(ResetSignal)>> \o LoadObjectFile(sections)

CommandByte(c) == CASE c.op = "test" -> TestCommand
                    [] c.op = "control" -> ControlCommand(c.signal)
                    [] c.op = "write" -> WriteCommand
                    [] c.op = "read" -> ReadCommand

TransferSize(c) == IF c.op = "write" THEN Len(c.data) ELSE c.size
\* Mutant: most significant byte first.
HeaderBigEndian(c) ==
  LET n == TransferSize(c)
  IN  <<(c.address \div 65536) % 256, (c.address \div 256) % 256, c.address % 256,
        (n \div 256) % 256, n % 256>>

Header(c) == LET n == TransferSize(c)
             IN  <<c.address % 256, (c.address \div 256) % 256, (c.address \div 65536) % 256,
                   n % 256, (n \div 256) % 256>>

\* What a user asks for whose writes all arrive: within the timeout the line
\* carries any call's bytes, and the tty takes as many.  (Longer writes than
\* that, of up to CountSpace - 1 bytes, are sent too.)
ShortWrites ==
  /\ TimeoutBytes >= 6 /\ TtyBuffer >= TimeoutBytes
  /\ \A cmd \in Commands : \A i \in DOMAIN cmd :
       cmd[i].op = "write" => Len(cmd[i].data) >= CountSpace \/ Len(cmd[i].data) + 6 <= TimeoutBytes

AtRest == to_device = <<>> /\ ~Working /\ out_data = NoByte
Idle == pc \in {"closed", "prompt"}
Undisturbed == AtRest /\ state \in {"LOCKED", "UNLOCKED"}

LinkInit ==
  /\ DeviceInit
  /\ pc = "closed" /\ call = TestCall /\ calls = <<>> /\ success = FALSE /\ retried = FALSE
  /\ received = <<>> /\ unlock_success = FALSE /\ backlog = FALSE /\ hung_up = FALSE
  /\ sessions = 0 /\ commands = 0 /\ resets = 0
  /\ sent = "unknown" /\ image = memory /\ disturbed = "no"

(***************************************************************************)
(* The pieces that the calls are made of.                                  *)
(***************************************************************************)
\* write(): as many bytes as there is room for, and none when the line is hung up.
Write(bytes) ==
  LET room == IF hung_up THEN 0 ELSE TtyBuffer - Len(to_device)
  IN  /\ to_device' = to_device \o SubSeq(bytes, 1, IF room < Len(bytes) THEN room ELSE Len(bytes))
      /\ backlog' = (Len(to_device') > TimeoutBytes)
      /\ UNCHANGED hung_up
Fits(bytes) == ~hung_up /\ Len(to_device) + Len(bytes) <= TtyBuffer

\* Mutant: a wait without end.
PollExpiresNever == FALSE
PollExpires == ~hung_up /\ to_host = <<>> /\ (backlog \/ AtRest)

\* read() of a byte that poll() has announced.
Arrived == ~hung_up /\ to_host # <<>>

\* The wait for a byte has failed: poll() has expired, or read() gives nothing.
NoByteComes == hung_up \/ PollExpires

\* What a session finds: the board at rest and listening, or amid the key or a write
\* ("found"), or about to be told what to read ("reading"), or not yet at rest.
FoundBoard ==
  IF ~AtRest THEN "early"
  ELSE IF state \in {"LOCKED", "UNLOCKED"} THEN "no"
  ELSE IF state \in HeaderStates /\ reg_command = ReadCommand THEN "reading"
  ELSE "found"

LinkUnchanged == UNCHANGED <<to_device, backlog, hung_up>>
SameBoard == UNCHANGED <<state, reg_vars, out_data, memory, cpu_enable>>
SameRuns == UNCHANGED <<sessions, commands, resets, disturbed>>

StartCall(c) ==
  /\ pc' = "command"
  /\ call' = c
  /\ retried' = FALSE /\ received' = <<>>
  /\ accepted' = <<>> /\ sent' = "unknown" /\ success' = FALSE

EndCall(outcome) ==
  /\ pc' = "ended"
  /\ success' = outcome

\* SendCommand returns false, and with it the call.
CommandFails ==
  /\ EndCall(FALSE)
  /\ unlock_success' = FALSE
  /\ sent' = "failed"

\* SendCommand returns true: the call goes on to its transfer, if it has one.
CommandSucceeds ==
  /\ unlock_success' = TRUE
  /\ sent' = "ok"
  /\ IF call.op \in {"write", "read"}
     THEN pc' = "header" /\ UNCHANGED success
     ELSE EndCall(TRUE)

\* A first SendCommandNoUnlock that fails leads to the unlock procedure.
NoUnlockFails ==
  IF retried THEN CommandFails
  ELSE pc' = "unlock" /\ UNCHANGED <<success, unlock_success, sent>>

(***************************************************************************)
(* Starting and leaving sicfpga.                                           *)
(***************************************************************************)
\* Mutant: what came for an earlier session is kept.
OpenUnflushed ==
  /\ pc = "closed" /\ sessions < MaxSessions
  /\ sessions' = sessions + 1
  /\ hung_up' = FALSE
  /\ disturbed' = FoundBoard
  /\ image' = memory
  /\ StartCall(TestCall)
  /\ calls' = <<>>
  /\ SameBoard
  /\ UNCHANGED <<channel_vars, backlog, unlock_success, commands, resets>>

\* The flush drops what has come for an earlier session, but not what comes later.
Open ==
  /\ pc = "closed" /\ sessions < MaxSessions
  /\ sessions' = sessions + 1
  /\ to_host' = <<>>
  /\ hung_up' = FALSE
  /\ disturbed' = FoundBoard
  /\ image' = memory
  /\ StartCall(TestCall)
  /\ calls' = <<>>
  /\ SameBoard
  /\ UNCHANGED <<to_device, backlog, unlock_success, commands, resets>>

IssueCommand ==
  /\ pc = "prompt" /\ commands < MaxCommands
  /\ commands' = commands + 1
  /\ \E cmd \in Commands : StartCall(Head(cmd)) /\ calls' = Tail(cmd)
  /\ LinkUnchanged /\ SameBoard
  /\ UNCHANGED <<to_host, unlock_success, sessions, resets, image, disturbed>>

\* The call has returned: the command's next one, or back to the prompt.
NextCall ==
  /\ pc = "ended"
  /\ \/ /\ success /\ calls # <<>>
        /\ StartCall(Head(calls))
        /\ calls' = Tail(calls)
     \/ /\ ~(success /\ calls # <<>>)
        /\ pc' = IF call.op = "test" /\ ~success THEN "closed" ELSE "prompt"
        /\ calls' = <<>>
        /\ UNCHANGED <<call, success, retried, received, accepted, sent>>
  /\ LinkUnchanged /\ SameBoard /\ SameRuns
  /\ UNCHANGED <<to_host, unlock_success, image>>

\* The process is gone, and its state with it.
ProcessEnds ==
  /\ pc' = "closed"
  /\ call' = TestCall /\ calls' = <<>> /\ success' = FALSE /\ retried' = FALSE
  /\ received' = <<>> /\ unlock_success' = FALSE /\ backlog' = FALSE
  /\ accepted' = <<>> /\ sent' = "unknown"
  /\ UNCHANGED hung_up

\* The destructor's Close(): the board is locked if it was unlocked.
Quit ==
  /\ pc = "prompt"
  /\ IF unlock_success /\ Fits(<<LockCommand>>)
     THEN /\ Write(<<LockCommand>>)
          /\ pc' = "locking"
          /\ accepted' = <<>> /\ sent' = "unknown"
          /\ UNCHANGED <<call, calls, success, retried, received, unlock_success>>
     ELSE ProcessEnds /\ UNCHANGED to_device
  /\ SameBoard /\ SameRuns
  /\ UNCHANGED <<to_host, image>>

\* The reply to the lock command, or none: it is not looked at.
Close ==
  /\ pc = "locking"
  /\ \/ Arrived /\ to_host' = Tail(to_host)
     \/ NoByteComes /\ UNCHANGED to_host
  /\ ProcessEnds
  /\ SameBoard /\ SameRuns
  /\ UNCHANGED <<to_device, image>>

\* Ctrl+C (not in the last session, after which nothing could be seen of it).
Kill ==
  /\ pc # "closed" /\ sessions < MaxSessions
  /\ ProcessEnds
  /\ SameBoard /\ SameRuns
  /\ UNCHANGED <<channel_vars, image>>

(***************************************************************************)
(* SendCommand.                                                            *)
(***************************************************************************)
\* WriteMemory and ReadMemory refuse what does not fit the count register.
RefuseTransfer ==
  /\ pc = "command" /\ call.op \in {"write", "read"}
  /\ TransferSize(call) >= CountSpace
  /\ EndCall(FALSE)
  /\ LinkUnchanged /\ SameBoard /\ SameRuns
  /\ UNCHANGED <<to_host, accepted, call, calls, retried, received, unlock_success, sent, image>>

SendCommandByte ==
  /\ pc = "command"
  /\ call.op \in {"write", "read"} => TransferSize(call) < CountSpace
  /\ Write(<<CommandByte(call)>>)
  /\ IF Fits(<<CommandByte(call)>>)
     THEN pc' = "reply" /\ UNCHANGED <<success, unlock_success, sent>>
     ELSE NoUnlockFails
  /\ SameBoard /\ SameRuns
  /\ UNCHANGED <<to_host, accepted, call, calls, retried, received, image>>

ReadReply ==
  /\ pc = "reply"
  /\ Arrived
  /\ to_host' = Tail(to_host)
  /\ IF Head(to_host) = Okay THEN CommandSucceeds ELSE NoUnlockFails
  /\ LinkUnchanged /\ SameBoard /\ SameRuns
  /\ UNCHANGED <<accepted, call, calls, retried, received, image>>

NoReply ==
  /\ pc = "reply"
  /\ NoByteComes
  /\ NoUnlockFails
  /\ LinkUnchanged /\ SameBoard /\ SameRuns
  /\ UNCHANGED <<to_host, accepted, call, calls, retried, received, image>>

SendUnlockKey ==
  /\ pc = "unlock"
  /\ Write(Key)
  /\ received' = <<>>
  /\ IF Fits(Key)
     THEN pc' = "key" /\ UNCHANGED <<success, unlock_success, sent>>
     ELSE CommandFails
  /\ SameBoard /\ SameRuns
  /\ UNCHANGED <<to_host, accepted, call, calls, retried, image>>

\* Mutant: the last byte of the key is neither read nor compared.
AckLengthShort == 2

AckLength == 3   \* kUnlockKeyReceiveSize

\* Three bytes are read before they are compared.
ReadKey ==
  /\ pc = "key"
  /\ Arrived
  /\ to_host' = Tail(to_host)
  /\ LET got == Append(received, Head(to_host))
     IN  \/ /\ Len(got) < AckLength
            /\ received' = got
            /\ UNCHANGED <<pc, retried, success, unlock_success, sent>>
         \/ /\ got = SubSeq(Ack, 1, AckLength)
            /\ pc' = "command" /\ retried' = TRUE /\ received' = <<>>
            /\ UNCHANGED <<success, unlock_success, sent>>
         \/ /\ Len(got) = AckLength /\ got # SubSeq(Ack, 1, AckLength)
            /\ received' = <<>>
            /\ CommandFails
            /\ UNCHANGED retried
  /\ LinkUnchanged /\ SameBoard /\ SameRuns
  /\ UNCHANGED <<accepted, call, calls, image>>

NoKey ==
  /\ pc = "key"
  /\ NoByteComes
  /\ CommandFails
  /\ LinkUnchanged /\ SameBoard /\ SameRuns
  /\ UNCHANGED <<to_host, accepted, call, calls, retried, received, image>>

(***************************************************************************)
(* The transfers of WriteMemory and ReadMemory.                            *)
(***************************************************************************)
SendHeader ==
  /\ pc = "header"
  /\ Write(Header(call))
  /\ received' = <<>>
  /\ IF Fits(Header(call))
     THEN pc' = "transfer" /\ UNCHANGED success
     ELSE EndCall(FALSE)
  /\ SameBoard /\ SameRuns
  /\ UNCHANGED <<to_host, accepted, call, calls, retried, unlock_success, sent, image>>

Written(m, a, data) ==
  [b \in Address |->
     LET offset == (b - a) % AddressSpace
     IN  IF offset < Len(data) THEN data[offset + 1] ELSE m[b]]

\* The data is not acknowledged.
SendData ==
  /\ pc = "transfer" /\ call.op = "write"
  /\ Write(call.data)
  /\ EndCall(Fits(call.data))
  /\ image' = IF Fits(call.data) THEN Written(image, call.address, call.data) ELSE image
  /\ SameBoard /\ SameRuns
  /\ UNCHANGED <<to_host, accepted, call, calls, retried, received, unlock_success, sent>>

\* The number of bytes that read() gives is added without a look: when the line
\* has been hung up that is none, and the loop goes on.
ReadData ==
  /\ pc = "transfer" /\ call.op = "read"
  /\ \/ /\ Len(received) < call.size
        /\ Arrived
        /\ to_host' = Tail(to_host)
        /\ received' = Append(received, Head(to_host))
        /\ UNCHANGED <<pc, success>>
     \/ /\ Len(received) < call.size
        /\ PollExpires
        /\ EndCall(FALSE)
        /\ UNCHANGED <<to_host, received>>
     \/ /\ Len(received) = call.size
        /\ EndCall(TRUE)
        /\ UNCHANGED <<to_host, received>>
  /\ LinkUnchanged /\ SameBoard /\ SameRuns
  /\ UNCHANGED <<accepted, call, calls, retried, unlock_success, sent, image>>

(***************************************************************************)
(* The composition.                                                        *)
(***************************************************************************)
HostStep == \/ NextCall \/ Close \/ RefuseTransfer \/ SendCommandByte \/ ReadReply \/ NoReply
            \/ SendUnlockKey \/ ReadKey \/ NoKey \/ SendHeader \/ SendData \/ ReadData

Board == DeviceStep /\ UNCHANGED <<host_vars, resets, history_vars>>

Reset ==
  /\ resets < MaxResets
  /\ resets' = resets + 1
  /\ BoardReset
  /\ disturbed' = IF Idle /\ Undisturbed THEN disturbed ELSE "reset"
  /\ UNCHANGED <<host_vars, sent, image>>

\* The line is hung up: of the bytes on their way the first few still arrive.
HangUp ==
  /\ pc # "closed" /\ ~hung_up /\ sessions \in HangUpSessions
  /\ hung_up' = TRUE
  /\ \E sent_bytes \in 0..Len(to_device) : to_device' = SubSeq(to_device, 1, sent_bytes)
  /\ to_host' = <<>>
  /\ disturbed' = IF disturbed \in {"no", "found"} THEN "hangup" ELSE disturbed
  /\ SameBoard
  /\ UNCHANGED <<accepted, pc, call, calls, success, retried, received, unlock_success, backlog,
                 sessions, commands, resets, sent, image>>

LinkNext == HostStep \/ Open \/ IssueCommand \/ Quit \/ Kill \/ Board \/ Reset \/ HangUp

\* The board runs by itself; sicfpga, once it has begun a call, runs to its prompt.
LinkFairness == WF_link_vars(HostStep) /\ WF_link_vars(Board)

LinkSpec == LinkInit /\ [][LinkNext]_link_vars /\ LinkFairness

(***************************************************************************)
(* Properties.                                                             *)
(***************************************************************************)
\* Both ends of the link stay within their types.
LinkTypeOK ==
  /\ DeviceTypeOK
  /\ pc \in {"closed", "prompt", "command", "reply", "unlock", "key", "header", "transfer",
             "ended", "locking"}
  /\ call \in Calls /\ calls \in Seq(Calls)
  /\ {success, retried, unlock_success, backlog} \subseteq BOOLEAN
  /\ hung_up \in BOOLEAN
  /\ received \in Seq(Byte)
  /\ sent \in {"unknown", "ok", "failed"}
  /\ disturbed \in {"no", "found", "reading", "early", "reset", "hangup"}
  /\ image \in [Address -> Byte]
  /\ Len(to_device) <= TtyBuffer

\* SendCommand returns true only for a command that the board has accepted,
\* wherever in the key or in a write an earlier session left the board, and if
\* the line is hung up.  There are three exceptions.  A session that begins
\* before the board has come to rest takes what the board still sends for its
\* replies.  A board that waits for the header of a read takes the unlock key for
\* it, and answers with bytes of its memory, which may read "ACKK".  After a reset
\* in the middle of a transfer, the replies to the rest of the data are taken for
\* the replies to later commands.
SuccessMeansAccepted ==
  disturbed \in {"no", "found", "hangup"} /\ sent = "ok" => CommandByte(call) \in Range(accepted)

\* On a link that nobody disturbs, the unlock and the second attempt are
\* invisible: the board accepts each command exactly once, and none fails.
AcceptedExactlyOnce ==
  disturbed = "no" /\ sent # "unknown" => sent = "ok" /\ accepted = <<CommandByte(call)>>

\* Between commands, once the line has run empty, the board's RAM holds what
\* the successful WriteMemory calls sent although none was acknowledged, and
\* the board listens for a command or for the key.
MemoryIsAsWritten ==
  pc = "prompt" /\ disturbed = "no" /\ AtRest => memory = image /\ state \in {"LOCKED", "UNLOCKED"}

\* ReadMemory returns the bytes of the RAM, in order, and not some older reply.
ReadReturnsMemory ==
  pc = "ended" /\ success /\ call.op = "read" /\ disturbed = "no" =>
    received = [i \in 1..call.size |-> image[(call.address + i - 1) % AddressSpace]]

\* Every call returns: neither end waits for the other for ever, and a line that is
\* hung up ends what waits for it.  (But not ReadMemory, once it reads its bytes:
\* it adds up nothing for ever.)
ReadingNothing == hung_up /\ pc = "transfer" /\ call.op = "read"
CallsReturn == ~Idle ~> Idle \/ ReadingNothing

\* Leaving sicfpga in order locks the board.
QuitLocks == pc = "locking" /\ disturbed = "no" ~> state = "LOCKED" \/ disturbed # "no"

\* connection.h: ControlSignal is to "trigger a circuit control signal".
\* When it returns true, the board has triggered that signal.
SignalIsTriggered ==
  sent = "ok" /\ call.op = "control" => CommandByte(call) \in Range(accepted)
=============================================================================
