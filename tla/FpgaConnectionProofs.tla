------------------------ MODULE FpgaConnectionProofs ------------------------
(***************************************************************************)
(* Proofs about FpgaConnection, for any commands, any number of sessions   *)
(* and presses of the reset button, and registers of any width: the typing *)
(* of the link, and, when the writes are short enough for the timeout      *)
(* (ShortWrites), that the calls tell the truth about the board.           *)
(***************************************************************************)
EXTENDS FpgaConnection, SequenceTheorems, TLAPS

(***************************************************************************)
(* What the board will have done when it has taken in the line.            *)
(***************************************************************************)
\* Bytes of the header that the board has not received.
HeaderLeft == IF state = "GET_ADDR0" THEN 5 ELSE IF state = "GET_ADDR1" THEN 4
              ELSE IF state = "GET_ADDR2" THEN 3 ELSE IF state = "GET_COUNT0" THEN 2
              ELSE IF state = "GET_COUNT1" THEN 1 ELSE 0

\* The registers with the rest of the header.
LineAddress ==
  IF state = "GET_ADDR0" THEN to_device[1] + 256 * to_device[2] + 65536 * to_device[3]
  ELSE IF state = "GET_ADDR1" THEN (reg_address % 256) + 256 * to_device[1] + 65536 * to_device[2]
  ELSE IF state = "GET_ADDR2" THEN (reg_address % 65536) + 65536 * to_device[1]
  ELSE reg_address
LineCount ==
  IF state = "GET_ADDR0" THEN to_device[4] + 256 * to_device[5]
  ELSE IF state = "GET_ADDR1" THEN to_device[3] + 256 * to_device[4]
  ELSE IF state = "GET_ADDR2" THEN to_device[2] + 256 * to_device[3]
  ELSE IF state = "GET_COUNT0" THEN to_device[1] + 256 * to_device[2]
  ELSE IF state = "GET_COUNT1" THEN (reg_count % 256) + 256 * to_device[1]
  ELSE reg_count

\* The header's registers fit, and the header is whole.
HeaderFits ==
  /\ Len(to_device) >= HeaderLeft
  /\ LineAddress \in Address
  /\ LineCount \in 0..CountSpace - 1

\* Data bytes on the line, and the byte that goes to the o-th address from now on.
DataLeft == IF state = "WRITE_MEM" THEN LineCount - 1 ELSE LineCount
DataByte(o) == IF state # "WRITE_MEM" THEN to_device[HeaderLeft + o + 1]
               ELSE IF o = 0 THEN reg_data ELSE to_device[o]

Offset(b, a) == (b - a) % AddressSpace

\* The memory once the data has been written.
MemoryAfter ==
  [b \in Address |-> IF Offset(b, LineAddress) < LineCount THEN DataByte(Offset(b, LineAddress))
                                                           ELSE memory[b]]

(***************************************************************************)
(* The phases of the link.                                                 *)
(***************************************************************************)
\* On an undisturbed link, the memory that the writes made.
Image(m) == disturbed = "no" => image = m

Quiet == to_host = <<>> /\ out_data = NoByte

\* All that the board has sent since received was emptied.
Replies == received \o to_host \o (IF out_data = NoByte THEN <<>> ELSE <<out_data>>)

\* The last k bytes of the line are the command of the call (k = 0 or 1).
CommandLast(k) == k = 1 => to_device[Len(to_device)] = CommandByte(call)

Absorbing(k) ==
  /\ state \in HeaderStates \cup {"WRITE_START", "WRITE_IN", "WRITE_MEM"}
  /\ reg_command = WriteCommand
  /\ HeaderFits
  /\ state \in {"WRITE_IN", "WRITE_MEM"} => LineCount > 0
  /\ Len(to_device) = HeaderLeft + DataLeft + k
  /\ Image(MemoryAfter)

Listening(k) ==
  /\ \/ state = "UNLOCKED"
     \/ state = "READ_START" /\ reg_count = 0
     \/ state = "LOCKED" /\ (retried => pc = "prompt")
  /\ Len(to_device) = k
  /\ Image(memory)

\* The board will be ready for the command, and has nothing to say before.
Settled(k) ==
  /\ Quiet
  /\ Len(to_device) + 1 <= TimeoutBytes + k
  /\ Absorbing(k) \/ Listening(k)
  /\ CommandLast(k)

Accepting ==
  /\ state = "COMMAND_ACCEPT" /\ reg_command = CommandByte(call)
  /\ to_device = <<>> /\ Quiet /\ Image(memory)

Granted ==
  /\ to_device = <<>> /\ Image(memory)
  /\ IF call.op \in {"write", "read"}
     THEN state = "GET_ADDR0" /\ reg_command = CommandByte(call)
     ELSE state = "UNLOCKED"

Refusing ==
  /\ ~retried
  /\ to_device = <<>> /\ Image(memory)
  /\ \/ state = "PROTO_ERROR" /\ Quiet
     \/ state = "LOCKED" /\ Replies = <<Refused>>

KeyOnLine(i) ==
  /\ state = KeyStates[i] /\ to_device = SubSeq(Key, i, 5)
  /\ Quiet /\ received = <<>>

Acking(j) ==
  /\ state = IF j < 4 THEN AckStates[j] ELSE "UNLOCKED"
  /\ to_device = <<>> /\ Replies = SubSeq(Ack, 1, j - 1)

\* The header of the call is on the line, or the board has taken it.
Announced ==
  /\ reg_command = CommandByte(call)
  /\ HeaderFits /\ Len(to_device) = HeaderLeft
  /\ LineAddress = call.address /\ LineCount = TransferSize(call)
  /\ Quiet

AwaitingData ==
  /\ Image(memory)
  /\ \/ /\ state \in HeaderStates \cup {"WRITE_START", "WRITE_IN"}
        /\ Announced
        /\ state = "WRITE_IN" => LineCount > 0
     \/ state = "UNLOCKED" /\ to_device = <<>> /\ Quiet /\ TransferSize(call) = 0

\* What the host has or gets of a read.
SendingData ==
  /\ Image(memory)
  /\ to_device = <<>>
  /\ \A i \in 1..Len(Replies) : Replies[i] = memory[(call.address + i - 1) % AddressSpace]
  /\ \/ /\ state \in {"READ_START", "READ_MEM", "READ_OUT"}
        /\ Len(Replies) = call.size - reg_count
        /\ reg_address = (call.address + Len(Replies)) % AddressSpace
        /\ state # "READ_START" => reg_count > 0
        /\ state = "READ_OUT" => reg_data = memory[reg_address]
     \/ state = "UNLOCKED" /\ Len(Replies) = call.size

Reading ==
  \/ Image(memory) /\ received = <<>> /\ Announced /\ state \in HeaderStates
  \/ SendingData

(***************************************************************************)
(* The invariant, when the two ends agree.                                 *)
(***************************************************************************)
InCommand == pc = "command" => Settled(0) /\ received = <<>> /\ accepted = <<>>

InReply ==
  pc = "reply" =>
    /\ received = <<>> /\ ~backlog
    /\ \/ accepted = <<>> /\ (Settled(1) \/ Accepting \/ Refusing)
       \/ accepted = <<CommandByte(call)>> /\ Replies = <<Okay>> /\ Granted

InUnlock ==
  pc = "unlock" =>
    /\ state = "LOCKED" /\ to_device = <<>> /\ Quiet /\ Image(memory)
    /\ ~retried /\ received = <<>> /\ accepted = <<>>

InKey ==
  pc = "key" =>
    /\ ~backlog /\ ~retried /\ Len(received) < AckLength /\ accepted = <<>> /\ Image(memory)
    /\ (\E i \in 1..5 : KeyOnLine(i)) \/ (\E j \in 1..4 : Acking(j))

InHeader ==
  pc = "header" => Quiet /\ Granted /\ call.op \in {"write", "read"}

InTransfer ==
  pc = "transfer" =>
    /\ ~backlog /\ call.op \in {"write", "read"}
    /\ call.op = "write" => AwaitingData
    /\ call.op = "read" => Reading

ReadIsRight ==
  /\ Len(received) = call.size
  /\ disturbed = "no" =>
       \A i \in 1..call.size : received[i] = image[(call.address + i - 1) % AddressSpace]

InEnded ==
  pc = "ended" =>
    /\ Settled(0)
    /\ ~success => call.op \in {"write", "read"}
    /\ success /\ call.op = "read" => ReadIsRight

AtPrompt == pc = "prompt" => Settled(0)

\* Once the command is on its way, the transfer fits the count register.
TransferFits ==
  pc \in {"reply", "unlock", "key", "header", "transfer"} /\ call.op \in {"write", "read"}
    => TransferSize(call) < CountSpace

\* What SendCommand has returned.
Outcome ==
  /\ sent # "failed"
  /\ sent = "ok" => accepted = <<CommandByte(call)>>
  /\ pc \in {"command", "reply", "unlock", "key"} => sent = "unknown"
  /\ pc \in {"header", "transfer"} => sent = "ok"

Agreed ==
  /\ InCommand /\ InReply /\ InUnlock /\ InKey /\ InHeader /\ InTransfer
  /\ InEnded /\ AtPrompt /\ TransferFits /\ Outcome

(***************************************************************************)
(* The invariant in a session that found the board amid the key or a write *)
(* until it has found out: the board may take the first command and the    *)
(* key for something else, but answers at most 'X'.                        *)
(***************************************************************************)
\* The board takes the next bytes for those of an earlier write.
Astray == (state \in HeaderStates /\ reg_command = WriteCommand) \/ state = "WRITE_IN"
AstrayOrDone == Astray \/ state \in {"WRITE_START", "WRITE_MEM", "UNLOCKED"}

BeforeTest == Astray \/ state \in {"KEY_GET1", "KEY_GET2", "KEY_GET3", "KEY_GET4"}

FoundInCommand == pc = "command" => to_device = <<>> /\ Quiet /\ BeforeTest

FoundInReply ==
  pc = "reply" =>
    /\ Quiet /\ ~backlog
    /\ \/ to_device = <<TestCommand>> /\ BeforeTest
       \/ to_device = <<>> /\ AstrayOrDone

FoundInUnlock ==
  pc = "unlock" => to_device = <<>> /\ Quiet /\ (Astray \/ state = "UNLOCKED")

\* The first byte of the key does not reach a locked board.
FoundInKey ==
  pc = "key" =>
    /\ \E i \in 1..6 :
         /\ to_device = SubSeq(Key, i, 5)
         /\ AstrayOrDone \/ (state \in {"LOCKED", "PROTO_ERROR"} /\ i > 1)
    /\ \A i \in 1..Len(Replies) : Replies[i] = Refused
    /\ Len(received) < AckLength

Finding ==
  /\ disturbed = "found" /\ call = TestCall /\ calls = <<>> /\ ~retried
  /\ pc \in {"command", "reply", "unlock", "key", "ended"}
  /\ pc # "ended" => sent = "unknown" /\ accepted = <<>>
  /\ pc \notin {"key", "ended"} => received = <<>>
  /\ pc = "ended" => sent = "failed" /\ ~success
  /\ FoundInCommand /\ FoundInReply /\ FoundInUnlock /\ FoundInKey

(***************************************************************************)
(* The inductive invariant.                                                *)
(***************************************************************************)
IsShort(c) == c.op = "write" => Len(c.data) >= CountSpace \/ Len(c.data) + 6 <= TimeoutBytes

HeaderCommand == state \in HeaderStates => reg_command \in {ReadCommand, WriteCommand}

\* Only transfers have a header.
TransferCall == pc \in {"header", "transfer"} => call.op \in {"write", "read"}

CallsAreShort == IsShort(call) /\ \A i \in DOMAIN calls : IsShort(calls[i])

InSession ==
  disturbed \in {"no", "found"} =>
    IF pc \in {"closed", "locking"}
    THEN sent # "ok" /\ (disturbed = "no" => sent = "unknown")
    ELSE Agreed \/ Finding

\* While the two ends agree the line is up ...
LineIsUp == disturbed \in {"no", "found"} => ~hung_up

\* ... and once it is hung up no reply can make a call succeed.
AfterHangUp ==
  disturbed = "hangup" => hung_up /\ (sent = "ok" => CommandByte(call) \in Range(accepted))

LinkInv == /\ LinkTypeOK /\ TransferCall /\ HeaderCommand /\ CallsAreShort
           /\ InSession /\ LineIsUp /\ AfterHangUp

(***************************************************************************)
(* Facts about calls, registers and writes.                                *)
(***************************************************************************)
LEMMA SpaceFacts ==
  /\ AddressSpace \in Nat \ {0} /\ CountSpace \in Nat \ {0}
  /\ CountSpace <= AddressSpace
  /\ AddressSpace <= 256 \/ (AddressSpace % 65536 = 0 /\ AddressSpace <= 16777216)
  /\ CountSpace <= 256 \/ (CountSpace % 256 = 0 /\ CountSpace <= 65536)
<1>1. AddressSpace \in 1..256 \/ \E k \in 1..256 : AddressSpace = 65536 * k
  BY SpaceAssumption
<1>2. CountSpace \in 1..256 \/ \E k \in 1..256 : CountSpace = 256 * k
  BY SpaceAssumption
<1> QED  BY <1>1, <1>2, SpaceAssumption

\* What a remainder is, where it is the number itself, and one step further.
LEMMA RemainderFacts ==
  ASSUME NEW n \in Nat \ {0}
  PROVE  /\ \A x \in Int : x % n \in 0..n - 1
         /\ \A x \in Int : 0 <= x /\ x < n => x % n = x
  OBVIOUS

LEMMA AddressRemainder ==
  /\ \A x \in Int : x % AddressSpace \in Address
  /\ \A x \in Address : x % AddressSpace = x
<1>1. AddressSpace \in Nat \ {0}
  BY SpaceFacts
<1>2. /\ \A x \in Int : x % AddressSpace \in 0..AddressSpace - 1
      /\ \A x \in Int : 0 <= x /\ x < AddressSpace => x % AddressSpace = x
  BY <1>1, RemainderFacts, Zenon
<1> QED  BY <1>1, <1>2 DEF Address

LEMMA CountRemainder ==
  /\ \A x \in Int : x % CountSpace \in 0..CountSpace - 1
  /\ \A x \in 0..CountSpace - 1 : x % CountSpace = x
<1>1. CountSpace \in Nat \ {0}
  BY SpaceFacts
<1>2. /\ \A x \in Int : x % CountSpace \in 0..CountSpace - 1
      /\ \A x \in Int : 0 <= x /\ x < CountSpace => x % CountSpace = x
  BY <1>1, RemainderFacts, Zenon
<1> QED  BY <1>1, <1>2

LEMMA CallFacts ==
  ASSUME NEW c \in Calls
  PROVE  /\ c.op \in {"test", "control", "write", "read"}
         /\ c.op = "control" => c.signal \in 0..3
         /\ c.op = "write" => c.address \in Address /\ c.data \in Seq(Byte)
         /\ c.op = "read" => c.address \in Address /\ c.size \in Nat \ {0}
  BY DEF Calls

LEMMA CommandByteFacts ==
  ASSUME NEW c \in Calls
  PROVE  /\ CommandByte(c) \in KnownCommands /\ CommandByte(c) \in Byte
         /\ CommandByte(c) # LockCommand
         /\ c.op = "write" <=> CommandByte(c) = WriteCommand
         /\ c.op = "read" <=> CommandByte(c) = ReadCommand
         /\ CommandByte(c) \notin {83, 73, 67, 88, 69}
<1>1. CASE c.op = "control"
  <2>1. PICK sig \in 0..3 : CommandByte(c) = ControlCommand(sig)
    BY <1>1, CallFacts DEF CommandByte
  <2> QED  BY <2>1, <1>1 DEF ControlCommand, KnownCommands, Byte, LockCommand, WriteCommand, ReadCommand
<1>2. CASE c.op # "control"
  BY <1>2, CallFacts DEF CommandByte, KnownCommands, Byte, LockCommand, WriteCommand,
     ReadCommand, TestCommand
<1> QED  BY <1>1, <1>2

LEMMA TransferSizeType ==
  ASSUME NEW c \in Calls, c.op \in {"write", "read"}
  PROVE  TransferSize(c) \in Nat /\ c.address \in Nat
  BY CallFacts, SpaceFacts DEF TransferSize, Address

LEMMA HeaderType ==
  ASSUME NEW c \in Calls, c.op \in {"write", "read"}
  PROVE  Header(c) \in Seq(Byte) /\ Len(Header(c)) = 5
<1>1. TransferSize(c) \in Nat /\ c.address \in Nat
  BY TransferSizeType
<1> QED  BY <1>1 DEF Header, Byte

LEMMA KeyType == Key \in Seq(Byte) /\ Len(Key) = 5
  BY DEF Key, Byte

LEMMA WriteType ==
  ASSUME to_device \in Seq(Byte), Len(to_device) <= TtyBuffer,
         NEW bytes \in Seq(Byte), Write(bytes)
  PROVE  /\ to_device' \in Seq(Byte) /\ Len(to_device') <= TtyBuffer
         /\ backlog' \in BOOLEAN
         /\ Fits(bytes) => to_device' = to_device \o bytes
<1> DEFINE room == IF hung_up THEN 0 ELSE TtyBuffer - Len(to_device)
           n == IF room < Len(bytes) THEN room ELSE Len(bytes)
<1>1. to_device' = to_device \o SubSeq(bytes, 1, n) /\ backlog' = (Len(to_device') > TimeoutBytes)
  BY DEF Write
<1>2. room \in Nat /\ n \in 0..Len(bytes) /\ n <= room /\ room <= TtyBuffer - Len(to_device)
  BY LineAssumption
<1>3. SubSeq(bytes, 1, n) \in Seq(Byte) /\ Len(SubSeq(bytes, 1, n)) = n
  BY <1>2, SubSeqProperties
<1>4. Fits(bytes) => SubSeq(bytes, 1, n) = bytes
  BY LineAssumption, SubSeqFull DEF Fits
<1>5. backlog' \in BOOLEAN
  <2>1. (Len(to_device') > TimeoutBytes) \in BOOLEAN
    OBVIOUS
  <2> QED  BY <1>1, <2>1, Zenon
<1> HIDE DEF n
<1>6. to_device' \in Seq(Byte) /\ Len(to_device') = Len(to_device) + n
  BY <1>1, <1>2, <1>3, ConcatProperties
<1> HIDE DEF room
<1>7. Len(to_device') <= TtyBuffer
  BY <1>2, <1>6, LineAssumption
<1> QED  BY <1>1, <1>4, <1>5, <1>6, <1>7

LEMMA SetByteType ==
  ASSUME NEW register \in Nat, NEW i \in 0..2, NEW b \in Byte
  PROVE  SetByte(register, i, b) \in Nat
  BY DEF SetByte, Byte

(***************************************************************************)
(* The states of the machine.                                              *)
(***************************************************************************)
LEMMA KeyStatesAre == \A i \in 1..5 : KeyStates[i] = CASE i = 1 -> "LOCKED" [] i = 2 -> "KEY_GET1"
                                       [] i = 3 -> "KEY_GET2" [] i = 4 -> "KEY_GET3"
                                       [] i = 5 -> "KEY_GET4"
  BY DEF KeyStates

LEMMA StatesAre ==
  /\ HeaderStates = {"GET_ADDR0", "GET_ADDR1", "GET_ADDR2", "GET_COUNT0", "GET_COUNT1"}
  /\ Range(KeyStates) = {"LOCKED", "KEY_GET1", "KEY_GET2", "KEY_GET3", "KEY_GET4"}
  /\ SendStates = {"KEY_SEND1", "KEY_SEND2", "KEY_SEND3", "PROTO_ERROR", "COMMAND_ACCEPT",
                   "READ_OUT"}
<1>1. Range(AddressStates) = {"GET_ADDR0", "GET_ADDR1", "GET_ADDR2"}
  BY DEF Range, AddressStates
<1>2. Range(CountStates) = {"GET_COUNT0", "GET_COUNT1"}
  BY DEF Range, CountStates
<1>3. Range(KeyStates) = {"LOCKED", "KEY_GET1", "KEY_GET2", "KEY_GET3", "KEY_GET4"}
  BY DEF Range, KeyStates
<1>4. Range(AckStates) = {"KEY_SEND1", "KEY_SEND2", "KEY_SEND3"}
  BY DEF Range, AckStates
<1> QED  BY <1>1, <1>2, <1>3, <1>4 DEF SendStates, HeaderStates

LEMMA SetByteIs ==
  ASSUME NEW register \in Nat, NEW b \in Byte
  PROVE  /\ SetByte(register, 0, b) = 256 * (register \div 256) + b
         /\ SetByte(register, 1, b) = 65536 * (register \div 65536) + 256 * b + (register % 256)
         /\ SetByte(register, 2, b)
              = 16777216 * (register \div 16777216) + 65536 * b + (register % 65536)
  BY DEF SetByte, Byte

\* The registers' bytes that a state receives, and where it leads.
GetsByte(from, to) == state = from /\ state' = to

LEMMA ReceiveByState ==
  ASSUME Receive
  PROVE  /\ to_device # <<>> /\ to_device' = Tail(to_device)
         /\ UNCHANGED <<to_host, out_data, memory, cpu_enable, accepted>>
         /\ state \in Range(KeyStates) \cup HeaderStates \cup SendStates \cup {"UNLOCKED", "WRITE_IN"}
         /\ state \in SendStates => out_data # NoByte /\ UNCHANGED <<state, reg_vars>>
         /\ state = "UNLOCKED" => GetCommand(Head(to_device))
         /\ state = "WRITE_IN" => WriteIn(Head(to_device))
         /\ state \in Range(KeyStates) => GetKey(Head(to_device))
         /\ state \in HeaderStates => GetAddress(Head(to_device)) \/ GetCount(Head(to_device))
<1> DEFINE b == Head(to_device)
<1>1. GetKey(b) => state \in Range(KeyStates)
  BY DEF GetKey, Range
<1>2. GetAddress(b) \/ GetCount(b) => state \in HeaderStates
  BY StatesAre DEF GetAddress, GetCount, AddressStates, CountStates
<1>3. GetCommand(b) => state = "UNLOCKED"
  BY DEF GetCommand
<1>4. WriteIn(b) => state = "WRITE_IN"
  BY DEF WriteIn
<1>5. LoseByte => state \in SendStates /\ UNCHANGED <<state, reg_vars>>
  BY DEF LoseByte
<1>6. /\ GetKey(b) \/ GetCommand(b) \/ GetAddress(b) \/ GetCount(b) \/ WriteIn(b) \/ LoseByte
      /\ ~Working /\ to_device # <<>> /\ to_device' = Tail(to_device)
      /\ UNCHANGED <<to_host, out_data, memory, cpu_enable, accepted>>
  BY DEF Receive
<1>7. state \in SendStates => out_data # NoByte
  BY <1>6 DEF Working
<1> HIDE DEF b
<1>8. \A s \in SendStates : s \notin Range(KeyStates) \cup HeaderStates \cup {"UNLOCKED", "WRITE_IN"}
  BY StatesAre
<1>9. \A s \in HeaderStates : s \notin Range(KeyStates) \cup {"UNLOCKED", "WRITE_IN"}
  BY StatesAre
<1>10. \A s \in Range(KeyStates) : s \notin {"UNLOCKED", "WRITE_IN"}
  BY StatesAre
<1> QED  BY <1>1, <1>2, <1>3, <1>4, <1>5, <1>6, <1>7, <1>8, <1>9, <1>10 DEF b

LEMMA HeaderByState ==
  ASSUME NEW b, GetAddress(b) \/ GetCount(b)
  PROVE  /\ UNCHANGED <<reg_command, reg_data>>
         /\ \/ /\ GetsByte("GET_ADDR0", "GET_ADDR1") /\ UNCHANGED reg_count
               /\ reg_address' = SetByte(reg_address, 0, b) % AddressSpace
            \/ /\ GetsByte("GET_ADDR1", "GET_ADDR2") /\ UNCHANGED reg_count
               /\ reg_address' = SetByte(reg_address, 1, b) % AddressSpace
            \/ /\ GetsByte("GET_ADDR2", "GET_COUNT0") /\ UNCHANGED reg_count
               /\ reg_address' = SetByte(reg_address, 2, b) % AddressSpace
            \/ /\ GetsByte("GET_COUNT0", "GET_COUNT1") /\ UNCHANGED reg_address
               /\ reg_count' = SetByte(reg_count, 0, b) % CountSpace
            \/ /\ \/ GetsByte("GET_COUNT1", "WRITE_START") /\ reg_command = WriteCommand
                  \/ GetsByte("GET_COUNT1", "READ_START") /\ reg_command # WriteCommand
               /\ UNCHANGED reg_address
               /\ reg_count' = SetByte(reg_count, 1, b) % CountSpace
<1>1. CASE GetAddress(b)
  <2>1. PICK i \in 1..3 : /\ state = AddressStates[i]
                          /\ state' = IF i < 3 THEN AddressStates[i + 1] ELSE CountStates[1]
                          /\ reg_address' = SetByte(reg_address, i - 1, b) % AddressSpace
    BY <1>1 DEF GetAddress
  <2>2. UNCHANGED <<reg_command, reg_count, reg_data>>
    BY <1>1 DEF GetAddress
  <2>3. CASE i = 1
    BY <2>1, <2>2, <2>3 DEF AddressStates, GetsByte
  <2>4. CASE i = 2
    BY <2>1, <2>2, <2>4 DEF AddressStates, GetsByte
  <2>5. CASE i = 3
    BY <2>1, <2>2, <2>5 DEF AddressStates, CountStates, GetsByte
  <2> QED  BY <2>3, <2>4, <2>5
<1>2. CASE GetCount(b)
  <2>1. PICK i \in 1..2 : /\ state = CountStates[i]
                          /\ state' = IF i < 2 THEN CountStates[2]
                                      ELSE IF reg_command = WriteCommand THEN "WRITE_START"
                                                                         ELSE "READ_START"
                          /\ reg_count' = SetByte(reg_count, i - 1, b) % CountSpace
    BY <1>2 DEF GetCount
  <2>2. UNCHANGED <<reg_command, reg_address, reg_data>>
    BY <1>2 DEF GetCount
  <2>3. CASE i = 1
    BY <2>1, <2>2, <2>3 DEF CountStates, GetsByte
  <2>4. CASE i = 2
    BY <2>1, <2>2, <2>4 DEF CountStates, GetsByte
  <2> QED  BY <2>3, <2>4
<1> QED  BY <1>1, <1>2

\* The steps that receive nothing.
LEMMA StepByState ==
  ASSUME DeviceStep
  PROVE  \/ Receive
         \/ OutDone
         \/ state = "PROTO_ERROR" /\ SendError
         \/ state \in {"KEY_SEND1", "KEY_SEND2", "KEY_SEND3"} /\ SendKey
         \/ state = "COMMAND_ACCEPT" /\ AcceptCommand
         \/ state = "READ_OUT" /\ ReadOut
         \/ state \in {"WRITE_START", "READ_START"} /\ StartTransfer
         \/ state = "WRITE_MEM" /\ WriteMem
         \/ state = "READ_MEM" /\ ReadMem
<1>1. SendKey => state \in {"KEY_SEND1", "KEY_SEND2", "KEY_SEND3"}
  BY DEF SendKey, AckStates
<1>2. /\ SendError => state = "PROTO_ERROR"
      /\ AcceptCommand => state = "COMMAND_ACCEPT"
      /\ ReadOut => state = "READ_OUT"
      /\ StartTransfer => state \in {"WRITE_START", "READ_START"}
      /\ WriteMem => state = "WRITE_MEM"
      /\ ReadMem => state = "READ_MEM"
  BY DEF SendError, AcceptCommand, ReadOut, StartTransfer, WriteMem, ReadMem
<1> QED  BY <1>1, <1>2 DEF DeviceStep

(***************************************************************************)
(* Typing.                                                                 *)
(***************************************************************************)
LEMMA TailType ==
  ASSUME NEW s \in Seq(Byte), s # <<>>
  PROVE  /\ Head(s) \in Byte /\ Head(s) = s[1]
         /\ Tail(s) \in Seq(Byte) /\ Len(Tail(s)) = Len(s) - 1
         /\ \A i \in 1..Len(s) - 1 : Tail(s)[i] = s[i + 1]
  BY HeadTailProperties

LEMMA RegisterStates ==
  /\ HeaderStates \subseteq States /\ Range(KeyStates) \subseteq States
  /\ {"UNLOCKED", "WRITE_IN", "PROTO_ERROR", "COMMAND_ACCEPT", "READ_OUT",
      "KEY_SEND1", "KEY_SEND2", "KEY_SEND3"} \subseteq States
  /\ MemoryStates \subseteq States
  /\ "LOCKED" \in States /\ "GET_ADDR0" \in States
  BY StatesAre DEF States

LEMMA HeaderStepType ==
  ASSUME DeviceTypeOK, NEW b \in Byte, GetAddress(b) \/ GetCount(b)
  PROVE  /\ state' \in States /\ reg_command' \in KnownCommands /\ reg_address' \in Address
         /\ reg_count' \in 0..CountSpace - 1 /\ reg_data' \in Byte
<1> DEFINE a0 == SetByte(reg_address, 0, b)
           a1 == SetByte(reg_address, 1, b)
           a2 == SetByte(reg_address, 2, b)
           c0 == SetByte(reg_count, 0, b)
           c1 == SetByte(reg_count, 1, b)
<1>1. reg_address \in Nat /\ reg_count \in Nat
  BY SpaceFacts DEF DeviceTypeOK, Address
<1>2. a0 \in Int /\ a1 \in Int /\ a2 \in Int /\ c0 \in Int /\ c1 \in Int
  BY <1>1, SetByteType
<1>3. /\ UNCHANGED <<reg_command, reg_data>>
      /\ state' \in {"GET_ADDR1", "GET_ADDR2", "GET_COUNT0", "GET_COUNT1", "WRITE_START",
                     "READ_START"}
      /\ reg_address' \in {reg_address, a0 % AddressSpace, a1 % AddressSpace, a2 % AddressSpace}
      /\ reg_count' \in {reg_count, c0 % CountSpace, c1 % CountSpace}
  BY HeaderByState DEF GetsByte
<1> HIDE DEF a0, a1, a2, c0, c1
<1>4. reg_address' \in Address /\ reg_count' \in 0..CountSpace - 1
  BY <1>2, <1>3, AddressRemainder, CountRemainder DEF DeviceTypeOK
<1>5. state' \in States
  BY <1>3, RegisterStates, StatesAre DEF MemoryStates
<1> QED  BY <1>3, <1>4, <1>5 DEF DeviceTypeOK

LEMMA ReceiveType ==
  ASSUME DeviceTypeOK, Receive
  PROVE  DeviceTypeOK' /\ Len(to_device') = Len(to_device) - 1
<1> DEFINE b == Head(to_device)
<1>1. /\ to_device # <<>> /\ to_device' = Tail(to_device)
      /\ UNCHANGED <<to_host, out_data, memory, cpu_enable, accepted>>
      /\ state \in Range(KeyStates) \cup HeaderStates \cup SendStates \cup {"UNLOCKED", "WRITE_IN"}
  BY ReceiveByState
<1>2. b \in Byte /\ to_device' \in Seq(Byte) /\ Len(to_device') = Len(to_device) - 1
  BY <1>1, TailType DEF DeviceTypeOK
<1>3. /\ state' \in States /\ reg_command' \in KnownCommands /\ reg_address' \in Address
      /\ reg_count' \in 0..CountSpace - 1 /\ reg_data' \in Byte
  <2> USE DEF DeviceTypeOK
  <2>1. CASE state \in SendStates
    BY <2>1, ReceiveByState DEF reg_vars
  <2>2. CASE state = "UNLOCKED"
    <3>1. GetCommand(b)
      BY <2>2, ReceiveByState
    <3> QED  BY <3>1, <1>2, RegisterStates DEF GetCommand
  <2>3. CASE state = "WRITE_IN"
    <3>1. WriteIn(b)
      BY <2>3, ReceiveByState
    <3> QED  BY <3>1, <1>2, RegisterStates DEF WriteIn, MemoryStates
  <2>4. CASE state \in Range(KeyStates)
    <3>1. GetKey(b)
      BY <2>4, ReceiveByState
    <3>2. PICK i \in 1..5 : state' = IF b # Key[i] THEN "PROTO_ERROR"
                                     ELSE IF i < 5 THEN KeyStates[i + 1] ELSE AckStates[1]
      BY <3>1 DEF GetKey, KeyStates
    <3>3. state' \in States
      <4>1. i < 5 => KeyStates[i + 1] \in Range(KeyStates)
        BY DEF KeyStates, Range
      <4>2. AckStates[1] = "KEY_SEND1"
        BY DEF AckStates
      <4> QED  BY <3>2, <4>1, <4>2, RegisterStates
    <3>4. UNCHANGED <<reg_command, reg_address, reg_count, reg_data>>
      BY <3>1 DEF GetKey, reg_vars
    <3> QED  BY <3>3, <3>4
  <2>5. CASE state \in HeaderStates
    <3>1. GetAddress(b) \/ GetCount(b)
      BY <2>5, ReceiveByState
    <3> QED  BY <1>2, <3>1, HeaderStepType, Zenon
  <2> QED  BY <1>1, <2>1, <2>2, <2>3, <2>4, <2>5
<1> QED  BY <1>1, <1>2, <1>3 DEF DeviceTypeOK

LEMMA NextMemoryByteType ==
  ASSUME DeviceTypeOK, NextMemoryByte
  PROVE  reg_address' \in Address /\ reg_count' \in 0..CountSpace - 1
<1> DEFINE a == reg_address + 1
           c == reg_count - 1
<1>1. a \in Int /\ c \in Int
  BY SpaceFacts DEF DeviceTypeOK, Address
<1>2. reg_address' = a % AddressSpace /\ reg_count' = c % CountSpace
  BY DEF NextMemoryByte
<1> HIDE DEF a, c
<1> QED  BY <1>1, <1>2, AddressRemainder, CountRemainder

LEMMA DeviceStepType ==
  ASSUME DeviceTypeOK, DeviceStep
  PROVE  DeviceTypeOK' /\ Len(to_device') <= Len(to_device)
<1>1. CASE Receive
  BY <1>1, ReceiveType DEF DeviceTypeOK
<1>2. CASE OutDone
  BY <1>2, AppendProperties DEF DeviceTypeOK, OutDone, NoByte, reg_vars
<1>3. CASE SendError
  BY <1>3, RegisterStates DEF DeviceTypeOK, SendError, Send, Refused, Byte, channel_vars, reg_vars
<1>4. CASE SendKey
  <2>1. PICK i \in 1..3 : state' = (IF i < 3 THEN AckStates[i + 1] ELSE "UNLOCKED") /\ Send(Ack[i])
    BY <1>4 DEF SendKey
  <2>2. state' \in States
    BY <2>1, RegisterStates DEF AckStates
  <2>3. out_data' \in Byte
    BY <2>1 DEF Send, Ack, Byte
  <2> QED  BY <1>4, <2>2, <2>3 DEF DeviceTypeOK, SendKey, channel_vars, reg_vars
<1>5. CASE AcceptCommand
  <2>1. state' \in States
    BY <1>5, RegisterStates DEF AcceptCommand, AddressStates
  <2>2. accepted' \in Seq(KnownCommands)
    BY <1>5, AppendProperties DEF DeviceTypeOK, AcceptCommand
  <2>3. cpu_enable' \in BOOLEAN
    BY <1>5 DEF DeviceTypeOK, AcceptCommand, RunControl
  <2> QED  BY <1>5, <2>1, <2>2, <2>3
           DEF DeviceTypeOK, AcceptCommand, Send, Okay, Byte, channel_vars, reg_vars
<1>6. CASE ReadOut
  BY <1>6, RegisterStates, NextMemoryByteType
     DEF DeviceTypeOK, ReadOut, Send, channel_vars, MemoryStates
<1>7. CASE StartTransfer
  <2>1. state' \in States
    BY <1>7, RegisterStates DEF StartTransfer, MemoryStates
  <2> QED  BY <1>7, <2>1 DEF DeviceTypeOK, StartTransfer, channel_vars, reg_vars
<1>8. CASE WriteMem
  BY <1>8, RegisterStates, NextMemoryByteType
     DEF DeviceTypeOK, WriteMem, channel_vars, MemoryStates
<1>9. CASE ReadMem
  BY <1>9, RegisterStates DEF DeviceTypeOK, ReadMem, channel_vars
<1> QED  BY <1>1, <1>2, <1>3, <1>4, <1>5, <1>6, <1>7, <1>8, <1>9 DEF DeviceStep

\* A call begins with one of the commands that the user may give.
LEMMA CommandFacts ==
  ASSUME NEW cmd \in Commands
  PROVE  Head(cmd) \in Calls /\ Tail(cmd) \in Seq(Calls)
<1>1. cmd \in Seq(Calls) /\ cmd # <<>>
  BY CommandsAssumption
<1> QED  BY <1>1, HeadTailProperties

LEMMA LinkTypeStep ==
  ASSUME LinkTypeOK, TransferCall, [LinkNext]_link_vars
  PROVE  LinkTypeOK'
<1> DEFINE Unchanged == UNCHANGED <<state, reg_command, reg_address, reg_count, reg_data, out_data,
                                    memory, cpu_enable>>
<1>1. ASSUME Unchanged,
             to_device' \in Seq(Byte), to_host' \in Seq(Byte), accepted' \in Seq(KnownCommands)
      PROVE  DeviceTypeOK'
  BY <1>1 DEF LinkTypeOK, DeviceTypeOK
<1>2. to_host # <<>> => Head(to_host) \in Byte /\ Tail(to_host) \in Seq(Byte)
  BY TailType DEF LinkTypeOK, DeviceTypeOK
<1>3. <<>> \in Seq(Byte) /\ <<>> \in Seq(KnownCommands) /\ <<>> \in Seq(Calls)
  OBVIOUS
<1>4. ASSUME NEW bytes \in Seq(Byte), Write(bytes)
      PROVE  /\ to_device' \in Seq(Byte) /\ Len(to_device') <= TtyBuffer /\ backlog' \in BOOLEAN
             /\ UNCHANGED hung_up
  BY <1>4, WriteType DEF Write, LinkTypeOK, DeviceTypeOK
<1>5. /\ TestCall \in Calls
      /\ calls # <<>> => Head(calls) \in Calls /\ Tail(calls) \in Seq(Calls)
      /\ CommandByte(call) \in Byte /\ LockCommand \in Byte
  <2>1. calls # <<>> => Head(calls) \in Calls /\ Tail(calls) \in Seq(Calls)
    BY HeadTailProperties DEF LinkTypeOK
  <2>2. CommandByte(call) \in Byte
    BY CommandByteFacts DEF LinkTypeOK
  <2> QED  BY <2>1, <2>2 DEF TestCall, Calls, LockCommand, Byte
<1>6. <<CommandByte(call)>> \in Seq(Byte) /\ <<LockCommand>> \in Seq(Byte)
  BY <1>5
<1> USE DEF SameBoard, SameRuns, LinkUnchanged, reg_vars, channel_vars
<1>7. CASE Open
  <2>1. FoundBoard \in {"no", "found", "reading", "early"}
    BY DEF FoundBoard
  <2> QED  BY <1>1, <1>3, <1>5, <1>7, <2>1 DEF Open, StartCall, LinkTypeOK, DeviceTypeOK
<1>8. CASE IssueCommand
  BY <1>1, <1>3, <1>8, CommandFacts DEF IssueCommand, StartCall, LinkTypeOK, DeviceTypeOK
<1>9. CASE NextCall
  BY <1>1, <1>3, <1>5, <1>9 DEF NextCall, StartCall, LinkTypeOK, DeviceTypeOK
<1>10. CASE Quit
  BY <1>1, <1>3, <1>4, <1>5, <1>6, <1>10 DEF Quit, ProcessEnds, LinkTypeOK, DeviceTypeOK
<1>11. CASE Close
  BY <1>1, <1>2, <1>3, <1>5, <1>11 DEF Close, Arrived, ProcessEnds, LinkTypeOK, DeviceTypeOK
<1>12. CASE Kill
  BY <1>1, <1>3, <1>5, <1>12 DEF Kill, ProcessEnds, LinkTypeOK, DeviceTypeOK
<1>13. CASE RefuseTransfer
  BY <1>1, <1>13 DEF RefuseTransfer, EndCall, LinkTypeOK, DeviceTypeOK
<1>14. CASE SendCommandByte
  BY <1>1, <1>4, <1>6, <1>14
     DEF SendCommandByte, NoUnlockFails, CommandFails, EndCall, LinkTypeOK, DeviceTypeOK
<1>15. CASE ReadReply
  BY <1>1, <1>2, <1>15
     DEF ReadReply, Arrived, CommandSucceeds, NoUnlockFails, CommandFails, EndCall, LinkTypeOK, DeviceTypeOK
<1>16. CASE NoReply
  BY <1>1, <1>16 DEF NoReply, NoUnlockFails, CommandFails, EndCall, LinkTypeOK, DeviceTypeOK
<1>17. CASE SendUnlockKey
  BY <1>1, <1>3, <1>4, <1>17, KeyType
     DEF SendUnlockKey, CommandFails, EndCall, LinkTypeOK, DeviceTypeOK
<1>18. CASE ReadKey
  <2>1. Append(received, Head(to_host)) \in Seq(Byte)
    BY <1>2, <1>18, AppendProperties DEF ReadKey, Arrived, LinkTypeOK
  <2> QED  BY <1>1, <1>2, <1>3, <1>18, <2>1
           DEF ReadKey, Arrived, CommandFails, EndCall, LinkTypeOK, DeviceTypeOK
<1>19. CASE NoKey
  BY <1>1, <1>19 DEF NoKey, CommandFails, EndCall, LinkTypeOK, DeviceTypeOK
<1>20. CASE SendHeader
  <2>1. Header(call) \in Seq(Byte)
    BY <1>20, HeaderType DEF SendHeader, LinkTypeOK, TransferCall
  <2> QED  BY <1>1, <1>3, <1>4, <1>20, <2>1 DEF SendHeader, EndCall, LinkTypeOK, DeviceTypeOK
<1>21. CASE SendData
  <2>1. call.op = "write" /\ call.data \in Seq(Byte) /\ call.address \in Address
    BY <1>21, CallFacts DEF SendData, LinkTypeOK
  <2>2. success' \in BOOLEAN
    <3>1. Fits(call.data) \in BOOLEAN
      BY DEF Fits
    <3> QED  BY <1>21, <3>1, Zenon DEF SendData, EndCall
  <2>3. Written(image, call.address, call.data) \in [Address -> Byte]
    <3>1. ASSUME NEW b \in Address, (b - call.address) % AddressSpace < Len(call.data)
          PROVE  call.data[((b - call.address) % AddressSpace) + 1] \in Byte
      <4>1. b - call.address \in Int
        BY <2>1, SpaceFacts DEF Address
      <4>2. (b - call.address) % AddressSpace \in Nat
        BY <4>1, AddressRemainder, SpaceFacts DEF Address
      <4> QED  BY <2>1, <3>1, <4>2, ElementOfSeq
    <3> QED  BY <3>1 DEF Written, LinkTypeOK
  <2>4. image' \in [Address -> Byte]
    BY <1>21, <2>3 DEF SendData, LinkTypeOK
  <2> QED  BY <1>1, <1>4, <1>21, <2>1, <2>2, <2>4 DEF SendData, EndCall, LinkTypeOK, DeviceTypeOK
<1>22. CASE ReadData
  <2>1. to_host # <<>> => Append(received, Head(to_host)) \in Seq(Byte)
    BY <1>2, AppendProperties DEF LinkTypeOK
  <2> QED  BY <1>1, <1>2, <1>22, <2>1 DEF ReadData, Arrived, EndCall, LinkTypeOK, DeviceTypeOK
<1>23. CASE Board
  <2>1. DeviceTypeOK' /\ Len(to_device') <= Len(to_device)
    BY <1>23, DeviceStepType DEF Board, LinkTypeOK
  <2>2. Len(to_device') <= TtyBuffer
    BY <2>1, LineAssumption DEF LinkTypeOK, DeviceTypeOK
  <2> QED  BY <1>23, <2>1, <2>2 DEF Board, host_vars, history_vars, LinkTypeOK
<1>24. CASE Reset
  <2>1. DeviceTypeOK'
    <3>1. 0 \in KnownCommands
      BY DEF KnownCommands, TestCommand
    <3>2. 0 \in Address /\ 0 \in 0..CountSpace - 1 /\ 0 \in Byte
      BY SpaceFacts DEF Address, Byte
    <3>3. "LOCKED" \in States
      BY RegisterStates
    <3>4. /\ state' = "LOCKED" /\ reg_command' = 0 /\ reg_address' = 0 /\ reg_count' = 0
          /\ reg_data' = 0 /\ out_data' = NoByte /\ cpu_enable' = FALSE
          /\ UNCHANGED <<to_device, to_host, memory, accepted>>
      BY <1>24 DEF Reset, BoardReset
    <3> QED  BY <3>1, <3>2, <3>3, <3>4 DEF LinkTypeOK, DeviceTypeOK
  <2>2. UNCHANGED <<to_device, host_vars, sent, image>>
    BY <1>24 DEF Reset, BoardReset
  <2>3. disturbed' \in {"no", "found", "reading", "early", "reset", "hangup"}
    BY <1>24 DEF Reset, LinkTypeOK
  <2> QED  BY <2>1, <2>2, <2>3 DEF host_vars, LinkTypeOK
<1>25. CASE HangUp
  <2>1. PICK sent_bytes \in 0..Len(to_device) : to_device' = SubSeq(to_device, 1, sent_bytes)
    BY <1>25 DEF HangUp
  <2>2. to_device \in Seq(Byte) /\ Len(to_device) <= TtyBuffer
    BY DEF LinkTypeOK, DeviceTypeOK
  <2>3. to_device' \in Seq(Byte) /\ Len(to_device') = sent_bytes
    BY <2>1, <2>2, SubSeqProperties
  <2>4. Len(to_device') <= TtyBuffer
    BY <2>2, <2>3, LineAssumption
  <2>5. DeviceTypeOK'
    BY <1>1, <1>3, <1>25, <2>3 DEF HangUp, LinkTypeOK, DeviceTypeOK
  <2>6. hung_up' \in BOOLEAN /\ disturbed' \in {"no", "found", "reading", "early", "reset", "hangup"}
    BY <1>25 DEF HangUp, LinkTypeOK
  <2> QED  BY <1>25, <2>4, <2>5, <2>6 DEF HangUp, LinkTypeOK
<1>26. CASE UNCHANGED link_vars
  BY <1>26 DEF link_vars, device_vars, host_vars, history_vars, LinkTypeOK, DeviceTypeOK
<1> QED  BY <1>7, <1>8, <1>9, <1>10, <1>11, <1>12, <1>13, <1>14, <1>15, <1>16, <1>17, <1>18,
            <1>19, <1>20, <1>21, <1>22, <1>23, <1>24, <1>25, <1>26 DEF LinkNext, HostStep

LEMMA TransferCallStep ==
  ASSUME TransferCall, [LinkNext]_link_vars
  PROVE  TransferCall'
<1>1. CASE pc' = pc /\ call' = call
  BY <1>1 DEF TransferCall
<1>2. CASE pc' \notin {"header", "transfer"}
  BY <1>2 DEF TransferCall
<1>3. CASE HostStep
  <2>1. CASE SendHeader
    BY <2>1 DEF SendHeader, EndCall, TransferCall
  <2>2. CASE ReadReply
    BY <2>2 DEF ReadReply, CommandSucceeds, NoUnlockFails, CommandFails, EndCall, TransferCall
  <2>3. CASE ReadData
    BY <2>3 DEF ReadData, EndCall, TransferCall
  <2>4. CASE ReadKey
    BY <2>4 DEF ReadKey, CommandFails, EndCall, TransferCall
  <2> QED  BY <1>3, <2>1, <2>2, <2>3, <2>4
           DEF HostStep, NextCall, Close, RefuseTransfer, SendCommandByte, NoReply,
               SendUnlockKey, NoKey, SendData, StartCall, ProcessEnds, NoUnlockFails,
               CommandFails, EndCall, TransferCall
<1>4. CASE Open \/ IssueCommand \/ Quit \/ Kill
  BY <1>4 DEF Open, IssueCommand, Quit, Kill, StartCall, ProcessEnds, TransferCall
<1>5. CASE Board \/ Reset \/ HangUp \/ UNCHANGED link_vars
  BY <1>5 DEF Board, Reset, HangUp, link_vars, host_vars, TransferCall
<1> QED  BY <1>3, <1>4, <1>5 DEF LinkNext

LEMMA LinkTypeInit == LinkInit => LinkTypeOK /\ TransferCall
<1> SUFFICES ASSUME LinkInit PROVE LinkTypeOK /\ TransferCall
  OBVIOUS
<1>1. 0 \in KnownCommands /\ TestCall \in Calls
  BY DEF KnownCommands, TestCommand, TestCall, Calls
<1>2. 0 \in Address /\ 0 \in 0..CountSpace - 1 /\ 0 \in Byte
  BY SpaceFacts DEF Address, Byte
<1>3. "LOCKED" \in States
  BY RegisterStates
<1>4. <<>> \in Seq(Byte) /\ <<>> \in Seq(KnownCommands) /\ <<>> \in Seq(Calls) /\ Len(<<>>) = 0
  OBVIOUS
<1>5. memory \in [Address -> Byte] /\ image = memory
  BY <1>2 DEF LinkInit, DeviceInit
<1>6. DeviceTypeOK
  BY <1>1, <1>2, <1>3, <1>4, <1>5 DEF LinkInit, DeviceInit, DeviceTypeOK
<1>7. Len(to_device) <= TtyBuffer
  BY <1>4, LineAssumption DEF LinkInit, DeviceInit
<1>8. image \in [Address -> Byte]
  BY <1>5
<1>9. /\ pc = "closed" /\ call \in Calls /\ calls \in Seq(Calls) /\ received \in Seq(Byte)
      /\ {success, retried, unlock_success, backlog} \subseteq BOOLEAN /\ hung_up \in BOOLEAN
      /\ sent = "unknown" /\ disturbed = "no"
  BY <1>1, <1>4 DEF LinkInit
<1> QED  BY <1>6, <1>7, <1>8, <1>9 DEF LinkTypeOK, TransferCall

\* Both ends of the link stay within their types: the bytes of a header and of
\* the data, the registers with the addresses that wrap around, the replies.
THEOREM LinkTypeCorrect == LinkSpec => []LinkTypeOK
<1>1. LinkTypeOK /\ TransferCall /\ [LinkNext]_link_vars => LinkTypeOK' /\ TransferCall'
  BY LinkTypeStep, TransferCallStep
<1> QED  BY <1>1, LinkTypeInit, PTL DEF LinkSpec

(***************************************************************************)
(* The registers as the header arrives, byte by byte.                      *)
(***************************************************************************)
LEMMA FirstAddressByte ==
  ASSUME NEW r \in Address, NEW b \in Byte, b < AddressSpace
  PROVE  /\ SetByte(r, 0, b) % AddressSpace \in Address
         /\ (SetByte(r, 0, b) % AddressSpace) % 256 = b
<1> DEFINE x == SetByte(r, 0, b)
<1>1. r \in Nat
  BY SpaceFacts DEF Address
<1>2. x = 256 * (r \div 256) + b
  BY <1>1, SetByteIs, SMT
<1> HIDE DEF x
<1>3. x \in Address /\ x % 256 = b
  BY <1>1, <1>2, SpaceFacts, SMT DEF Address, Byte
<1> QED  BY <1>3, AddressRemainder DEF x

LEMMA SecondAddressByte ==
  ASSUME NEW r \in Address, NEW b \in Byte, (r % 256) + 256 * b < AddressSpace
  PROVE  /\ SetByte(r, 1, b) % AddressSpace \in Address
         /\ (SetByte(r, 1, b) % AddressSpace) % 65536 = (r % 256) + 256 * b
<1> DEFINE x == SetByte(r, 1, b)
<1>1. r \in Nat
  BY SpaceFacts DEF Address
<1>2. x = 65536 * (r \div 65536) + 256 * b + (r % 256)
  BY <1>1, SetByteIs, SMT
<1> HIDE DEF x
<1>3. x \in Address /\ x % 65536 = (r % 256) + 256 * b
  BY <1>1, <1>2, SpaceFacts, SMT DEF Address, Byte
<1> QED  BY <1>3, AddressRemainder, SMT DEF x

LEMMA ThirdAddressByte ==
  ASSUME NEW r \in Address, NEW b \in Byte, (r % 65536) + 65536 * b < AddressSpace
  PROVE  SetByte(r, 2, b) % AddressSpace = (r % 65536) + 65536 * b
<1> DEFINE x == SetByte(r, 2, b)
<1>1. r \in Nat
  BY SpaceFacts DEF Address
<1>2. x = 16777216 * (r \div 16777216) + 65536 * b + (r % 65536)
  BY <1>1, SetByteIs, SMT
<1> HIDE DEF x
<1>3. x \in Address /\ x = (r % 65536) + 65536 * b
  BY <1>1, <1>2, SpaceFacts, SMT DEF Address, Byte
<1> QED  BY <1>3, AddressRemainder, SMT DEF x

LEMMA FirstCountByte ==
  ASSUME NEW r \in 0..CountSpace - 1, NEW b \in Byte, b < CountSpace
  PROVE  /\ SetByte(r, 0, b) % CountSpace \in 0..CountSpace - 1
         /\ (SetByte(r, 0, b) % CountSpace) % 256 = b
<1> DEFINE x == SetByte(r, 0, b)
<1>1. r \in Nat
  BY SpaceFacts DEF Address
<1>2. x = 256 * (r \div 256) + b
  BY <1>1, SetByteIs, SMT
<1> HIDE DEF x
<1>3. x \in 0..CountSpace - 1 /\ x % 256 = b
  BY <1>1, <1>2, SpaceFacts, SMT DEF Byte
<1> QED  BY <1>3, CountRemainder DEF x

LEMMA SecondCountByte ==
  ASSUME NEW r \in 0..CountSpace - 1, NEW b \in Byte, (r % 256) + 256 * b < CountSpace
  PROVE  SetByte(r, 1, b) % CountSpace = (r % 256) + 256 * b
<1> DEFINE x == SetByte(r, 1, b)
<1>1. r \in Nat
  BY SpaceFacts DEF Address
<1>2. x = 65536 * (r \div 65536) + 256 * b + (r % 256)
  BY <1>1, SetByteIs, SMT
<1> HIDE DEF x
<1>3. x \in 0..CountSpace - 1 /\ x = (r % 256) + 256 * b
  BY <1>1, <1>2, SpaceFacts, SMT DEF Byte
<1> QED  BY <1>3, CountRemainder DEF x

\* What the line and the registers say together does not change as the board
\* receives a byte of the header.
LEMMA HeaderReceive ==
  ASSUME DeviceTypeOK, state \in HeaderStates, HeaderFits, Receive
  PROVE  /\ HeaderFits' /\ HeaderLeft' = HeaderLeft - 1
         /\ LineAddress' = LineAddress /\ LineCount' = LineCount
         /\ UNCHANGED <<reg_command, reg_data, to_host, out_data, memory, accepted>>
         /\ \/ state' \in HeaderStates
            \/ state' = "WRITE_START" /\ reg_command = WriteCommand
            \/ state' = "READ_START" /\ reg_command # WriteCommand
<1> DEFINE b == Head(to_device)
<1>1. /\ to_device # <<>> /\ to_device' = Tail(to_device)
      /\ UNCHANGED <<to_host, out_data, memory, accepted>>
      /\ GetAddress(b) \/ GetCount(b)
  BY ReceiveByState
<1>2. /\ b \in Byte /\ b = to_device[1]
      /\ to_device' \in Seq(Byte) /\ Len(to_device') = Len(to_device) - 1
      /\ \A i \in 1..Len(to_device) - 1 : to_device'[i] = to_device[i + 1]
  BY <1>1, TailType DEF DeviceTypeOK
<1>3. \A i \in 1..Len(to_device) : to_device[i] \in Byte
  BY ElementOfSeq DEF DeviceTypeOK
<1>4. reg_address \in Address /\ reg_count \in 0..CountSpace - 1 /\ reg_address \in Nat
      /\ reg_count \in Nat /\ Len(to_device) \in Nat
      /\ AddressSpace \in Nat /\ CountSpace \in Nat
  BY SpaceFacts DEF DeviceTypeOK, Address
<1>5. Len(to_device) >= HeaderLeft /\ LineAddress \in Address /\ LineCount \in 0..CountSpace - 1
  BY DEF HeaderFits
<1> HIDE DEF b
<1>b. b \in Byte
  BY <1>2
<1>6. CASE GetsByte("GET_ADDR0", "GET_ADDR1")
  <2>1. /\ UNCHANGED <<reg_command, reg_data, reg_count>>
        /\ reg_address' = SetByte(reg_address, 0, b) % AddressSpace
    BY <1>1, <1>2, <1>4, <1>6, HeaderByState DEF GetsByte
  <2>2. HeaderLeft = 5 /\ HeaderLeft' = 4
    BY <1>6 DEF HeaderLeft, GetsByte
  <2>3. to_device[2] \in Byte /\ to_device[3] \in Byte
    BY <1>3, <1>5, <2>2
  <2>4. LineAddress = b + 256 * to_device[2] + 65536 * to_device[3]
    BY <1>2, <1>6, SMT DEF LineAddress, GetsByte
  <2>5. b < AddressSpace
    <3> DEFINE c == to_device[2]
               d == to_device[3]
    <3>1. c \in 0..255 /\ d \in 0..255 /\ b \in 0..255
      BY <1>b, <2>3 DEF Byte
    <3>2. b + 256 * c + 65536 * d \in 0..AddressSpace - 1
      BY <1>5, <2>4 DEF Address
    <3> HIDE DEF c, d
    <3> QED  BY <1>4, <3>1, <3>2, SMT
  <2>6. reg_address' \in Address /\ reg_address' % 256 = b
    BY <1>2, <1>4, <2>1, <2>5, FirstAddressByte
  <2>7. /\ to_device'[1] = to_device[2] /\ to_device'[2] = to_device[3]
        /\ to_device'[3] = to_device[4] /\ to_device'[4] = to_device[5]
    BY <1>2, <1>4, <1>5, <2>2
  <2>8. LineAddress' = LineAddress /\ LineCount' = LineCount
    BY <1>6, <2>4, <2>6, <2>7, SMT DEF LineAddress, LineCount, GetsByte
  <2> QED  BY <1>1, <1>2, <1>5, <1>6, <2>1, <2>2, <2>8, StatesAre DEF HeaderFits, GetsByte
<1>7. CASE GetsByte("GET_ADDR1", "GET_ADDR2")
  <2>1. /\ UNCHANGED <<reg_command, reg_data, reg_count>>
        /\ reg_address' = SetByte(reg_address, 1, b) % AddressSpace
    BY <1>1, <1>2, <1>4, <1>7, HeaderByState DEF GetsByte
  <2>2. HeaderLeft = 4 /\ HeaderLeft' = 3
    BY <1>7 DEF HeaderLeft, GetsByte
  <2>3. to_device[2] \in Byte
    BY <1>3, <1>5, <2>2
  <2>4. LineAddress = (reg_address % 256) + 256 * b + 65536 * to_device[2]
    BY <1>2, <1>7, SMT DEF LineAddress, GetsByte
  <2>5. (reg_address % 256) + 256 * b < AddressSpace
    <3> DEFINE c == to_device[2]
               a == reg_address % 256
    <3>1. c \in 0..255 /\ b \in 0..255 /\ a \in Nat
      BY <1>b, <1>4, <2>3, SMT DEF Byte
    <3>2. a + 256 * b + 65536 * c \in 0..AddressSpace - 1
      BY <1>5, <2>4 DEF Address
    <3> HIDE DEF a, c
    <3>3. a + 256 * b < AddressSpace
      BY <1>4, <3>1, <3>2, SMT
    <3> QED  BY <3>3 DEF a
  <2>6. reg_address' \in Address /\ reg_address' % 65536 = (reg_address % 256) + 256 * b
    BY <1>b, <1>4, <2>1, <2>5, SecondAddressByte, SMT
  <2>7. /\ to_device'[1] = to_device[2] /\ to_device'[2] = to_device[3]
        /\ to_device'[3] = to_device[4]
    BY <1>2, <1>4, <1>5, <2>2
  <2>8. LineAddress' = LineAddress /\ LineCount' = LineCount
    BY <1>7, <2>4, <2>6, <2>7, SMT DEF LineAddress, LineCount, GetsByte
  <2> QED  BY <1>1, <1>2, <1>5, <1>7, <2>1, <2>2, <2>8, StatesAre DEF HeaderFits, GetsByte
<1>8. CASE GetsByte("GET_ADDR2", "GET_COUNT0")
  <2>1. /\ UNCHANGED <<reg_command, reg_data, reg_count>>
        /\ reg_address' = SetByte(reg_address, 2, b) % AddressSpace
    BY <1>1, <1>2, <1>4, <1>8, HeaderByState DEF GetsByte
  <2>2. HeaderLeft = 3 /\ HeaderLeft' = 2
    BY <1>8 DEF HeaderLeft, GetsByte
  <2>3. LineAddress = (reg_address % 65536) + 65536 * b
    BY <1>2, <1>8, SMT DEF LineAddress, GetsByte
  <2>4. (reg_address % 65536) + 65536 * b < AddressSpace
    BY <1>4, <1>5, <2>3, SMT DEF Address
  <2>5. reg_address' = LineAddress
    BY <1>b, <1>4, <2>1, <2>3, <2>4, ThirdAddressByte, SMT
  <2>6. to_device'[1] = to_device[2] /\ to_device'[2] = to_device[3]
    BY <1>2, <1>4, <1>5, <2>2
  <2>7. LineAddress' = LineAddress /\ LineCount' = LineCount
    <3>1. LineAddress' = reg_address'
      BY <1>8, SMT DEF LineAddress, GetsByte
    <3>2. LineCount' = LineCount
      BY <1>8, <2>6 DEF LineCount, GetsByte
    <3> QED  BY <2>5, <3>1, <3>2
  <2> QED  BY <1>1, <1>2, <1>5, <1>8, <2>1, <2>2, <2>7, StatesAre DEF HeaderFits, GetsByte
<1>9. CASE GetsByte("GET_COUNT0", "GET_COUNT1")
  <2>1. /\ UNCHANGED <<reg_command, reg_data, reg_address>>
        /\ reg_count' = SetByte(reg_count, 0, b) % CountSpace
    BY <1>1, <1>2, <1>4, <1>9, HeaderByState DEF GetsByte
  <2>2. HeaderLeft = 2 /\ HeaderLeft' = 1
    BY <1>9 DEF HeaderLeft, GetsByte
  <2>3. to_device[2] \in Byte
    BY <1>3, <1>5, <2>2
  <2>4. LineCount = b + 256 * to_device[2]
    BY <1>2, <1>9 DEF LineCount, GetsByte
  <2>5. b < CountSpace
    <3> DEFINE c == to_device[2]
    <3>1. c \in 0..255 /\ b \in 0..255
      BY <1>b, <2>3 DEF Byte
    <3>2. b + 256 * c \in 0..CountSpace - 1
      BY <1>5, <2>4
    <3> HIDE DEF c
    <3> QED  BY <1>4, <3>1, <3>2, SMT
  <2>6. reg_count' % 256 = b
    BY <1>2, <1>4, <2>1, <2>5, FirstCountByte
  <2>7. to_device'[1] = to_device[2]
    BY <1>2, <1>4, <1>5, <2>2
  <2>8. LineAddress' = LineAddress /\ LineCount' = LineCount
    BY <1>9, <2>1, <2>4, <2>6, <2>7, SMT DEF LineAddress, LineCount, GetsByte
  <2> QED  BY <1>1, <1>2, <1>5, <1>9, <2>1, <2>2, <2>8, StatesAre DEF HeaderFits, GetsByte
<1>10. CASE \/ GetsByte("GET_COUNT1", "WRITE_START") /\ reg_command = WriteCommand
            \/ GetsByte("GET_COUNT1", "READ_START") /\ reg_command # WriteCommand
  <2>1. /\ UNCHANGED <<reg_command, reg_data, reg_address>>
        /\ reg_count' = SetByte(reg_count, 1, b) % CountSpace
    BY <1>1, <1>2, <1>4, <1>10, HeaderByState DEF GetsByte
  <2>2. HeaderLeft = 1 /\ HeaderLeft' = 0
    BY <1>10 DEF HeaderLeft, GetsByte
  <2>3. LineCount = (reg_count % 256) + 256 * b
    BY <1>2, <1>10 DEF LineCount, GetsByte
  <2>4. (reg_count % 256) + 256 * b < CountSpace
    BY <1>4, <1>5, <2>3
  <2>5. reg_count' = LineCount
    BY <1>2, <1>4, <2>1, <2>3, <2>4, SecondCountByte
  <2>6. LineAddress' = LineAddress /\ LineCount' = LineCount
    BY <1>10, <2>1, <2>5, SMT DEF LineAddress, LineCount, GetsByte
  <2> QED  BY <1>1, <1>2, <1>5, <1>10, <2>1, <2>2, <2>6 DEF HeaderFits, GetsByte
<1> QED  BY <1>1, <1>2, <1>4, <1>6, <1>7, <1>8, <1>9, <1>10, HeaderByState

(***************************************************************************)
(* Addresses that wrap around.                                             *)
(***************************************************************************)
LEMMA WrapFacts ==
  ASSUME NEW n \in Nat \ {0}, NEW x \in Int
  PROVE  /\ -n <= x /\ x < 0 => x % n = x + n
         /\ n <= x /\ x < 2 * n => x % n = x - n
<1>1. x % n \in 0..n - 1 /\ x = n * (x \div n) + (x % n)
  OBVIOUS
<1> DEFINE q == x \div n
           r == x % n
<1>2. q \in Int /\ r \in 0..n - 1 /\ x = n * q + r
  BY <1>1
<1> HIDE DEF q, r
<1>3. ASSUME -n <= x, x < 0 PROVE q = -1
  <2>1. CASE q >= 0
    <3>1. n * q >= 0
      BY <2>1, <1>2
    <3> QED  BY <1>2, <1>3, <3>1
  <2>2. CASE q <= -2
    <3>1. n * q <= n * (-2)
      BY <2>2, <1>2
    <3> QED  BY <1>2, <1>3, <3>1
  <2> QED  BY <1>2, <2>1, <2>2
<1>4. ASSUME n <= x, x < 2 * n PROVE q = 1
  <2>1. CASE q >= 2
    <3>1. n * q >= n * 2
      BY <2>1, <1>2
    <3> QED  BY <1>2, <1>4, <3>1
  <2>2. CASE q <= 0
    <3>1. n * q <= 0
      BY <2>2, <1>2
    <3> QED  BY <1>2, <1>4, <3>1
  <2> QED  BY <1>2, <2>1, <2>2
<1> QED  BY <1>2, <1>3, <1>4 DEF r

LEMMA OffsetIs ==
  ASSUME NEW a \in Address, NEW b \in Address
  PROVE  Offset(b, a) = IF a <= b THEN b - a ELSE b - a + AddressSpace
<1>1. AddressSpace \in Nat \ {0}
  BY SpaceFacts
<1> DEFINE x == b - a
<1>2. x \in Int /\ -AddressSpace <= x /\ x < AddressSpace /\ (a <= b <=> 0 <= x)
  BY <1>1 DEF Address
<1> HIDE DEF x
<1>3. CASE 0 <= x
  <2>1. x % AddressSpace = x
    BY <1>1, <1>2, <1>3, AddressRemainder DEF Address
  <2> QED  BY <1>2, <1>3, <2>1 DEF Offset, x
<1>4. CASE x < 0
  <2>1. x % AddressSpace = x + AddressSpace
    BY <1>1, <1>2, <1>4, WrapFacts
  <2> QED  BY <1>2, <1>4, <2>1 DEF Offset, x
<1> QED  BY <1>2, <1>3, <1>4

LEMMA NextAddressIs ==
  ASSUME NEW a \in Address
  PROVE  /\ (a + 1) % AddressSpace \in Address
         /\ (a + 1) % AddressSpace = IF a = AddressSpace - 1 THEN 0 ELSE a + 1
<1>1. AddressSpace \in Nat \ {0}
  BY SpaceFacts
<1> DEFINE x == a + 1
<1>2. x \in 1..AddressSpace
  BY <1>1 DEF Address
<1> HIDE DEF x
<1>3. CASE x < AddressSpace
  <2>1. x % AddressSpace = x
    BY <1>1, <1>2, <1>3, AddressRemainder DEF Address
  <2> QED  BY <1>1, <1>2, <1>3, <2>1 DEF x, Address
<1>4. CASE x = AddressSpace
  <2>1. x % AddressSpace = x - AddressSpace
    BY <1>1, <1>2, <1>4, WrapFacts
  <2> QED  BY <1>1, <1>2, <1>4, <2>1 DEF x, Address
<1> QED  BY <1>1, <1>2, <1>3, <1>4

\* How the offset of b changes as the address register goes on.
LEMMA OffsetStep ==
  ASSUME NEW a \in Address, NEW b \in Address
  PROVE  LET next == (a + 1) % AddressSpace
         IN  /\ Offset(b, a) \in Nat
             /\ b = a => Offset(b, a) = 0 /\ Offset(b, next) = AddressSpace - 1
             /\ b # a => Offset(b, a) > 0 /\ Offset(b, next) = Offset(b, a) - 1
<1>1. AddressSpace \in Nat \ {0}
  BY SpaceFacts
<1> DEFINE next == (a + 1) % AddressSpace
<1>2. next \in Address /\ next = IF a = AddressSpace - 1 THEN 0 ELSE a + 1
  BY NextAddressIs
<1> HIDE DEF next
<1>3. Offset(b, next) = IF next <= b THEN b - next ELSE b - next + AddressSpace
  BY <1>2, OffsetIs
<1>4. Offset(b, a) = IF a <= b THEN b - a ELSE b - a + AddressSpace
  BY OffsetIs
<1>5. /\ Offset(b, a) \in Nat
      /\ b = a => Offset(b, a) = 0 /\ Offset(b, next) = AddressSpace - 1
      /\ b # a => Offset(b, a) > 0 /\ Offset(b, next) = Offset(b, a) - 1
  BY <1>1, <1>2, <1>3, <1>4 DEF Address
<1> QED  BY <1>5 DEF next

(***************************************************************************)
(* The board takes in the line.                                            *)
(***************************************************************************)
HostWaits == UNCHANGED <<pc, call, retried, received, backlog, sent, image, disturbed>>

LastByteStays == to_device'[Len(to_device')] = to_device[Len(to_device)]

\* A write that the board is about to store: its steps do not change what the
\* memory will be, and in the end the board listens.
LEMMA AbsorbingStep ==
  ASSUME LinkTypeOK, NEW k \in 0..1, Absorbing(k), Quiet, DeviceStep, HostWaits
  PROVE  /\ Absorbing(k)' \/ Listening(k)'
         /\ Quiet' /\ UNCHANGED accepted
         /\ Len(to_device') <= Len(to_device)
         /\ k = 1 => LastByteStays
<1> DEFINE L == LineAddress
           n == LineCount
<1>1. /\ state \in HeaderStates \cup {"WRITE_START", "WRITE_IN", "WRITE_MEM"}
      /\ reg_command = WriteCommand /\ HeaderFits
      /\ state \in {"WRITE_IN", "WRITE_MEM"} => n > 0
      /\ Len(to_device) = HeaderLeft + DataLeft + k
      /\ disturbed = "no" => image = MemoryAfter
  BY DEF Absorbing, Image
<1>2. /\ L \in Address /\ n \in 0..CountSpace - 1 /\ n \in Nat /\ Len(to_device) >= HeaderLeft
      /\ AddressSpace \in Nat \ {0} /\ CountSpace \in Nat \ {0} /\ CountSpace <= AddressSpace
  BY <1>1, SpaceFacts DEF HeaderFits
<1>3. /\ DeviceTypeOK /\ memory \in [Address -> Byte] /\ Len(to_device) \in Nat
      /\ to_device \in Seq(Byte)
  BY DEF LinkTypeOK, DeviceTypeOK
<1>5. state \notin {"UNLOCKED", "PROTO_ERROR", "COMMAND_ACCEPT", "READ_OUT", "KEY_SEND1", "KEY_SEND2",
                    "KEY_SEND3", "READ_START", "READ_MEM"}
  BY <1>1, StatesAre
<1>6. ~OutDone
  BY DEF OutDone, Quiet
<1>7. ASSUME Receive
      PROVE  /\ to_device' = Tail(to_device) /\ Len(to_device) > 0
             /\ Len(to_device') = Len(to_device) - 1
             /\ \A i \in 1..Len(to_device) - 1 : to_device'[i] = to_device[i + 1]
             /\ UNCHANGED <<to_host, out_data, memory, accepted>>
  BY <1>3, <1>7, ReceiveByState, TailType, EmptySeq
<1> HIDE DEF L, n
<1>4. \A b \in Address : Offset(b, L) \in 0..AddressSpace - 1
  <2> TAKE b \in Address
  <2>1. b - L \in Int
    BY <1>2 DEF Address
  <2> QED  BY <2>1, AddressRemainder DEF Offset, Address
<1>8. CASE state \in HeaderStates
  <2>1. Receive
    BY <1>5, <1>6, <1>8, StepByState, StatesAre
  <2>2. /\ HeaderFits' /\ HeaderLeft' = HeaderLeft - 1 /\ L' = L /\ n' = n
        /\ UNCHANGED <<reg_command, to_host, out_data, memory, accepted>>
        /\ state' \in HeaderStates \/ state' = "WRITE_START"
    BY <1>1, <1>3, <1>8, <2>1, HeaderReceive DEF L, n
  <2>3. DataLeft = n /\ DataLeft' = n
    BY <1>8, <2>2, StatesAre DEF DataLeft, n
  <2>4. HeaderLeft \in 1..5
    BY <1>8, StatesAre DEF HeaderLeft
  <2>5. Len(to_device') = HeaderLeft' + DataLeft' + k
    BY <1>1, <1>2, <1>3, <1>7, <2>1, <2>2, <2>3, <2>4
  <2>6. ASSUME NEW o \in 0..n - 1
        PROVE  DataByte(o)' = DataByte(o)
    <3>1. DataByte(o) = to_device[HeaderLeft + o + 1] /\ DataByte(o)' = to_device'[HeaderLeft + o]
      BY <1>2, <1>8, <2>2, <2>4, StatesAre DEF DataByte
    <3>2. HeaderLeft + o \in 1..Len(to_device) - 1
      BY <1>1, <1>2, <1>3, <2>3, <2>4
    <3> QED  BY <1>7, <2>1, <3>1, <3>2
  <2>7. MemoryAfter' = MemoryAfter
    BY <1>2, <1>4, <2>2, <2>6 DEF MemoryAfter, L, n
  <2>8. Absorbing(k)'
    BY <1>1, <2>2, <2>5, <2>7, StatesAre DEF Absorbing, Image, HostWaits
  <2>9. k = 1 => LastByteStays
    BY <1>1, <1>2, <1>3, <1>7, <2>1, <2>3, <2>4 DEF LastByteStays
  <2> QED  BY <1>3, <1>7, <2>1, <2>2, <2>8, <2>9 DEF Quiet
<1>9. CASE state = "WRITE_START"
  <2>1. StartTransfer
    BY <1>5, <1>6, <1>9, StepByState, ReceiveByState, StatesAre
  <2>2. /\ state' = IF reg_count = 0 THEN "UNLOCKED" ELSE "WRITE_IN"
        /\ UNCHANGED <<to_device, to_host, reg_command, reg_address, reg_count, reg_data, out_data,
                       memory, accepted>>
    BY <1>9, <2>1 DEF StartTransfer, channel_vars, reg_vars
  <2>3. HeaderLeft = 0 /\ HeaderLeft' = 0 /\ L = reg_address /\ n = reg_count
    BY <1>9, <2>2 DEF HeaderLeft, L, n, LineAddress, LineCount
  <2>4. DataLeft = n
    BY <1>9 DEF DataLeft, n
  <2>5. CASE reg_count = 0
    <3>1. MemoryAfter = memory
      BY <1>3, <1>4, <2>3, <2>5 DEF MemoryAfter, L, n
    <3> QED  BY <1>1, <1>2, <1>3, <2>2, <2>3, <2>4, <2>5, <3>1
             DEF Listening, Image, HostWaits, Quiet, LastByteStays
  <2>6. CASE reg_count # 0
    <3>1. LineAddress' = L /\ LineCount' = n /\ state' = "WRITE_IN"
      BY <2>2, <2>3, <2>6 DEF LineAddress, LineCount
    <3>2. DataLeft' = n /\ HeaderFits'
      BY <1>1, <2>2, <2>3, <3>1 DEF DataLeft, HeaderFits, L, n
    <3>3. MemoryAfter' = MemoryAfter
      BY <1>9, <2>2, <2>3, <3>1 DEF MemoryAfter, DataByte, L, n
    <3> QED  BY <1>1, <1>2, <1>3, <2>2, <2>3, <2>4, <2>6, <3>1, <3>2, <3>3
             DEF Absorbing, Image, HostWaits, Quiet, LastByteStays
  <2> QED  BY <2>5, <2>6
<1>10. CASE state = "WRITE_IN"
  <2>1. Receive
    BY <1>5, <1>6, <1>10, StepByState
  <2>2. /\ state' = "WRITE_MEM" /\ reg_data' = to_device[1]
        /\ UNCHANGED <<reg_command, reg_address, reg_count>>
    BY <1>3, <1>10, <2>1, ReceiveByState, TailType DEF WriteIn
  <2>3. HeaderLeft = 0 /\ HeaderLeft' = 0 /\ L = reg_address /\ n = reg_count
        /\ LineAddress' = L /\ LineCount' = n
    BY <1>10, <2>2 DEF HeaderLeft, L, n, LineAddress, LineCount
  <2>4. DataLeft = n /\ DataLeft' = n - 1
    BY <1>10, <2>2, <2>3 DEF DataLeft, n
  <2>5. Len(to_device') = HeaderLeft' + DataLeft' + k /\ HeaderFits'
    BY <1>1, <1>2, <1>3, <1>7, <1>10, <2>1, <2>3, <2>4 DEF HeaderFits
  <2>6. ASSUME NEW o \in 0..n - 1
        PROVE  DataByte(o)' = DataByte(o)
    <3>1. DataByte(o) = to_device[o + 1]
      BY <1>10, <2>3 DEF DataByte
    <3>2. DataByte(o)' = IF o = 0 THEN to_device[1] ELSE to_device'[o]
      BY <2>2 DEF DataByte
    <3>3. o > 0 => o \in 1..Len(to_device) - 1
      BY <1>1, <1>2, <1>3, <2>3, <2>4
    <3>4. CASE o = 0
      BY <3>1, <3>2, <3>4
    <3>5. CASE o > 0
      <4>1. to_device'[o] = to_device[o + 1]
        BY <1>7, <2>1, <3>3, <3>5
      <4> QED  BY <3>1, <3>2, <3>5, <4>1
    <3> QED  BY <1>2, <3>4, <3>5
  <2>7. MemoryAfter' = MemoryAfter
    BY <1>2, <1>4, <1>7, <2>1, <2>3, <2>6 DEF MemoryAfter, L, n
  <2>8. Absorbing(k)'
    BY <1>1, <1>10, <2>2, <2>3, <2>5, <2>7 DEF Absorbing, Image, HostWaits
  <2>9. k = 1 => LastByteStays
    BY <1>1, <1>2, <1>3, <1>7, <1>10, <2>1, <2>3, <2>4 DEF LastByteStays
  <2> QED  BY <1>3, <1>7, <2>1, <2>8, <2>9 DEF Quiet
<1>11. CASE state = "WRITE_MEM"
  <2>1. WriteMem
    BY <1>5, <1>6, <1>11, StepByState, ReceiveByState, StatesAre
  <2>2. /\ state' = "WRITE_START" /\ memory' = [memory EXCEPT ![reg_address] = reg_data]
        /\ reg_address' = (reg_address + 1) % AddressSpace
        /\ reg_count' = (reg_count - 1) % CountSpace
        /\ UNCHANGED <<to_device, to_host, reg_command, out_data, accepted>>
    BY <2>1 DEF WriteMem, NextMemoryByte, channel_vars
  <2>3. HeaderLeft = 0 /\ HeaderLeft' = 0 /\ L = reg_address /\ n = reg_count
        /\ LineAddress' = reg_address' /\ LineCount' = reg_count'
    BY <1>11, <2>2 DEF HeaderLeft, L, n, LineAddress, LineCount
  <2>4. reg_count' = n - 1 /\ n - 1 \in 0..CountSpace - 1
    <3>1. reg_count - 1 \in 0..CountSpace - 1
      BY <1>1, <1>2, <1>11, <2>3
    <3> QED  BY <2>2, <2>3, <3>1, CountRemainder
  <2>5. DataLeft = n - 1 /\ DataLeft' = n - 1
    BY <1>11, <2>2, <2>3, <2>4 DEF DataLeft, n
  <2>6. reg_address' \in Address
    BY <1>2, <2>2, <2>3, NextAddressIs
  <2>7. HeaderFits'
    BY <1>2, <1>3, <2>2, <2>3, <2>4, <2>6 DEF HeaderFits
  <2>8. ASSUME NEW b \in Address
        PROVE  MemoryAfter'[b] = MemoryAfter[b]
    <3> DEFINE o == Offset(b, L)
               p == Offset(b, reg_address')
    <3>1. MemoryAfter[b] = IF o < n THEN DataByte(o) ELSE memory[b]
      BY DEF MemoryAfter, L, n
    <3>3. /\ o \in Nat
          /\ b = L => o = 0 /\ p = AddressSpace - 1
          /\ b # L => o > 0 /\ p = o - 1
      BY <1>2, <2>2, <2>3, OffsetStep
    <3>4. p \in Int
      BY <1>2, <3>3
    <3>2. MemoryAfter'[b] = IF p < n - 1 THEN to_device[p + 1] ELSE memory'[b]
      BY <2>2, <2>3, <2>4, <3>4 DEF MemoryAfter, DataByte
    <3> HIDE DEF o, p
    <3>5. CASE b = L
      <4>1. DataByte(o) = reg_data /\ memory'[b] = reg_data
        BY <1>3, <1>11, <2>2, <2>3, <3>3, <3>5 DEF DataByte
      <4> QED  BY <1>1, <1>2, <1>11, <3>1, <3>2, <3>3, <3>5, <4>1
    <3>6. CASE b # L
      <4>1. DataByte(o) = to_device[o] /\ p + 1 = o /\ memory'[b] = memory[b]
        BY <1>3, <1>11, <2>2, <2>3, <3>3, <3>6 DEF DataByte
      <4> QED  BY <1>2, <3>1, <3>2, <3>3, <3>6, <4>1
    <3> QED  BY <3>5, <3>6
  <2>9. MemoryAfter' = MemoryAfter
    BY <2>8 DEF MemoryAfter
  <2>10. Absorbing(k)'
    BY <1>1, <2>2, <2>3, <2>5, <2>7, <2>9 DEF Absorbing, Image, HostWaits
  <2> QED  BY <1>3, <2>2, <2>10 DEF Quiet, LastByteStays
<1> QED  BY <1>1, <1>8, <1>9, <1>10, <1>11

(***************************************************************************)
(* What the board sends.                                                   *)
(***************************************************************************)
\* The byte that is being sent, as a sequence.
Sending == IF out_data = NoByte THEN <<>> ELSE <<out_data>>

LEMMA RepliesType ==
  ASSUME LinkTypeOK
  PROVE  /\ Replies \in Seq(Byte) /\ Sending \in Seq(Byte) /\ Replies = received \o to_host \o Sending
         /\ Len(Replies) = Len(received) + Len(to_host) + Len(Sending)
         /\ Len(Sending) = IF out_data = NoByte THEN 0 ELSE 1
         /\ {Len(received), Len(to_host), Len(Sending)} \subseteq Nat
<1>1. received \in Seq(Byte) /\ to_host \in Seq(Byte) /\ out_data \in Byte \cup {NoByte}
  BY DEF LinkTypeOK, DeviceTypeOK
<1>2. Sending \in Seq(Byte) /\ Len(Sending) = IF out_data = NoByte THEN 0 ELSE 1
  BY <1>1 DEF Sending
<1>3. received \o to_host \in Seq(Byte) /\ Len(received \o to_host) = Len(received) + Len(to_host)
  BY <1>1, ConcatProperties
<1>4. Replies = received \o to_host \o Sending
  BY DEF Replies, Sending
<1>5. /\ Replies \in Seq(Byte)
      /\ Len(Replies) = Len(received \o to_host) + Len(Sending)
  BY <1>2, <1>3, <1>4, ConcatProperties
<1> QED  BY <1>1, <1>2, <1>3, <1>4, <1>5, LenProperties

LEMMA QuietReplies ==
  ASSUME LinkTypeOK
  PROVE  /\ Quiet => Replies = received
         /\ Len(Replies) = Len(received) => Quiet
<1>1. Quiet => Replies = received
  <2>1. received \o <<>> \o <<>> = received
    BY DEF LinkTypeOK
  <2> QED  BY <2>1 DEF Quiet, Replies
<1>2. ASSUME Len(Replies) = Len(received) PROVE Quiet
  <2>1. Len(to_host) = 0 /\ Len(Sending) = 0
    BY <1>2, RepliesType
  <2>2. out_data = NoByte
    BY <2>1, RepliesType
  <2>3. to_host = <<>>
    BY <2>1, EmptySeq DEF LinkTypeOK, DeviceTypeOK
  <2> QED  BY <2>2, <2>3 DEF Quiet
<1> QED  BY <1>1, <1>2

LEMMA OutDoneReplies ==
  ASSUME LinkTypeOK, OutDone, UNCHANGED received
  PROVE  Replies' = Replies
<1>1. /\ out_data # NoByte /\ out_data' = NoByte /\ to_host' = Append(to_host, out_data)
      /\ out_data \in Byte
  BY DEF OutDone, LinkTypeOK, DeviceTypeOK
<1>2. to_host \in Seq(Byte) /\ received \in Seq(Byte)
  BY DEF LinkTypeOK, DeviceTypeOK
<1>3. Replies' = received \o Append(to_host, out_data) \o <<>>
  BY <1>1 DEF Replies
<1>4. Replies = received \o to_host \o <<out_data>>
  BY <1>1 DEF Replies
<1>5. Append(to_host, out_data) = to_host \o <<out_data>>
  BY <1>1, <1>2, AppendIsConcat
<1>6. received \o (to_host \o <<out_data>>) = received \o to_host \o <<out_data>>
  BY <1>1, <1>2, ConcatAssociative
<1>7. received \o to_host \o <<out_data>> \in Seq(Byte)
  BY <1>1, <1>2
<1>8. received \o to_host \o <<out_data>> \o <<>> = received \o to_host \o <<out_data>>
  BY <1>7, ConcatEmptySeq
<1> QED  BY <1>3, <1>4, <1>5, <1>6, <1>8

LEMMA SendReplies ==
  ASSUME LinkTypeOK, NEW b \in Byte, Send(b), UNCHANGED <<received, to_host>>
  PROVE  Replies' = Append(Replies, b) /\ Len(Replies') = Len(Replies) + 1
<1>1. out_data = NoByte /\ out_data' = b /\ b # NoByte
  BY DEF Send, NoByte, Byte
<1>2. to_host \in Seq(Byte) /\ received \in Seq(Byte)
  BY DEF LinkTypeOK, DeviceTypeOK
<1>3. Replies' = received \o to_host \o <<b>>
  BY <1>1 DEF Replies
<1>4. Replies = received \o to_host \o <<>>
  BY <1>1 DEF Replies
<1> QED  BY <1>1, <1>2, <1>3, <1>4

\* The host reads several bytes into received.
LEMMA ReadReplies ==
  ASSUME LinkTypeOK, to_host # <<>>, to_host' = Tail(to_host),
         received' = Append(received, Head(to_host)), UNCHANGED out_data
  PROVE  Replies' = Replies
<1>1. to_host \in Seq(Byte) /\ received \in Seq(Byte)
  BY DEF LinkTypeOK, DeviceTypeOK
<1>2. Append(received, Head(to_host)) \o Tail(to_host) = received \o to_host
  BY <1>1
<1> QED  BY <1>2 DEF Replies

LEMMA HeadReplies ==
  ASSUME LinkTypeOK, to_host # <<>>
  PROVE  /\ Len(Replies) > Len(received) /\ Replies[Len(received) + 1] = Head(to_host)
         /\ Len(to_host) = 1 /\ out_data = NoByte => Len(Replies) = Len(received) + 1
         /\ Len(Replies) = Len(received) + 1 => Tail(to_host) = <<>> /\ out_data = NoByte
<1>1. to_host \in Seq(Byte) /\ received \in Seq(Byte) /\ Sending \in Seq(Byte)
  BY RepliesType DEF LinkTypeOK, DeviceTypeOK
<1>2. Len(to_host) >= 1
  BY <1>1, EmptySeq
<1>3. Replies[Len(received) + 1] = to_host[1]
  <2>1. Len(received \o to_host) = Len(received) + Len(to_host)
        /\ (received \o to_host)[Len(received) + 1] = to_host[1]
        /\ received \o to_host \in Seq(Byte)
    BY <1>1, <1>2, ConcatProperties
  <2> QED  BY <1>1, <1>2, <2>1, RepliesType, ConcatProperties
<1>4. Head(to_host) = to_host[1] /\ Tail(to_host) \in Seq(Byte)
      /\ Len(Tail(to_host)) = Len(to_host) - 1
  BY <1>1, TailType
<1>5. /\ Len(Replies) = Len(received) + Len(to_host) + Len(Sending)
      /\ Len(Sending) = IF out_data = NoByte THEN 0 ELSE 1
      /\ {Len(received), Len(to_host), Len(Sending)} \subseteq Nat
  BY RepliesType
<1>6. ASSUME Len(Replies) = Len(received) + 1
      PROVE  Tail(to_host) = <<>> /\ out_data = NoByte
  <2>1. Len(Tail(to_host)) = 0 /\ Len(Sending) = 0
    BY <1>2, <1>4, <1>5, <1>6
  <2>2. out_data = NoByte
    BY <1>5, <2>1
  <2> DEFINE t == Tail(to_host)
  <2>3. t \in Seq(Byte) /\ Len(t) = 0
    BY <1>4, <2>1
  <2> HIDE DEF t
  <2>4. t = <<>>
    BY <2>3, EmptySeq
  <2> QED  BY <2>2, <2>4 DEF t
<1> QED  BY <1>2, <1>3, <1>4, <1>5, <1>6

(***************************************************************************)
(* The board and a command.                                                *)
(***************************************************************************)
LEMMA ListeningStep ==
  ASSUME LinkTypeOK, NEW k \in 0..1, Listening(k), Quiet, DeviceStep, HostWaits,
         k = 1 => CommandLast(1) /\ pc = "reply"
  PROVE  /\ \/ Listening(k)' /\ Quiet' /\ Len(to_device') = Len(to_device)
               /\ (k = 1 => LastByteStays)
            \/ k = 1 /\ (Accepting' \/ Refusing')
         /\ UNCHANGED accepted
<1>1. /\ \/ state = "UNLOCKED"
         \/ state = "READ_START" /\ reg_count = 0
         \/ state = "LOCKED" /\ (retried => pc = "prompt")
      /\ Len(to_device) = k
      /\ Image(memory)
  BY DEF Listening
<1>2. ~OutDone
  BY DEF OutDone, Quiet
<1>3. CASE state = "READ_START"
  <2>1. StartTransfer
    BY <1>2, <1>3, StepByState, ReceiveByState, StatesAre
  <2>2. /\ state' = "UNLOCKED"
        /\ UNCHANGED <<to_device, to_host, out_data, memory, accepted>>
    BY <1>1, <1>3, <2>1 DEF StartTransfer, channel_vars
  <2> QED  BY <1>1, <2>2 DEF Listening, Quiet, LastByteStays, Image, HostWaits
<1>4. CASE state \in {"UNLOCKED", "LOCKED"}
  <2>1. Receive
    BY <1>2, <1>4, StepByState
  <2>2. /\ to_device # <<>> /\ to_device' = Tail(to_device)
        /\ UNCHANGED <<to_host, out_data, memory, accepted>>
    BY <2>1, ReceiveByState
  <2>3. Head(to_device) = to_device[1] /\ Tail(to_device) \in Seq(Byte)
        /\ Len(Tail(to_device)) = Len(to_device) - 1 /\ Len(to_device) # 0
    BY <2>2, TailType, EmptySeq DEF LinkTypeOK, DeviceTypeOK
  <2>4. k = 1 /\ to_device' = <<>> /\ Head(to_device) = CommandByte(call) /\ pc = "reply"
    <3> DEFINE t == Tail(to_device)
    <3>1. k = 1 /\ t \in Seq(Byte) /\ Len(t) = 0
      BY <1>1, <2>3
    <3> HIDE DEF t
    <3>2. t = <<>>
      BY <3>1, EmptySeq
    <3> QED  BY <1>1, <2>2, <2>3, <3>1, <3>2 DEF t, CommandLast
  <2>5. /\ CommandByte(call) \in KnownCommands
        /\ CommandByte(call) \notin {83, 73, 67, 88, 69}
    BY CommandByteFacts DEF LinkTypeOK
  <2>6. CASE state = "UNLOCKED"
    <3>1. state' = "COMMAND_ACCEPT" /\ reg_command' = CommandByte(call)
      BY <2>1, <2>4, <2>5, <2>6, ReceiveByState DEF GetCommand
    <3>2. Accepting'
      BY <1>1, <2>2, <2>4, <3>1 DEF Accepting, Quiet, Image, HostWaits
    <3> QED  BY <2>2, <2>4, <3>2
  <2>7. CASE state = "LOCKED"
    <3>1. GetKey(Head(to_device))
      BY <2>1, <2>7, ReceiveByState, StatesAre
    <3>2. PICK i \in 1..5 : /\ state = KeyStates[i]
                            /\ state' = IF Head(to_device) # Key[i] THEN "PROTO_ERROR"
                                        ELSE IF i < 5 THEN KeyStates[i + 1] ELSE AckStates[1]
      BY <3>1 DEF GetKey, KeyStates
    <3>3. Key[i] \in {83, 73, 67, 88, 69}
      BY DEF Key
    <3>4. state' = "PROTO_ERROR"
      BY <2>4, <2>5, <3>2, <3>3
    <3>5. ~retried
      BY <1>1, <2>4, <2>7
    <3>6. Refusing'
      BY <1>1, <2>2, <2>4, <3>4, <3>5 DEF Refusing, Quiet, Image, HostWaits
    <3> QED  BY <2>2, <2>4, <3>6
  <2> QED  BY <1>4, <2>6, <2>7
<1> QED  BY <1>1, <1>3, <1>4

LEMMA SettledStep ==
  ASSUME LinkTypeOK, NEW k \in 0..1, Settled(k), DeviceStep, HostWaits,
         k = 1 => pc = "reply"
  PROVE  /\ Settled(k)' \/ (k = 1 /\ (Accepting' \/ Refusing'))
         /\ UNCHANGED accepted
<1>1. /\ Quiet /\ Len(to_device) + 1 <= TimeoutBytes + k /\ CommandLast(k)
      /\ Absorbing(k) \/ Listening(k)
  BY DEF Settled
<1>2. /\ \/ (Absorbing(k)' \/ Listening(k)') /\ Quiet' /\ Len(to_device') <= Len(to_device)
            /\ (k = 1 => LastByteStays)
         \/ k = 1 /\ (Accepting' \/ Refusing')
      /\ UNCHANGED accepted
  <2>1. CASE Absorbing(k)
    BY <1>1, <2>1, AbsorbingStep
  <2>2. CASE Listening(k)
    <3>1. Len(to_device') = Len(to_device) => Len(to_device') <= Len(to_device)
      BY DEF LinkTypeOK, DeviceTypeOK
    <3> QED  BY <1>1, <2>2, <3>1, ListeningStep
  <2> QED  BY <1>1, <2>1, <2>2
<1>3. ASSUME Len(to_device') <= Len(to_device), k = 1 => LastByteStays
      PROVE  Len(to_device') + 1 <= TimeoutBytes + k /\ CommandLast(k)'
  <2>1. Len(to_device') \in Nat /\ Len(to_device) \in Nat /\ TimeoutBytes \in Nat
    BY DeviceStepType, LineAssumption DEF LinkTypeOK, DeviceTypeOK
  <2> QED  BY <1>1, <1>3, <2>1 DEF CommandLast, LastByteStays, HostWaits
<1> QED  BY <1>2, <1>3 DEF Settled

LEMMA AcceptingStep ==
  ASSUME LinkTypeOK, Accepting, received = <<>>, accepted = <<>>, DeviceStep, HostWaits
  PROVE  accepted' = <<CommandByte(call)>> /\ Replies' = <<Okay>> /\ Granted'
<1>1. /\ state = "COMMAND_ACCEPT" /\ reg_command = CommandByte(call)
      /\ to_device = <<>> /\ Quiet /\ Image(memory)
  BY DEF Accepting
<1>2. ~OutDone /\ ~Receive
  BY <1>1, ReceiveByState DEF OutDone, Quiet
<1>3. AcceptCommand
  BY <1>1, <1>2, StepByState
<1>4. /\ UNCHANGED <<to_device, to_host, reg_command, memory>> /\ Send(Okay)
      /\ accepted' = Append(accepted, reg_command)
      /\ state' = CASE reg_command = LockCommand -> "LOCKED"
                    [] reg_command \in {ReadCommand, WriteCommand} -> "GET_ADDR0"
                    [] OTHER -> "UNLOCKED"
  BY <1>3 DEF AcceptCommand, channel_vars, reg_vars, AddressStates
<1>5. /\ CommandByte(call) # LockCommand /\ call.op \in {"test", "control", "write", "read"}
      /\ call.op = "write" <=> CommandByte(call) = WriteCommand
      /\ call.op = "read" <=> CommandByte(call) = ReadCommand
  BY CommandByteFacts, CallFacts DEF LinkTypeOK
<1>6. Granted'
  BY <1>1, <1>4, <1>5 DEF Granted, Image, HostWaits
<1>7. Replies' = <<Okay>>
  <2>1. Okay \in Byte
    BY DEF Okay, Byte
  <2>2. Replies' = Append(Replies, Okay)
    BY <1>4, <2>1, SendReplies DEF HostWaits
  <2>3. Replies = <<>>
    BY <1>1, QuietReplies
  <2> QED  BY <2>2, <2>3
<1> QED  BY <1>1, <1>4, <1>6, <1>7

\* Once the line is empty and nothing is left to do, only the transmitter goes on.
LEMMA OnlyOutDone ==
  ASSUME LinkTypeOK, to_device = <<>>, state \in {"UNLOCKED", "LOCKED"} \cup HeaderStates,
         DeviceStep, HostWaits
  PROVE  /\ Replies' = Replies
         /\ UNCHANGED <<to_device, state, reg_command, memory, accepted>>
<1>1. OutDone
  BY StepByState, ReceiveByState, StatesAre
<1> QED  BY <1>1, OutDoneReplies DEF OutDone, HostWaits, reg_vars

LEMMA GrantedStep ==
  ASSUME LinkTypeOK, Granted, DeviceStep, HostWaits
  PROVE  Granted' /\ Replies' = Replies /\ UNCHANGED accepted
<1>1. to_device = <<>> /\ state \in {"UNLOCKED", "LOCKED"} \cup HeaderStates
  BY StatesAre DEF Granted
<1> QED  BY <1>1, OnlyOutDone DEF Granted, Image, HostWaits

LEMMA RefusingStep ==
  ASSUME LinkTypeOK, Refusing, received = <<>>, DeviceStep, HostWaits
  PROVE  Refusing' /\ UNCHANGED accepted
<1>1. ~retried /\ to_device = <<>> /\ Image(memory)
  BY DEF Refusing
<1>2. CASE state = "PROTO_ERROR" /\ Quiet
  <2>1. SendError
    BY <1>1, <1>2, StepByState, ReceiveByState DEF OutDone, Quiet
  <2>2. /\ Send(Refused) /\ state' = "LOCKED"
        /\ UNCHANGED <<to_device, to_host, memory, accepted>>
    BY <2>1 DEF SendError, channel_vars
  <2>3. Refused \in Byte
    BY DEF Refused, Byte
  <2>4. Replies' = Append(Replies, Refused) /\ Replies = <<>>
    BY <1>2, <2>2, <2>3, SendReplies, QuietReplies DEF HostWaits
  <2>5. Replies' = <<Refused>>
    BY <2>4
  <2> QED  BY <1>1, <2>2, <2>5 DEF Refusing, Image, HostWaits
<1>3. CASE state = "LOCKED" /\ Replies = <<Refused>>
  BY <1>1, <1>3, OnlyOutDone DEF Refusing, Image, HostWaits
<1> QED  BY <1>2, <1>3 DEF Refusing

(***************************************************************************)
(* The board and the key.                                                  *)
(***************************************************************************)
LEMMA RestOfKey ==
  ASSUME NEW i \in 1..5
  PROVE  /\ SubSeq(Key, i, 5) \in Seq(Byte) /\ Len(SubSeq(Key, i, 5)) = 6 - i
         /\ SubSeq(Key, i, 5) # <<>>
         /\ Head(SubSeq(Key, i, 5)) = Key[i]
         /\ Tail(SubSeq(Key, i, 5)) = SubSeq(Key, i + 1, 5)
         /\ SubSeq(Key, 6, 5) = <<>>
<1>1. Key \in Seq(Byte) /\ Len(Key) = 5
  BY KeyType
<1>2. i \in 1..Len(Key) /\ Len(Key) \in i..Len(Key)
  BY <1>1
<1>3. /\ Head(SubSeq(Key, i, Len(Key))) = Key[i]
      /\ Tail(SubSeq(Key, i, Len(Key))) = SubSeq(Key, i + 1, Len(Key))
  BY <1>1, <1>2, HeadTailOfSubSeq, Zenon
<1>4. SubSeq(Key, i, 5) \in Seq(Byte) /\ Len(SubSeq(Key, i, 5)) = 6 - i
  <2>1. \A m \in i..5 : Key[m] \in Byte
    BY <1>1, ElementOfSeq
  <2>2. i \in Int /\ 5 \in Int
    OBVIOUS
  <2> QED  BY <2>1, <2>2, SubSeqProperties
<1>5. SubSeq(Key, 6, 5) = <<>>
  BY <1>1, SubSeqProperties
<1> DEFINE s == SubSeq(Key, i, 5)
<1>6. s \in Seq(Byte) /\ Len(s) > 0
  BY <1>4
<1> HIDE DEF s
<1>7. s # <<>>
  BY <1>6, EmptySeq
<1> QED  BY <1>1, <1>3, <1>4, <1>5, <1>7 DEF s

LEMMA KeyOnLineStep ==
  ASSUME LinkTypeOK, NEW i \in 1..5, KeyOnLine(i), DeviceStep, HostWaits
  PROVE  /\ (i < 5 /\ KeyOnLine(i + 1)') \/ (i = 5 /\ Acking(1)')
         /\ UNCHANGED <<memory, accepted>>
<1>1. state = KeyStates[i] /\ to_device = SubSeq(Key, i, 5) /\ Quiet /\ received = <<>>
  BY DEF KeyOnLine
<1>2. state \in Range(KeyStates)
  BY <1>1 DEF KeyStates, Range
<1>3. Receive
  BY <1>1, <1>2, StepByState, StatesAre DEF OutDone, Quiet
<1>4. /\ to_device' = Tail(to_device) /\ GetKey(Head(to_device))
      /\ UNCHANGED <<to_host, out_data, memory, accepted>>
  BY <1>2, <1>3, ReceiveByState
<1>5. PICK m \in 1..5 : /\ state = KeyStates[m]
                        /\ state' = IF Head(to_device) # Key[m] THEN "PROTO_ERROR"
                                    ELSE IF m < 5 THEN KeyStates[m + 1] ELSE AckStates[1]
  BY <1>4 DEF GetKey, KeyStates
<1>6. m = i
  BY <1>1, <1>5 DEF KeyStates
<1>7. Head(to_device) = Key[i] /\ to_device' = SubSeq(Key, i + 1, 5)
  BY <1>1, <1>4, RestOfKey
<1>8. CASE i < 5
  BY <1>1, <1>4, <1>5, <1>6, <1>7, <1>8 DEF KeyOnLine, Quiet, HostWaits
<1>9. CASE i = 5
  <2>1. to_device' = <<>> /\ state' = AckStates[1]
    BY <1>5, <1>6, <1>7, <1>9, RestOfKey
  <2>2. Replies' = <<>>
    BY <1>1, <1>4 DEF Replies, Quiet, HostWaits
  <2>3. SubSeq(Ack, 1, 1 - 1) = <<>>
    BY SubSeqProperties DEF Ack, Byte
  <2> QED  BY <1>4, <1>9, <2>1, <2>2, <2>3 DEF Acking
<1> QED  BY <1>4, <1>8, <1>9

LEMMA AckPrefixes ==
  /\ Ack \in Seq(Byte) /\ Len(Ack) = 3
  /\ \A j \in 0..3 : SubSeq(Ack, 1, j) \in Seq(Byte) /\ Len(SubSeq(Ack, 1, j)) = j
  /\ \A j \in 1..3 : Append(SubSeq(Ack, 1, j - 1), Ack[j]) = SubSeq(Ack, 1, j)
<1>1. Ack \in Seq(Byte) /\ Len(Ack) = 3
  BY DEF Ack, Byte
<1>2. ASSUME NEW j \in 0..3
      PROVE  SubSeq(Ack, 1, j) \in Seq(Byte) /\ Len(SubSeq(Ack, 1, j)) = j
  <2>1. /\ 1 \in 1 .. Len(Ack) + 1 /\ j \in 1 - 1 .. Len(Ack)
        /\ (IF 1 <= j THEN j - 1 + 1 ELSE 0) = j
    BY <1>1
  <2> QED  BY <1>1, <2>1, SubSeqProperties
<1>3. ASSUME NEW j \in 1..3
      PROVE  Append(SubSeq(Ack, 1, j - 1), Ack[j]) = SubSeq(Ack, 1, j)
  <2>1. j \in 1..Len(Ack) /\ 1 \in 1..Len(Ack) /\ j \in 1..Len(Ack)
    BY <1>1
  <2>2. SubSeq(Ack, 1, j) = SubSeq(Ack, 1, j - 1) \o <<Ack[j]>>
    BY <1>1, <2>1, SubSeqRecursiveSecond
  <2>3. SubSeq(Ack, 1, j - 1) \in Seq(Byte) /\ Ack[j] \in Byte
    <3>1. j - 1 \in 0..3
      OBVIOUS
    <3> QED  BY <1>1, <1>2, <2>1, <3>1, ElementOfSeq
  <2> QED  BY <2>2, <2>3, AppendIsConcat
<1> QED  BY <1>1, <1>2, <1>3

LEMMA AckingStep ==
  ASSUME LinkTypeOK, NEW j \in 1..4, Acking(j), DeviceStep, HostWaits
  PROVE  /\ Acking(j)' \/ (j < 4 /\ Acking(j + 1)')
         /\ UNCHANGED <<memory, accepted>>
<1>1. /\ state = IF j < 4 THEN AckStates[j] ELSE "UNLOCKED"
      /\ to_device = <<>> /\ Replies = SubSeq(Ack, 1, j - 1)
  BY DEF Acking
<1>2. CASE j = 4
  BY <1>1, <1>2, OnlyOutDone DEF Acking
<1>3. CASE j < 4
  <2>1. state \in {"KEY_SEND1", "KEY_SEND2", "KEY_SEND3"}
    BY <1>1, <1>3 DEF AckStates
  <2>2. OutDone \/ SendKey
    BY <1>1, <2>1, StepByState, ReceiveByState
  <2>3. CASE OutDone
    <3>1. Replies' = Replies
      BY <2>3, OutDoneReplies DEF HostWaits
    <3> QED  BY <1>1, <2>3, <3>1 DEF OutDone, Acking
  <2>4. CASE SendKey
    <3>1. PICK m \in 1..3 : /\ state = AckStates[m] /\ Send(Ack[m])
                            /\ state' = IF m < 3 THEN AckStates[m + 1] ELSE "UNLOCKED"
      BY <2>4 DEF SendKey
    <3>2. m = j
      BY <1>1, <1>3, <3>1 DEF AckStates
    <3>3. UNCHANGED <<to_device, to_host, memory, accepted>>
      BY <2>4 DEF SendKey, channel_vars
    <3>4. Ack[j] \in Byte
      BY <1>3 DEF Ack, Byte
    <3>5. Replies' = Append(Replies, Ack[j])
      BY <3>1, <3>2, <3>3, <3>4, SendReplies DEF HostWaits
    <3>6. Append(SubSeq(Ack, 1, j - 1), Ack[j]) = SubSeq(Ack, 1, j)
      BY <1>3, AckPrefixes
    <3>7. Acking(j + 1)'
      BY <1>1, <1>3, <3>1, <3>2, <3>3, <3>5, <3>6 DEF Acking
    <3> QED  BY <1>3, <3>3, <3>7
  <2> QED  BY <2>2, <2>3, <2>4
<1> QED  BY <1>2, <1>3

\* Division with remainder has one result.
LEMMA RemainderIsUnique ==
  ASSUME NEW n \in Nat \ {0}, NEW q \in Int, NEW r \in 0..n - 1
  PROVE  (n * q + r) % n = r
<1> DEFINE x == n * q + r
           p == x \div n
           s == x % n
<1>1. x \in Int
  OBVIOUS
<1> HIDE DEF x
<1>2. p \in Int /\ s \in 0..n - 1 /\ x = n * p + s
  BY <1>1
<1> HIDE DEF p, s
<1> DEFINE d == p - q
<1>3. d \in Int /\ n * d = n * p - n * q
  BY <1>2
<1>4. n * d = r - s
  BY <1>2, <1>3 DEF x
<1> HIDE DEF d
<1>5. ~(d >= 1)
  <2> SUFFICES ASSUME d >= 1 PROVE FALSE
    OBVIOUS
  <2>1. n * d >= n
    BY <1>3
  <2> QED  BY <1>2, <1>4, <2>1
<1>6. ~(d <= -1)
  <2> SUFFICES ASSUME d <= -1 PROVE FALSE
    OBVIOUS
  <2>1. n * d <= -n
    BY <1>3
  <2> QED  BY <1>2, <1>4, <2>1
<1>7. d = 0
  BY <1>3, <1>5, <1>6
<1>8. s = r
  BY <1>2, <1>4, <1>7
<1> QED  BY <1>8 DEF s, x

LEMMA NextRemainder ==
  ASSUME NEW x \in Int
  PROVE  ((x % AddressSpace) + 1) % AddressSpace = (x + 1) % AddressSpace
<1> DEFINE q == x \div AddressSpace
           r == x % AddressSpace
<1>1. AddressSpace \in Nat \ {0}
  BY SpaceFacts
<1>2. q \in Int /\ r \in 0..AddressSpace - 1 /\ x = AddressSpace * q + r
  BY <1>1
<1> HIDE DEF q, r
<1>3. CASE r < AddressSpace - 1
  <2>1. x + 1 = AddressSpace * q + (r + 1) /\ r + 1 \in 0..AddressSpace - 1
    BY <1>1, <1>2, <1>3
  <2>2. (AddressSpace * q + (r + 1)) % AddressSpace = r + 1
    BY <1>1, <1>2, <2>1, RemainderIsUnique
  <2>3. (r + 1) % AddressSpace = r + 1
    BY <2>1, AddressRemainder DEF Address
  <2> QED  BY <2>1, <2>2, <2>3 DEF r
<1>4. CASE r = AddressSpace - 1
  <2>1. x + 1 = AddressSpace * (q + 1) + 0 /\ q + 1 \in Int /\ 0 \in 0..AddressSpace - 1
    BY <1>1, <1>2, <1>4
  <2>2. (AddressSpace * (q + 1) + 0) % AddressSpace = 0
    BY <1>1, <2>1, RemainderIsUnique
  <2>3. r \in Address /\ (r + 1) % AddressSpace = 0
    BY <1>2, <1>4, NextAddressIs DEF Address
  <2> QED  BY <2>1, <2>2, <2>3 DEF r
<1> QED  BY <1>1, <1>2, <1>3, <1>4

(***************************************************************************)
(* The board and a transfer.                                               *)
(***************************************************************************)
LEMMA AnnouncedStep ==
  ASSUME LinkTypeOK, Announced, state \in HeaderStates, DeviceStep, HostWaits
  PROVE  /\ Announced' /\ UNCHANGED <<memory, accepted>>
         /\ \/ state' \in HeaderStates
            \/ state' = "WRITE_START" /\ reg_command = WriteCommand
            \/ state' = "READ_START" /\ reg_command # WriteCommand
<1>1. /\ reg_command = CommandByte(call)
      /\ HeaderFits /\ Len(to_device) = HeaderLeft
      /\ LineAddress = call.address /\ LineCount = TransferSize(call)
      /\ Quiet
  BY DEF Announced
<1>2. Receive
  BY <1>1, StepByState, StatesAre DEF OutDone, Quiet
<1>3. DeviceTypeOK
  BY DEF LinkTypeOK
<1>4. /\ HeaderFits' /\ HeaderLeft' = HeaderLeft - 1
      /\ LineAddress' = LineAddress /\ LineCount' = LineCount
      /\ UNCHANGED <<reg_command, reg_data, to_host, out_data, memory, accepted>>
      /\ \/ state' \in HeaderStates
         \/ state' = "WRITE_START" /\ reg_command = WriteCommand
         \/ state' = "READ_START" /\ reg_command # WriteCommand
  BY <1>1, <1>2, <1>3, HeaderReceive
<1>5. Len(to_device') = HeaderLeft'
  BY <1>1, <1>2, <1>3, <1>4, ReceiveType
<1>6. UNCHANGED call
  BY DEF HostWaits
<1> QED  BY <1>1, <1>4, <1>5, <1>6 DEF Announced, Quiet

LEMMA AwaitingDataStep ==
  ASSUME LinkTypeOK, call.op = "write", AwaitingData, DeviceStep, HostWaits
  PROVE  AwaitingData' /\ UNCHANGED accepted
<1>1. reg_command = CommandByte(call) => reg_command = WriteCommand
  BY CommandByteFacts DEF LinkTypeOK
<1>2. Image(memory)
  BY DEF AwaitingData
<1>3. CASE Announced /\ state \in HeaderStates
  <2>1. /\ Announced' /\ UNCHANGED <<memory, accepted>>
        /\ state' \in HeaderStates \/ state' = "WRITE_START"
    BY <1>1, <1>3, AnnouncedStep DEF Announced
  <2> QED  BY <1>2, <2>1, StatesAre DEF AwaitingData, Image, HostWaits
<1>4. CASE Announced /\ state = "WRITE_START"
  <2>1. /\ to_device = <<>> /\ LineAddress = reg_address /\ LineCount = reg_count
        /\ HeaderLeft = 0
    <3>1. HeaderLeft = 0
      BY <1>4 DEF HeaderLeft
    <3>2. to_device = <<>>
      BY <1>4, <3>1, EmptySeq DEF Announced, LinkTypeOK, DeviceTypeOK
    <3> QED  BY <1>4, <3>1, <3>2 DEF LineAddress, LineCount
  <2>2. StartTransfer
    BY <1>4, <2>1, StepByState, ReceiveByState DEF OutDone, Quiet, Announced
  <2>3. /\ state' = IF reg_count = 0 THEN "UNLOCKED" ELSE "WRITE_IN"
        /\ UNCHANGED <<to_device, to_host, reg_command, reg_address, reg_count, reg_data, out_data,
                       memory, accepted>>
    BY <1>4, <2>2 DEF StartTransfer, channel_vars, reg_vars
  <2>4. HeaderLeft' = 0 /\ LineAddress' = LineAddress /\ LineCount' = LineCount
    BY <2>1, <2>3 DEF HeaderLeft, LineAddress, LineCount
  <2>5. CASE reg_count = 0
    BY <1>2, <1>4, <2>1, <2>3, <2>5 DEF AwaitingData, Announced, Quiet, Image, HostWaits
  <2>6. CASE reg_count # 0
    <3>1. LineCount > 0 /\ HeaderFits'
      BY <1>4, <2>1, <2>3, <2>4, <2>6 DEF Announced, HeaderFits
    <3> QED  BY <1>2, <1>4, <2>1, <2>3, <2>4, <2>6, <3>1
             DEF AwaitingData, Announced, Quiet, Image, HostWaits
  <2> QED  BY <2>5, <2>6
<1>5. CASE Announced /\ state = "WRITE_IN"
  <2>1. to_device = <<>>
    <3>1. HeaderLeft = 0
      BY <1>5 DEF HeaderLeft
    <3> QED  BY <1>5, <3>1, EmptySeq DEF Announced, LinkTypeOK, DeviceTypeOK
  <2>2. FALSE
    BY <1>5, <2>1, StepByState, ReceiveByState DEF OutDone, Quiet, Announced
  <2> QED  BY <2>2
<1>6. CASE state = "UNLOCKED" /\ to_device = <<>> /\ Quiet /\ TransferSize(call) = 0
  <2>1. FALSE
    BY <1>6, StepByState, ReceiveByState DEF OutDone, Quiet
  <2> QED  BY <2>1
<1> QED  BY <1>3, <1>4, <1>5, <1>6 DEF AwaitingData

LEMMA SendingDataStep ==
  ASSUME LinkTypeOK, call.op = "read", TransferSize(call) < CountSpace,
         SendingData, DeviceStep, HostWaits
  PROVE  SendingData' /\ UNCHANGED accepted
<1>1. /\ Image(memory) /\ to_device = <<>>
      /\ \A i \in 1..Len(Replies) : Replies[i] = memory[(call.address + i - 1) % AddressSpace]
  BY DEF SendingData
<1>2. /\ Replies \in Seq(Byte) /\ Len(Replies) \in Nat
      /\ call.address \in Address /\ call.address \in Nat /\ call.size \in Nat \ {0}
      /\ reg_address \in Address /\ reg_count \in 0..CountSpace - 1 /\ reg_data \in Byte
      /\ CountSpace \in Nat /\ TransferSize(call) = call.size
  <2>1. call.address \in Address /\ call.size \in Nat \ {0}
    BY CallFacts DEF LinkTypeOK
  <2>2. call.address \in Nat
    BY <2>1, SpaceFacts DEF Address
  <2> QED  BY <2>1, <2>2, RepliesType, SpaceFacts DEF LinkTypeOK, DeviceTypeOK, TransferSize
<1>3. UNCHANGED call
  BY DEF HostWaits
<1>4. ~Receive
  BY <1>1, ReceiveByState
<1>5. ASSUME OutDone PROVE SendingData' /\ UNCHANGED accepted
  <2>1. Replies' = Replies
    BY <1>5, OutDoneReplies DEF HostWaits
  <2>2. UNCHANGED <<to_device, state, reg_address, reg_count, reg_data, memory, accepted>>
    BY <1>5 DEF OutDone, reg_vars
  <2> QED  BY <2>1, <2>2 DEF SendingData, Image, HostWaits
<1>6. CASE state = "READ_START" /\ ~OutDone
  <2>1. StartTransfer
    BY <1>4, <1>6, StepByState
  <2>2. /\ state' = IF reg_count = 0 THEN "UNLOCKED" ELSE "READ_MEM"
        /\ UNCHANGED <<to_device, to_host, reg_address, reg_count, out_data, memory, accepted>>
    BY <1>6, <2>1 DEF StartTransfer, channel_vars, reg_vars
  <2>3. Replies' = Replies
    BY <2>2 DEF Replies, HostWaits
  <2>4. Len(Replies) = call.size - reg_count /\ reg_address = (call.address + Len(Replies)) % AddressSpace
    BY <1>6 DEF SendingData
  <2>5. reg_count = 0 => Len(Replies) = call.size
    BY <1>2, <2>4
  <2>6. reg_count # 0 => reg_count > 0
    BY <1>2
  <2> QED  BY <1>1, <2>2, <2>3, <2>4, <2>5, <2>6 DEF SendingData, Image, HostWaits
<1>7. CASE state = "READ_MEM" /\ ~OutDone
  <2>1. ReadMem
    BY <1>4, <1>7, StepByState
  <2>2. /\ state' = "READ_OUT" /\ reg_data' = memory[reg_address]
        /\ UNCHANGED <<to_device, to_host, reg_address, reg_count, out_data, memory, accepted>>
    BY <2>1 DEF ReadMem, channel_vars
  <2>3. Replies' = Replies
    BY <2>2 DEF Replies, HostWaits
  <2> QED  BY <1>1, <1>7, <2>2, <2>3 DEF SendingData, Image, HostWaits
<1>8. CASE state = "READ_OUT" /\ ~OutDone
  <2>1. ReadOut
    BY <1>4, <1>8, StepByState
  <2>2. /\ state' = "READ_START" /\ Send(reg_data)
        /\ reg_address' = (reg_address + 1) % AddressSpace
        /\ reg_count' = (reg_count - 1) % CountSpace
        /\ UNCHANGED <<to_device, to_host, memory, accepted>>
    BY <2>1 DEF ReadOut, NextMemoryByte, channel_vars
  <2>3. /\ Len(Replies) = call.size - reg_count
        /\ reg_address = (call.address + Len(Replies)) % AddressSpace
        /\ reg_count > 0 /\ reg_data = memory[reg_address]
    BY <1>8 DEF SendingData
  <2>4. Replies' = Append(Replies, reg_data) /\ Len(Replies') = Len(Replies) + 1
    BY <1>2, <2>2, SendReplies DEF HostWaits
  <2>5. reg_count' = reg_count - 1
    <3>1. reg_count - 1 \in 0..CountSpace - 1
      BY <1>2, <2>3
    <3> QED  BY <2>2, <3>1, CountRemainder
  <2>6. reg_address' = (call.address + Len(Replies')) % AddressSpace
    <3> DEFINE x == call.address + Len(Replies)
    <3>1. x \in Int /\ x + 1 = call.address + Len(Replies')
      <4> DEFINE m == Len(Replies)
                 a == call.address
      <4>1. m \in Nat /\ a \in Nat /\ Len(Replies') = m + 1
        BY <1>2, <2>4
      <4> HIDE DEF m, a
      <4>2. a + m \in Int /\ (a + m) + 1 = a + (m + 1)
        BY <4>1
      <4> QED  BY <4>1, <4>2 DEF m, a
    <3>2. reg_address' = ((x % AddressSpace) + 1) % AddressSpace
      BY <2>2, <2>3
    <3> HIDE DEF x
    <3> QED  BY <3>1, <3>2, NextRemainder
  <2>7. ASSUME NEW i \in 1..Len(Replies')
        PROVE  Replies'[i] = memory[(call.address + i - 1) % AddressSpace]
    <3>1. CASE i = Len(Replies')
      <4>1. Replies'[i] = reg_data
        BY <1>2, <2>4, <3>1, AppendProperties
      <4>2. call.address + i - 1 = call.address + Len(Replies)
        BY <1>2, <2>4, <3>1
      <4> QED  BY <2>3, <4>1, <4>2
    <3>2. CASE i # Len(Replies')
      <4>1. i \in 1..Len(Replies)
        BY <1>2, <2>4, <3>2
      <4>2. Replies'[i] = Replies[i]
        BY <1>2, <2>4, <4>1, AppendProperties
      <4> QED  BY <1>1, <4>1, <4>2
    <3> QED  BY <3>1, <3>2
  <2>8. Len(Replies') = call.size - reg_count'
    BY <1>2, <2>3, <2>4, <2>5
  <2> QED  BY <1>1, <1>3, <2>2, <2>6, <2>7, <2>8 DEF SendingData, Image, HostWaits
<1>9. CASE state = "UNLOCKED"
  <2>1. Replies' = Replies /\ UNCHANGED <<to_device, state, reg_command, memory, accepted>>
    BY <1>1, <1>9, OnlyOutDone
  <2> QED  BY <1>1, <1>9, <2>1 DEF SendingData, Image, HostWaits
<1> QED  BY <1>5, <1>6, <1>7, <1>8, <1>9 DEF SendingData

LEMMA ReadingStep ==
  ASSUME LinkTypeOK, call.op = "read", TransferSize(call) < CountSpace,
         Reading, DeviceStep, HostWaits
  PROVE  Reading' /\ UNCHANGED accepted
<1>1. CASE SendingData
  BY <1>1, SendingDataStep DEF Reading
<1>2. CASE Image(memory) /\ received = <<>> /\ Announced /\ state \in HeaderStates
  <2>1. reg_command # WriteCommand
    BY <1>2, CommandByteFacts DEF LinkTypeOK, Announced, WriteCommand, ReadCommand
  <2>2. /\ Announced' /\ UNCHANGED <<memory, accepted>>
        /\ state' \in HeaderStates \/ state' = "READ_START"
    BY <1>2, <2>1, AnnouncedStep
  <2>3. Image(memory)' /\ received' = <<>> /\ UNCHANGED call
    BY <1>2, <2>2 DEF Image, HostWaits
  <2>4. CASE state' \in HeaderStates
    BY <2>2, <2>3, <2>4, StatesAre DEF Reading
  <2>5. CASE state' = "READ_START"
    <3>1. HeaderLeft' = 0 /\ LineAddress' = reg_address' /\ LineCount' = reg_count'
      BY <2>5 DEF HeaderLeft, LineAddress, LineCount
    <3>2. to_device' \in Seq(Byte)
      BY DeviceStepType DEF LinkTypeOK, DeviceTypeOK
    <3>3. call.address \in Address /\ call.size \in Nat /\ call.address \in Nat
      BY CallFacts, SpaceFacts DEF LinkTypeOK, Address
    <3>4. reg_address' = call.address /\ reg_count' = call.size /\ Quiet' /\ Len(to_device') = 0
      BY <2>2, <2>3, <3>1 DEF Announced, TransferSize
    <3>5. to_device' = <<>>
      BY <3>2, <3>4, EmptySeq
    <3>6. Replies' = <<>>
      BY <2>3, <3>4 DEF Replies, Quiet
    <3>7. Len(Replies') = 0 /\ Len(Replies') = call.size - reg_count'
      BY <3>3, <3>4, <3>6
    <3>8. reg_address' = (call.address + Len(Replies')) % AddressSpace
      BY <3>3, <3>4, <3>7, AddressRemainder
    <3>9. SendingData'
      BY <2>3, <2>5, <3>5, <3>7, <3>8 DEF SendingData
    <3> QED  BY <2>2, <3>9 DEF Reading
  <2> QED  BY <2>2, <2>4, <2>5
<1> QED  BY <1>1, <1>2 DEF Reading

(***************************************************************************)
(* The board's steps preserve the invariant.                               *)
(***************************************************************************)
\* A board that has nothing to say, on an empty line.
LEMMA NothingToDo ==
  ASSUME to_device = <<>>, Quiet,
         state \in {"UNLOCKED", "LOCKED", "WRITE_IN"} \cup HeaderStates \cup Range(KeyStates)
  PROVE  ~DeviceStep
  BY StepByState, ReceiveByState, StatesAre DEF OutDone, Quiet

LEMMA AgreedBoard ==
  ASSUME LinkTypeOK, TransferCall, Agreed, Board, pc \notin {"closed", "locking"}
  PROVE  Agreed'
<1>1. DeviceStep /\ HostWaits /\ UNCHANGED <<success, calls>>
  BY DEF Board, HostWaits, host_vars, history_vars
<1>2. /\ InCommand /\ InReply /\ InUnlock /\ InKey /\ InHeader /\ InTransfer
      /\ InEnded /\ AtPrompt /\ TransferFits /\ Outcome
  BY DEF Agreed
<1>3. /\ UNCHANGED <<pc, call, received, backlog, retried, sent, image, disturbed, success>>
      /\ TransferSize(call)' = TransferSize(call) /\ CommandByte(call)' = CommandByte(call)
  BY <1>1 DEF HostWaits, TransferSize, CommandByte
<1>4. TransferFits'
  BY <1>2, <1>3 DEF TransferFits
<1>5. pc \in {"prompt", "command", "reply", "unlock", "key", "header", "transfer", "ended"}
  BY DEF LinkTypeOK
<1>6. ASSUME UNCHANGED accepted PROVE Outcome'
  BY <1>2, <1>3, <1>6 DEF Outcome
<1>7. CASE pc \in {"command", "prompt", "ended"}
  <2>1. Settled(0)
    BY <1>2, <1>7 DEF InCommand, AtPrompt, InEnded
  <2>2. Settled(0)' /\ UNCHANGED accepted
    BY <1>1, <2>1, SettledStep
  <2>3. InCommand' /\ AtPrompt'
    BY <1>2, <1>3, <2>2 DEF InCommand, AtPrompt
  <2>4. InEnded'
    BY <1>2, <1>3, <2>2 DEF InEnded, ReadIsRight
  <2> QED  BY <1>3, <1>4, <1>6, <1>7, <2>2, <2>3, <2>4
           DEF Agreed, InReply, InUnlock, InKey, InHeader, InTransfer
<1>8. CASE pc = "reply"
  <2> SUFFICES InReply' /\ Outcome'
    BY <1>3, <1>4, <1>8
       DEF Agreed, InCommand, InUnlock, InKey, InHeader, InTransfer, InEnded, AtPrompt
  <2>1. /\ received = <<>> /\ ~backlog /\ sent = "unknown"
        /\ \/ accepted = <<>> /\ (Settled(1) \/ Accepting \/ Refusing)
           \/ accepted = <<CommandByte(call)>> /\ Replies = <<Okay>> /\ Granted
    BY <1>2, <1>8 DEF InReply, Outcome
  <2>2. Outcome'
    BY <1>3, <1>8, <2>1 DEF Outcome
  <2>3. CASE accepted = <<>> /\ Settled(1)
    BY <1>1, <1>3, <1>8, <2>1, <2>2, <2>3, SettledStep DEF InReply
  <2>4. CASE accepted = <<>> /\ Accepting
    BY <1>1, <1>3, <1>8, <2>1, <2>2, <2>4, AcceptingStep DEF InReply
  <2>5. CASE accepted = <<>> /\ Refusing
    BY <1>1, <1>3, <1>8, <2>1, <2>2, <2>5, RefusingStep DEF InReply
  <2>6. CASE accepted = <<CommandByte(call)>> /\ Replies = <<Okay>> /\ Granted
    BY <1>1, <1>3, <1>8, <2>1, <2>2, <2>6, GrantedStep DEF InReply
  <2> QED  BY <2>1, <2>3, <2>4, <2>5, <2>6
<1>9. CASE pc = "unlock"
  BY <1>1, <1>2, <1>9, NothingToDo DEF InUnlock
<1>10. CASE pc = "key"
  <2> SUFFICES InKey' /\ UNCHANGED accepted
    BY <1>3, <1>4, <1>6, <1>10
       DEF Agreed, InCommand, InReply, InUnlock, InHeader, InTransfer, InEnded, AtPrompt
  <2>1. /\ ~backlog /\ ~retried /\ Len(received) < AckLength /\ accepted = <<>> /\ Image(memory)
        /\ (\E i \in 1..5 : KeyOnLine(i)) \/ (\E j \in 1..4 : Acking(j))
    BY <1>2, <1>10 DEF InKey
  <2>2. CASE \E i \in 1..5 : KeyOnLine(i)
    <3>1. PICK i \in 1..5 : KeyOnLine(i)
      BY <2>2
    <3>2. /\ (i < 5 /\ KeyOnLine(i + 1)') \/ (i = 5 /\ Acking(1)')
          /\ UNCHANGED <<memory, accepted>>
      BY <1>1, <3>1, KeyOnLineStep
    <3>3. (\E m \in 1..5 : KeyOnLine(m)') \/ (\E m \in 1..4 : Acking(m)')
      BY <3>2
    <3> QED  BY <1>3, <2>1, <3>2, <3>3 DEF InKey, Image
  <2>3. CASE \E j \in 1..4 : Acking(j)
    <3>1. PICK j \in 1..4 : Acking(j)
      BY <2>3
    <3>2. /\ Acking(j)' \/ (j < 4 /\ Acking(j + 1)')
          /\ UNCHANGED <<memory, accepted>>
      BY <1>1, <3>1, AckingStep
    <3>3. \E m \in 1..4 : Acking(m)'
      BY <3>2
    <3> QED  BY <1>3, <2>1, <3>2, <3>3 DEF InKey, Image
  <2> QED  BY <2>1, <2>2, <2>3
<1>11. CASE pc = "header"
  <2>1. Quiet /\ to_device = <<>> /\ state \in {"UNLOCKED"} \cup HeaderStates
    BY <1>2, <1>11, StatesAre DEF InHeader, Granted
  <2> QED  BY <1>1, <2>1, NothingToDo
<1>12. CASE pc = "transfer"
  <2> SUFFICES InTransfer' /\ UNCHANGED accepted
    BY <1>3, <1>4, <1>6, <1>12
       DEF Agreed, InCommand, InReply, InUnlock, InKey, InHeader, InEnded, AtPrompt
  <2>1. /\ ~backlog /\ call.op \in {"write", "read"}
        /\ call.op = "write" => AwaitingData
        /\ call.op = "read" => Reading
        /\ TransferSize(call) < CountSpace
    BY <1>2, <1>12 DEF InTransfer, TransferFits
  <2>2. CASE call.op = "write"
    BY <1>1, <1>3, <2>1, <2>2, AwaitingDataStep DEF InTransfer
  <2>3. CASE call.op = "read"
    BY <1>1, <1>3, <2>1, <2>3, ReadingStep DEF InTransfer
  <2> QED  BY <2>1, <2>2, <2>3
<1> QED  BY <1>5, <1>7, <1>8, <1>9, <1>10, <1>11, <1>12

\* A byte that is no command and does not go on with the key, or one of a
\* header or of a write.
LEMMA AstrayReceives ==
  ASSUME LinkTypeOK, Receive, Astray
  PROVE  AstrayOrDone' /\ UNCHANGED <<to_host, out_data, accepted>>
<1>1. UNCHANGED <<to_host, out_data, accepted>>
  BY ReceiveByState
<1>2. CASE state = "WRITE_IN"
  BY <1>1, <1>2, ReceiveByState DEF WriteIn, AstrayOrDone
<1>3. CASE state \in HeaderStates /\ reg_command = WriteCommand
  <2>1. GetAddress(Head(to_device)) \/ GetCount(Head(to_device))
    BY <1>3, ReceiveByState
  <2>2. /\ UNCHANGED reg_command
        /\ state' \in {"GET_ADDR1", "GET_ADDR2", "GET_COUNT0", "GET_COUNT1", "WRITE_START"}
    BY <1>3, <2>1, HeaderByState DEF GetsByte
  <2> QED  BY <1>1, <1>3, <2>2, StatesAre DEF AstrayOrDone, Astray
<1> QED  BY <1>2, <1>3 DEF Astray

\* Steps within a write, on the way out of it.
LEMMA AstrayOrDoneSteps ==
  ASSUME state \in {"WRITE_START", "WRITE_MEM"}, DeviceStep, ~OutDone
  PROVE  AstrayOrDone' /\ UNCHANGED <<channel_vars, out_data, accepted>>
<1>1. ~Receive
  BY ReceiveByState, StatesAre
<1>2. CASE state = "WRITE_START"
  BY <1>1, <1>2, StepByState DEF StartTransfer, AstrayOrDone, Astray
<1>3. CASE state = "WRITE_MEM"
  BY <1>1, <1>3, StepByState DEF WriteMem, AstrayOrDone
<1> QED  BY <1>2, <1>3

\* The bytes of the key are no commands, and only the first is the first.
LEMMA KeyBytes ==
  /\ \A i \in 1..5 : Key[i] \notin KnownCommands
  /\ \A i \in 2..5 : Key[i] # Key[1]
  /\ Ack[1] # Refused
<1>1. KnownCommands = {0, 1, 2, 255} \cup {16, 17, 18, 19}
  <2>1. {ControlCommand(sig) : sig \in 0..3} = {16, 17, 18, 19}
    BY DEF ControlCommand
  <2> QED  BY <2>1 DEF KnownCommands, TestCommand, ReadCommand, WriteCommand, LockCommand
<1>2. \A i \in 1..5 : Key[i] \in {83, 73, 67, 88, 69}
  BY DEF Key
<1>3. \A i \in 2..5 : Key[i] # Key[1]
  BY DEF Key
<1> QED  BY <1>1, <1>2, <1>3 DEF Ack, Refused

\* A board that does not listen for the key answers nothing but 'X'.
LEMMA FindingKeyStep ==
  ASSUME LinkTypeOK, FoundInKey, pc = "key", accepted = <<>>, DeviceStep, HostWaits
  PROVE  FoundInKey' /\ UNCHANGED accepted
<1>1. PICK i \in 1..6 :
         /\ to_device = SubSeq(Key, i, 5)
         /\ AstrayOrDone \/ (state \in {"LOCKED", "PROTO_ERROR"} /\ i > 1)
  BY DEF FoundInKey
<1>2. (\A m \in 1..Len(Replies) : Replies[m] = Refused) /\ Len(received) < AckLength
  BY DEF FoundInKey
<1>3. UNCHANGED <<pc, received>>
  BY DEF HostWaits
<1>4. ASSUME NEW k \in 1..6, to_device' = SubSeq(Key, k, 5),
             AstrayOrDone' \/ (state' \in {"LOCKED", "PROTO_ERROR"} /\ k > 1),
             Replies' = Replies
      PROVE  FoundInKey'
  BY <1>2, <1>3, <1>4 DEF FoundInKey
<1>5. CASE OutDone
  <2>1. Replies' = Replies
    BY <1>3, <1>5, OutDoneReplies
  <2>2. UNCHANGED <<to_device, state, reg_command, accepted>>
    BY <1>5 DEF OutDone, reg_vars
  <2>3. AstrayOrDone' = AstrayOrDone
    BY <2>2 DEF AstrayOrDone, Astray
  <2> QED  BY <1>1, <1>4, <2>1, <2>2, <2>3
<1>6. CASE Receive
  <2>1. /\ to_device # <<>> /\ to_device' = Tail(to_device)
        /\ UNCHANGED <<to_host, out_data, accepted>>
    BY <1>6, ReceiveByState
  <2>2. Replies' = Replies
    BY <1>3, <2>1 DEF Replies
  <2>3. i \in 1..5
    BY <1>1, <2>1, RestOfKey
  <2>4. Head(to_device) = Key[i] /\ to_device' = SubSeq(Key, i + 1, 5)
    BY <1>1, <2>1, <2>3, RestOfKey
  <2>5. AstrayOrDone' \/ state' \in {"LOCKED", "PROTO_ERROR"}
    <3>1. CASE Astray
      BY <1>6, <3>1, AstrayReceives
    <3>2. CASE state \in {"WRITE_START", "WRITE_MEM"}
      BY <1>6, <3>2, ReceiveByState, StatesAre
    <3>3. CASE state = "UNLOCKED"
      <4>1. GetCommand(Key[i])
        BY <1>6, <2>4, <3>3, ReceiveByState
      <4> QED  BY <2>3, <4>1, KeyBytes DEF GetCommand
    <3>4. CASE state = "LOCKED" /\ i > 1
      <4>1. GetKey(Key[i])
        BY <1>6, <2>4, <3>4, ReceiveByState, StatesAre
      <4>2. PICK m \in 1..5 : /\ state = KeyStates[m]
                              /\ state' = IF Key[i] # Key[m] THEN "PROTO_ERROR"
                                          ELSE IF m < 5 THEN KeyStates[m + 1] ELSE AckStates[1]
        BY <4>1 DEF GetKey, KeyStates
      <4>3. m = 1
        BY <3>4, <4>2 DEF KeyStates
      <4>4. Key[i] # Key[1]
        BY <2>3, <3>4, KeyBytes
      <4> QED  BY <4>2, <4>3, <4>4
    <3>5. CASE state = "PROTO_ERROR"
      BY <1>6, <3>5, ReceiveByState, StatesAre
    <3> QED  BY <1>1, <3>1, <3>2, <3>3, <3>4, <3>5 DEF AstrayOrDone
  <2>6. i + 1 \in 1..6 /\ i + 1 > 1
    BY <2>3
  <2> QED  BY <1>4, <2>1, <2>2, <2>4, <2>5, <2>6
<1>7. CASE ~OutDone /\ ~Receive
  <2>1. CASE state \in {"WRITE_START", "WRITE_MEM"}
    <3>1. AstrayOrDone' /\ UNCHANGED <<channel_vars, out_data, accepted>>
      BY <1>7, <2>1, AstrayOrDoneSteps
    <3>2. Replies' = Replies /\ UNCHANGED <<to_device, accepted>>
      BY <1>3, <3>1 DEF Replies, channel_vars
    <3> QED  BY <1>1, <1>4, <3>1, <3>2
  <2>2. CASE state = "PROTO_ERROR" /\ i > 1
    <3>1. /\ Send(Refused) /\ state' = "LOCKED"
          /\ UNCHANGED <<to_device, to_host, accepted>>
      BY <1>7, <2>2, StepByState DEF SendError, channel_vars
    <3>2. Refused \in Byte
      BY DEF Refused, Byte
    <3>3. Replies' = Append(Replies, Refused) /\ Replies \in Seq(Byte)
      BY <1>3, <3>1, <3>2, SendReplies, RepliesType
    <3>4. \A m \in 1..Len(Replies') : Replies'[m] = Refused
      BY <1>2, <3>3, AppendProperties
    <3> QED  BY <1>1, <1>2, <1>3, <2>2, <3>1, <3>4 DEF FoundInKey
  <2>3. CASE Astray \/ state \in {"UNLOCKED", "LOCKED"}
    BY <1>7, <2>3, StepByState, StatesAre DEF Astray
  <2> QED  BY <1>1, <2>1, <2>2, <2>3 DEF AstrayOrDone
<1> QED  BY <1>5, <1>6, <1>7

LEMMA FindingBoard ==
  ASSUME LinkTypeOK, Finding, Board
  PROVE  Finding' \/ Agreed'
<1>1. DeviceStep /\ HostWaits /\ UNCHANGED <<success, calls>>
  BY DEF Board, HostWaits, host_vars, history_vars
<1>2. /\ disturbed = "found" /\ call = TestCall /\ calls = <<>> /\ ~retried
      /\ pc \in {"command", "reply", "unlock", "key", "ended"}
      /\ pc # "ended" => sent = "unknown" /\ accepted = <<>>
      /\ pc \notin {"key", "ended"} => received = <<>>
      /\ pc = "ended" => sent = "failed" /\ ~success
      /\ FoundInCommand /\ FoundInReply /\ FoundInUnlock /\ FoundInKey
  BY DEF Finding
<1>3. UNCHANGED <<pc, call, calls, received, backlog, retried, sent, image, disturbed, success>>
  BY <1>1 DEF HostWaits
<1>4. CASE pc = "command"
  <2>1. to_device = <<>> /\ Quiet /\ BeforeTest
    BY <1>2, <1>4 DEF FoundInCommand
  <2>2. state \in {"WRITE_IN"} \cup HeaderStates \cup Range(KeyStates)
    BY <2>1, StatesAre DEF BeforeTest, Astray
  <2> QED  BY <1>1, <2>1, <2>2, NothingToDo
<1>5. CASE pc = "unlock"
  <2>1. to_device = <<>> /\ Quiet /\ (Astray \/ state = "UNLOCKED")
    BY <1>2, <1>5 DEF FoundInUnlock
  <2>2. state \in {"WRITE_IN", "UNLOCKED"} \cup HeaderStates
    BY <2>1 DEF Astray
  <2> QED  BY <1>1, <2>1, <2>2, NothingToDo
<1>6. CASE pc = "ended"
  BY <1>2, <1>3, <1>6 DEF Finding, FoundInCommand, FoundInReply, FoundInUnlock, FoundInKey
<1>7. CASE pc = "key"
  BY <1>1, <1>2, <1>3, <1>7, FindingKeyStep
     DEF Finding, FoundInCommand, FoundInReply, FoundInUnlock
<1>8. CASE pc = "reply"
  <2>1. /\ Quiet /\ ~backlog
        /\ \/ to_device = <<TestCommand>> /\ BeforeTest
           \/ to_device = <<>> /\ AstrayOrDone
    BY <1>2, <1>8 DEF FoundInReply
  <2>2. ~OutDone
    BY <2>1 DEF OutDone, Quiet
  <2>3. ASSUME to_device' = <<>>, AstrayOrDone', Quiet', UNCHANGED accepted
        PROVE  Finding'
    BY <1>2, <1>3, <1>8, <2>1, <2>3
       DEF Finding, FoundInCommand, FoundInReply, FoundInUnlock, FoundInKey
  <2>4. CASE to_device = <<TestCommand>> /\ BeforeTest
    <3>1. Receive
      BY <1>1, <2>2, <2>4, StepByState, StatesAre DEF BeforeTest, Astray
    <3>2. /\ to_device' = <<>> /\ Head(to_device) = TestCommand
          /\ UNCHANGED <<to_host, out_data, memory, accepted>>
      BY <2>4, <3>1, ReceiveByState
    <3>3. Quiet'
      BY <2>1, <3>2 DEF Quiet
    <3>4. CASE Astray
      BY <2>3, <3>1, <3>2, <3>3, <3>4, AstrayReceives
    <3>5. CASE state \in {"KEY_GET1", "KEY_GET2", "KEY_GET3", "KEY_GET4"}
      <4>1. GetKey(TestCommand)
        BY <3>1, <3>2, <3>5, ReceiveByState, StatesAre
      <4>2. state' = "PROTO_ERROR"
        BY <4>1 DEF GetKey, KeyStates, Key, TestCommand
      <4>3. Refusing'
        BY <1>2, <1>3, <3>2, <3>3, <4>2 DEF Refusing, Image
      <4>4. InReply'
        BY <1>2, <1>3, <1>8, <2>1, <3>2, <4>3 DEF InReply
      <4>5. TransferFits' /\ Outcome'
        BY <1>2, <1>3, <1>8 DEF TransferFits, Outcome, TestCall
      <4>6. Agreed'
        BY <1>3, <1>8, <4>4, <4>5
           DEF Agreed, InCommand, InUnlock, InKey, InHeader, InTransfer, InEnded, AtPrompt
      <4> QED  BY <4>6
    <3> QED  BY <2>4, <3>4, <3>5 DEF BeforeTest
  <2>5. CASE to_device = <<>> /\ AstrayOrDone
    <3>1. ~Receive
      BY <2>5, ReceiveByState
    <3>2. state \in {"WRITE_START", "WRITE_MEM"}
      BY <1>1, <2>1, <2>5, NothingToDo, StatesAre DEF AstrayOrDone, Astray
    <3>3. AstrayOrDone' /\ UNCHANGED <<to_device, to_host, out_data, accepted>>
      BY <1>1, <2>2, <3>2, AstrayOrDoneSteps DEF channel_vars
    <3> QED  BY <2>1, <2>3, <2>5, <3>3 DEF Quiet
  <2> QED  BY <2>1, <2>4, <2>5
<1> QED  BY <1>2, <1>4, <1>5, <1>6, <1>7, <1>8

(***************************************************************************)
(* sicfpga's steps preserve the invariant.                                 *)
(***************************************************************************)
\* Pieces of the invariant that say nothing of a step that leads elsewhere.
LEMMA AgreedAt ==
  ASSUME TransferFits', Outcome',
         pc' = "command" => InCommand', pc' = "reply" => InReply', pc' = "unlock" => InUnlock',
         pc' = "key" => InKey', pc' = "header" => InHeader', pc' = "transfer" => InTransfer',
         pc' = "ended" => InEnded', pc' = "prompt" => AtPrompt'
  PROVE  Agreed'
  BY DEF Agreed, InCommand, InReply, InUnlock, InKey, InHeader, InTransfer, InEnded, AtPrompt

LEMMA AgreedParts ==
  ASSUME Agreed
  PROVE  /\ InCommand /\ InReply /\ InUnlock /\ InKey /\ InHeader /\ InTransfer
         /\ InEnded /\ AtPrompt /\ TransferFits /\ Outcome
  BY DEF Agreed

LEMMA RestFacts ==
  ASSUME AtRest
  PROVE  /\ to_device = <<>> /\ out_data = NoByte
         /\ state \notin MemoryStates /\ state \notin SendStates
  BY DEF AtRest, Working

\* A new call, or the prompt: the board is as it was.
LEMMA SettledStays ==
  ASSUME Settled(0), SameBoard, UNCHANGED <<to_device, to_host, image, disturbed>>,
         (retried => pc = "prompt") => (retried' => pc' = "prompt")
  PROVE  Settled(0)'
<1>1. /\ Quiet /\ Len(to_device) + 1 <= TimeoutBytes + 0
      /\ Absorbing(0) \/ Listening(0)
  BY DEF Settled
<1>2. UNCHANGED <<to_device, to_host, state, reg_command, reg_address, reg_count, reg_data, out_data,
                  memory, image, disturbed>>
  BY DEF SameBoard, reg_vars
<1>3. /\ HeaderLeft' = HeaderLeft /\ LineAddress' = LineAddress /\ LineCount' = LineCount
      /\ DataLeft' = DataLeft
  BY <1>2 DEF HeaderLeft, LineAddress, LineCount, DataLeft
<1>4. \A o \in Int : DataByte(o)' = DataByte(o)
  BY <1>2, <1>3 DEF DataByte
<1>5. Absorbing(0) => Absorbing(0)'
  <2> SUFFICES ASSUME Absorbing(0) PROVE Absorbing(0)'
    OBVIOUS
  <2>1. \A b \in Address : Offset(b, LineAddress) \in Int
    <3> TAKE b \in Address
    <3> DEFINE a == LineAddress
    <3>1. a \in Address
      BY DEF Absorbing, HeaderFits
    <3> HIDE DEF a
    <3>2. b - a \in Int
      BY <3>1, SpaceFacts DEF Address
    <3>3. (b - a) % AddressSpace \in Address
      BY <3>2, AddressRemainder
    <3> QED  BY <3>3, SpaceFacts DEF Offset, Address, a
  <2>2. MemoryAfter' = MemoryAfter
    BY <1>2, <1>3, <1>4, <2>1 DEF MemoryAfter
  <2> QED  BY <1>2, <1>3, <2>2 DEF Absorbing, HeaderFits, Image
<1>6. Listening(0) => Listening(0)'
  BY <1>2 DEF Listening, Image
<1>7. CommandLast(0)'
  BY DEF CommandLast
<1> QED  BY <1>1, <1>2, <1>5, <1>6, <1>7 DEF Settled, Quiet

\* StartCall from a link that is settled.
LEMMA AgreedStart ==
  ASSUME Settled(0)', pc' = "command", received' = <<>>, accepted' = <<>>, sent' = "unknown"
  PROVE  Agreed'
<1>1. InCommand'
  BY DEF InCommand
<1>2. TransferFits' /\ Outcome'
  BY DEF TransferFits, Outcome
<1> QED  BY <1>1, <1>2, AgreedAt

LEMMA OpenStep ==
  ASSUME LinkTypeOK, HeaderCommand, ShortWrites, Open
  PROVE  InSession'
<1>1. /\ pc' = "command" /\ call' = TestCall /\ calls' = <<>> /\ ~retried'
      /\ received' = <<>> /\ accepted' = <<>> /\ sent' = "unknown" /\ to_host' = <<>>
      /\ disturbed' = FoundBoard /\ image' = memory
      /\ UNCHANGED <<to_device, state, reg_command, reg_address, reg_count, reg_data, out_data, memory>>
  BY DEF Open, StartCall, SameBoard, reg_vars
<1>2. SUFFICES ASSUME disturbed' \in {"no", "found"} PROVE Agreed' \/ Finding'
  BY <1>1 DEF InSession
<1>3. AtRest
  BY <1>1, <1>2 DEF FoundBoard
<1>4. /\ to_device = <<>> /\ out_data = NoByte
      /\ state \notin MemoryStates /\ state \notin SendStates
  BY <1>3, RestFacts
<1>5. Quiet' /\ to_device' = <<>>
  BY <1>1, <1>4 DEF Quiet
<1>6. CASE state \in {"LOCKED", "UNLOCKED"}
  <2>1. Listening(0)'
    BY <1>1, <1>5, <1>6 DEF Listening, Image
  <2>2. Settled(0)'
    BY <1>5, <2>1, LineAssumption DEF Settled, CommandLast, ShortWrites
  <2> QED  BY <1>1, <2>2, AgreedStart
<1>7. CASE state \notin {"LOCKED", "UNLOCKED"}
  <2>1. disturbed' = "found" /\ ~(state \in HeaderStates /\ reg_command = ReadCommand)
    BY <1>1, <1>2, <1>3, <1>7 DEF FoundBoard
  <2>2. state \in HeaderStates \cup {"WRITE_IN", "KEY_GET1", "KEY_GET2", "KEY_GET3", "KEY_GET4"}
    BY <1>4, <1>7, StatesAre DEF LinkTypeOK, DeviceTypeOK, States
  <2>3. BeforeTest'
    BY <1>1, <2>1, <2>2 DEF HeaderCommand, BeforeTest, Astray
  <2> QED  BY <1>1, <1>5, <2>1, <2>3
           DEF Finding, FoundInCommand, FoundInReply, FoundInUnlock, FoundInKey
<1> QED  BY <1>6, <1>7

LEMMA IssueCommandStep ==
  ASSUME InSession, IssueCommand
  PROVE  InSession'
<1>1. /\ pc = "prompt" /\ pc' = "command" /\ ~retried' /\ received' = <<>> /\ accepted' = <<>>
      /\ sent' = "unknown" /\ SameBoard /\ UNCHANGED <<to_device, to_host, image, disturbed>>
  BY DEF IssueCommand, StartCall, LinkUnchanged
<1>2. SUFFICES ASSUME disturbed \in {"no", "found"} PROVE Agreed'
  BY <1>1 DEF InSession
<1>3. Agreed
  BY <1>1, <1>2 DEF InSession, Finding
<1>4. Settled(0)
  BY <1>1, <1>3, AgreedParts DEF AtPrompt
<1>5. Settled(0)'
  BY <1>1, <1>4, SettledStays
<1> QED  BY <1>1, <1>5, AgreedStart

LEMMA NextCallStep ==
  ASSUME InSession, NextCall
  PROVE  InSession'
<1>1. /\ pc = "ended" /\ SameBoard /\ UNCHANGED <<to_device, to_host, image, disturbed>>
  BY DEF NextCall, LinkUnchanged, SameRuns
<1>2. SUFFICES ASSUME disturbed \in {"no", "found"} PROVE InSession'
  BY <1>1 DEF InSession
<1>3. CASE Agreed
  <2>1. /\ Settled(0) /\ Outcome
        /\ ~success => call.op \in {"write", "read"}
    BY <1>1, <1>3, AgreedParts DEF InEnded
  <2>2. CASE success /\ calls # <<>>
    <3>1. /\ pc' = "command" /\ ~retried' /\ received' = <<>> /\ accepted' = <<>>
          /\ sent' = "unknown"
      BY <2>2 DEF NextCall, StartCall
    <3>2. Settled(0)'
      BY <1>1, <2>1, <3>1, SettledStays
    <3> QED  BY <3>1, <3>2, AgreedStart DEF InSession
  <2>3. CASE ~(success /\ calls # <<>>)
    <3>1. pc' = "prompt" /\ UNCHANGED <<call, success, retried, received, accepted, sent>>
      BY <2>1, <2>3 DEF NextCall
    <3>2. Settled(0)'
      BY <1>1, <2>1, <3>1, SettledStays
    <3>3. CommandByte(call)' = CommandByte(call)
      BY <3>1 DEF CommandByte
    <3>4. AtPrompt' /\ TransferFits' /\ Outcome'
      BY <2>1, <3>1, <3>2, <3>3 DEF AtPrompt, TransferFits, Outcome
    <3> QED  BY <3>1, <3>4, AgreedAt DEF InSession
  <2> QED  BY <2>2, <2>3
<1>4. CASE Finding
  <2>1. call = TestCall /\ ~success /\ sent = "failed" /\ disturbed = "found"
    BY <1>1, <1>4 DEF Finding
  <2>2. pc' = "closed" /\ sent' = "failed"
    BY <2>1 DEF NextCall, TestCall
  <2> QED  BY <1>1, <2>1, <2>2 DEF InSession
<1> QED  BY <1>1, <1>2, <1>3, <1>4 DEF InSession

\* The process goes, or is about to.
LEMMA LeavingStep ==
  ASSUME InSession, Quit \/ Close \/ Kill
  PROVE  InSession'
<1>1. pc' \in {"closed", "locking"} /\ sent' = "unknown"
  BY DEF Quit, Close, Kill, ProcessEnds
<1> QED  BY <1>1 DEF InSession

LEMMA RefuseTransferStep ==
  ASSUME InSession, RefuseTransfer
  PROVE  InSession'
<1>1. /\ pc = "command" /\ call.op \in {"write", "read"} /\ pc' = "ended" /\ ~success'
      /\ SameBoard /\ UNCHANGED <<to_device, to_host, image, disturbed, accepted, call, retried, sent>>
  BY DEF RefuseTransfer, EndCall, LinkUnchanged, SameRuns
<1>2. SUFFICES ASSUME disturbed \in {"no", "found"} PROVE Agreed'
  BY <1>1 DEF InSession
<1>3. Agreed
  BY <1>1, <1>2 DEF InSession, Finding, TestCall
<1>4. Settled(0) /\ Outcome /\ sent = "unknown"
  BY <1>1, <1>3, AgreedParts DEF InCommand, Outcome
<1>5. Settled(0)'
  BY <1>1, <1>4, SettledStays
<1>6. InEnded' /\ TransferFits' /\ Outcome'
  BY <1>1, <1>4, <1>5 DEF InEnded, TransferFits, Outcome
<1> QED  BY <1>1, <1>6, AgreedAt

\* Bytes that join the end of the line do not change what is in front of them.
LEMMA LineExtends ==
  ASSUME LinkTypeOK, HeaderFits, NEW bytes \in Seq(Byte), to_device' = to_device \o bytes,
         UNCHANGED <<state, reg_command, reg_address, reg_count, reg_data>>
  PROVE  /\ HeaderLeft' = HeaderLeft /\ LineAddress' = LineAddress /\ LineCount' = LineCount
         /\ HeaderFits' /\ DataLeft' = DataLeft
         /\ Len(to_device') = Len(to_device) + Len(bytes)
         /\ \A i \in 1..Len(to_device) : to_device'[i] = to_device[i]
         /\ \A i \in 1..Len(bytes) : to_device'[Len(to_device) + i] = bytes[i]
<1>1. to_device \in Seq(Byte) /\ Len(to_device) \in Nat /\ Len(bytes) \in Nat
  BY DEF LinkTypeOK, DeviceTypeOK
<1>2. /\ Len(to_device') = Len(to_device) + Len(bytes)
      /\ \A i \in 1..Len(to_device) : to_device'[i] = to_device[i]
      /\ \A i \in 1..Len(bytes) : to_device'[Len(to_device) + i] = bytes[i]
  BY <1>1, ConcatProperties
<1>3. HeaderLeft' = HeaderLeft /\ HeaderLeft \in 0..5 /\ HeaderLeft <= Len(to_device)
  BY <1>1 DEF HeaderLeft, HeaderFits
<1>4. LineAddress' = LineAddress
  <2>1. CASE HeaderLeft = 5
    <3>1. 1 \in 1..Len(to_device) /\ 2 \in 1..Len(to_device) /\ 3 \in 1..Len(to_device)
      BY <1>1, <1>3, <2>1
    <3>2. to_device'[1] = to_device[1] /\ to_device'[2] = to_device[2] /\ to_device'[3] = to_device[3]
      BY <1>2, <3>1
    <3> QED  BY <2>1, <3>2, SMT DEF LineAddress, HeaderLeft
  <2>2. CASE HeaderLeft = 4
    <3>1. 1 \in 1..Len(to_device) /\ 2 \in 1..Len(to_device)
      BY <1>1, <1>3, <2>2
    <3>2. to_device'[1] = to_device[1] /\ to_device'[2] = to_device[2]
      BY <1>2, <3>1
    <3> QED  BY <2>2, <3>2, SMT DEF LineAddress, HeaderLeft
  <2>3. CASE HeaderLeft = 3
    <3>1. 1 \in 1..Len(to_device)
      BY <1>1, <1>3, <2>3
    <3>2. to_device'[1] = to_device[1]
      BY <1>2, <3>1
    <3> QED  BY <2>3, <3>2, SMT DEF LineAddress, HeaderLeft
  <2>4. CASE HeaderLeft \notin {3, 4, 5}
    BY <2>4, SMT DEF LineAddress, HeaderLeft
  <2> QED  BY <2>1, <2>2, <2>3, <2>4
<1>5. LineCount' = LineCount
  <2>1. CASE HeaderLeft = 5
    <3>1. 4 \in 1..Len(to_device) /\ 5 \in 1..Len(to_device)
      BY <1>1, <1>3, <2>1
    <3>2. to_device'[4] = to_device[4] /\ to_device'[5] = to_device[5]
      BY <1>2, <3>1
    <3> QED  BY <2>1, <3>2 DEF LineCount, HeaderLeft
  <2>2. CASE HeaderLeft = 4
    <3>1. 3 \in 1..Len(to_device) /\ 4 \in 1..Len(to_device)
      BY <1>1, <1>3, <2>2
    <3>2. to_device'[3] = to_device[3] /\ to_device'[4] = to_device[4]
      BY <1>2, <3>1
    <3> QED  BY <2>2, <3>2 DEF LineCount, HeaderLeft
  <2>3. CASE HeaderLeft = 3
    <3>1. 2 \in 1..Len(to_device) /\ 3 \in 1..Len(to_device)
      BY <1>1, <1>3, <2>3
    <3>2. to_device'[2] = to_device[2] /\ to_device'[3] = to_device[3]
      BY <1>2, <3>1
    <3> QED  BY <2>3, <3>2 DEF LineCount, HeaderLeft
  <2>4. CASE HeaderLeft = 2
    <3>1. 1 \in 1..Len(to_device) /\ 2 \in 1..Len(to_device)
      BY <1>1, <1>3, <2>4
    <3>2. to_device'[1] = to_device[1] /\ to_device'[2] = to_device[2]
      BY <1>2, <3>1
    <3> QED  BY <2>4, <3>2 DEF LineCount, HeaderLeft
  <2>5. CASE HeaderLeft = 1
    <3>1. 1 \in 1..Len(to_device)
      BY <1>1, <1>3, <2>5
    <3>2. to_device'[1] = to_device[1]
      BY <1>2, <3>1
    <3> QED  BY <2>5, <3>2 DEF LineCount, HeaderLeft
  <2>6. CASE HeaderLeft = 0
    BY <2>6 DEF LineCount, HeaderLeft
  <2> QED  BY <1>3, <2>1, <2>2, <2>3, <2>4, <2>5, <2>6
<1>6. HeaderFits'
  BY <1>1, <1>2, <1>3, <1>4, <1>5 DEF HeaderFits
<1>7. DataLeft' = DataLeft
  BY <1>5 DEF DataLeft
<1> QED  BY <1>2, <1>3, <1>4, <1>5, <1>6, <1>7

LEMMA OffsetType ==
  ASSUME NEW a \in Address, NEW b \in Address
  PROVE  Offset(b, a) \in Nat
<1>1. b - a \in Int
  BY SpaceFacts DEF Address
<1>2. (b - a) % AddressSpace \in Address
  BY <1>1, AddressRemainder
<1> QED  BY <1>2, SpaceFacts DEF Offset, Address

\* The command joins the end of the line.
LEMMA CommandJoins ==
  ASSUME LinkTypeOK, Settled(0), pc = "command", pc' = "reply",
         to_device' = to_device \o <<CommandByte(call)>>, SameBoard,
         UNCHANGED <<to_host, call, retried, image, disturbed>>
  PROVE  Settled(1)'
<1> DEFINE c == CommandByte(call)
<1>1. c \in Byte /\ c' = c
  BY CommandByteFacts DEF LinkTypeOK, CommandByte
<1>2. UNCHANGED <<to_host, state, reg_command, reg_address, reg_count, reg_data, out_data,
                  memory, image, disturbed, retried>>
  BY DEF SameBoard, reg_vars
<1>3. to_device \in Seq(Byte) /\ Len(to_device) \in Nat /\ TimeoutBytes \in Nat
  BY LineAssumption DEF LinkTypeOK, DeviceTypeOK
<1>4. /\ Quiet /\ Len(to_device) + 1 <= TimeoutBytes + 0
      /\ Absorbing(0) \/ Listening(0)
  BY DEF Settled
<1>5. to_device' = to_device \o <<c>>
  OBVIOUS
<1> HIDE DEF c
<1>6. Len(to_device') = Len(to_device) + 1 /\ to_device'[Len(to_device')] = c
  BY <1>1, <1>3, <1>5
<1>7. CommandLast(1)'
  BY <1>1, <1>6 DEF CommandLast, c
<1>8. Len(to_device') + 1 <= TimeoutBytes + 1
  BY <1>3, <1>4, <1>6
<1>9. ASSUME Absorbing(0) PROVE Absorbing(1)'
  <2>1. <<c>> \in Seq(Byte)
    BY <1>1
  <2>2. /\ HeaderFits /\ Len(to_device) = HeaderLeft + DataLeft + 0
        /\ state \in HeaderStates \cup {"WRITE_START", "WRITE_IN", "WRITE_MEM"}
        /\ reg_command = WriteCommand /\ Image(MemoryAfter)
        /\ state \in {"WRITE_IN", "WRITE_MEM"} => LineCount > 0
    BY <1>9 DEF Absorbing
  <2>3. /\ HeaderLeft' = HeaderLeft /\ LineAddress' = LineAddress /\ LineCount' = LineCount
        /\ HeaderFits' /\ DataLeft' = DataLeft
        /\ \A i \in 1..Len(to_device) : to_device'[i] = to_device[i]
    BY <1>2, <1>5, <2>1, <2>2, LineExtends
  <2>4. LineAddress \in Address /\ LineCount \in Nat /\ HeaderLeft \in 0..5 /\ DataLeft \in Int
    BY <2>2, SpaceFacts DEF HeaderFits, HeaderLeft, DataLeft
  <2>5. ASSUME NEW o \in Nat, o < LineCount PROVE DataByte(o)' = DataByte(o)
    <3>1. CASE state = "WRITE_MEM"
      <4>1. HeaderLeft = 0 /\ DataLeft = LineCount - 1
        BY <3>1 DEF HeaderLeft, DataLeft
      <4>2. o # 0 => o \in 1..Len(to_device)
        BY <1>3, <2>2, <2>4, <2>5, <4>1
      <4> QED  BY <1>2, <2>3, <3>1, <4>2 DEF DataByte
    <3>2. CASE state # "WRITE_MEM"
      <4>1. DataLeft = LineCount
        BY <3>2 DEF DataLeft
      <4>2. HeaderLeft + o + 1 \in 1..Len(to_device)
        BY <1>3, <2>2, <2>4, <2>5, <4>1
      <4> QED  BY <1>2, <2>3, <3>2, <4>2 DEF DataByte
    <3> QED  BY <3>1, <3>2
  <2>6. \A b \in Address : Offset(b, LineAddress) \in Nat
    BY <2>4, OffsetType
  <2>7. MemoryAfter' = MemoryAfter
    BY <1>2, <2>3, <2>5, <2>6 DEF MemoryAfter
  <2>8. Len(to_device') = HeaderLeft' + DataLeft' + 1
    BY <1>3, <1>6, <2>2, <2>3, <2>4
  <2> QED  BY <1>2, <2>2, <2>3, <2>7, <2>8 DEF Absorbing, Image
<1>10. ASSUME Listening(0) PROVE Listening(1)'
  BY <1>2, <1>3, <1>6, <1>10 DEF Listening, Image
<1> QED  BY <1>2, <1>4, <1>7, <1>8, <1>9, <1>10 DEF Settled, Quiet

LEMMA SendCommandByteStep ==
  ASSUME LinkTypeOK, ShortWrites, InSession, LineIsUp, SendCommandByte
  PROVE  InSession'
<1> DEFINE c == <<CommandByte(call)>>
<1>1. /\ pc = "command" /\ Write(c)
      /\ call.op \in {"write", "read"} => TransferSize(call) < CountSpace
      /\ SameBoard /\ UNCHANGED <<to_host, accepted, call, calls, retried, received, image, disturbed>>
  BY DEF SendCommandByte, SameRuns
<1>2. c \in Seq(Byte) /\ Len(c) = 1 /\ CommandByte(call) \in Byte
  BY CommandByteFacts DEF LinkTypeOK
<1>3. to_device \in Seq(Byte) /\ Len(to_device) <= TtyBuffer /\ Len(to_device) \in Nat
      /\ TimeoutBytes \in Nat /\ TtyBuffer \in Nat /\ TimeoutBytes >= 6 /\ TtyBuffer >= TimeoutBytes
  BY LineAssumption DEF LinkTypeOK, DeviceTypeOK, ShortWrites
<1> SUFFICES ASSUME disturbed \in {"no", "found"} PROVE InSession'
  BY <1>1 DEF InSession
<1>4. ASSUME Len(to_device) + 1 <= TimeoutBytes
      PROVE  /\ to_device' = to_device \o c /\ ~backlog'
             /\ pc' = "reply" /\ UNCHANGED <<success, sent>>
  <2>1. Fits(c)
    BY <1>2, <1>3, <1>4 DEF Fits, LineIsUp
  <2>2. to_device' = to_device \o c /\ backlog' = (Len(to_device') > TimeoutBytes)
    BY <1>1, <1>2, <1>3, <2>1, WriteType DEF Write
  <2> HIDE DEF c
  <2>3. Len(to_device') = Len(to_device) + 1
    <3>1. Len(to_device \o c) = Len(to_device) + Len(c)
      BY <1>2, <1>3, ConcatProperties
    <3> QED  BY <1>2, <2>2, <3>1
  <2>4. ~(Len(to_device') > TimeoutBytes)
    BY <1>3, <1>4, <2>3
  <2> QED  BY <2>1, <2>2, <2>4 DEF SendCommandByte, c
<1>5. CASE disturbed \in {"no", "found"} /\ Agreed
  <2>1. Settled(0) /\ received = <<>> /\ accepted = <<>> /\ sent = "unknown"
    BY <1>1, <1>5, AgreedParts DEF InCommand, Outcome
  <2>2. Len(to_device) + 1 <= TimeoutBytes
    BY <1>3, <2>1 DEF Settled
  <2>3. Settled(1)'
    BY <1>1, <1>4, <2>1, <2>2, CommandJoins
  <2>4. InReply'
    BY <1>1, <1>4, <2>1, <2>2, <2>3 DEF InReply
  <2>5. TransferFits' /\ Outcome'
    BY <1>1, <1>4, <2>1, <2>2 DEF TransferFits, TransferSize, Outcome
  <2> QED  BY <1>1, <1>4, <2>2, <2>4, <2>5, AgreedAt DEF InSession
<1>6. CASE Finding
  <2>1. /\ to_device = <<>> /\ Quiet /\ BeforeTest
        /\ disturbed = "found" /\ call = TestCall /\ calls = <<>> /\ accepted = <<>> /\ ~retried
        /\ sent = "unknown" /\ received = <<>>
    BY <1>1, <1>6 DEF Finding, FoundInCommand
  <2>2. Len(to_device) + 1 <= TimeoutBytes
    BY <1>3, <2>1
  <2>3. CommandByte(call) = TestCommand
    BY <2>1 DEF CommandByte, TestCall
  <2>4. to_device' = <<TestCommand>>
    BY <1>4, <2>1, <2>2, <2>3
  <2>5. BeforeTest' /\ Quiet'
    BY <1>1, <2>1 DEF BeforeTest, Astray, Quiet, SameBoard, reg_vars
  <2>6. Finding'
    BY <1>1, <1>4, <2>1, <2>2, <2>4, <2>5
       DEF Finding, FoundInCommand, FoundInReply, FoundInUnlock, FoundInKey
  <2> QED  BY <1>4, <2>2, <2>6 DEF InSession
<1> QED  BY <1>1, <1>5, <1>6 DEF InSession

\* What has been read stands at the front of the replies.
LEMMA PrefixOfReplies ==
  ASSUME LinkTypeOK
  PROVE  /\ Len(received) <= Len(Replies)
         /\ \A i \in 1..Len(received) : Replies[i] = received[i]
<1>1. received \in Seq(Byte) /\ to_host \in Seq(Byte) /\ Sending \in Seq(Byte)
  BY RepliesType DEF LinkTypeOK, DeviceTypeOK
<1>2. /\ received \o to_host \in Seq(Byte)
      /\ Len(received \o to_host) = Len(received) + Len(to_host)
      /\ \A i \in 1..Len(received) : (received \o to_host)[i] = received[i]
  BY <1>1, ConcatProperties
<1>3. /\ Replies = received \o to_host \o Sending
      /\ Len(Replies) = Len(received) + Len(to_host) + Len(Sending)
      /\ {Len(received), Len(to_host), Len(Sending)} \subseteq Nat
  BY RepliesType
<1>4. ASSUME NEW i \in 1..Len(received) PROVE Replies[i] = received[i]
  <2>1. i \in 1..Len(received \o to_host)
    BY <1>2, <1>3
  <2>2. ((received \o to_host) \o Sending)[i] = (received \o to_host)[i]
    BY <1>1, <1>2, <2>1, ConcatProperties
  <2> QED  BY <1>2, <1>3, <2>2
<1> QED  BY <1>3, <1>4

LEMMA ReadReplyStep ==
  ASSUME LinkTypeOK, ShortWrites, InSession, ReadReply
  PROVE  InSession'
<1>1. /\ pc = "reply" /\ to_host # <<>> /\ to_host' = Tail(to_host)
      /\ SameBoard /\ UNCHANGED <<to_device, backlog, accepted, call, calls, retried, received,
                                  image, disturbed>>
  BY DEF ReadReply, Arrived, LinkUnchanged, SameRuns
<1>2. UNCHANGED <<state, reg_command, reg_address, reg_count, reg_data, out_data, memory>>
  BY <1>1 DEF SameBoard, reg_vars
<1>3. ~Quiet
  BY <1>1 DEF Quiet
<1>4. SUFFICES ASSUME disturbed \in {"no", "found"} PROVE Agreed'
  <2>1. pc' \in {"unlock", "header", "ended"}
    BY DEF ReadReply, CommandSucceeds, NoUnlockFails, CommandFails, EndCall
  <2> QED  BY <1>1, <1>4, <2>1 DEF InSession
<1>5. Agreed
  BY <1>1, <1>3, <1>4 DEF InSession, Finding, FoundInReply
<1>6. /\ received = <<>> /\ ~backlog /\ TransferFits /\ Outcome /\ sent = "unknown"
      /\ \/ accepted = <<>> /\ Refusing
         \/ accepted = <<CommandByte(call)>> /\ Replies = <<Okay>> /\ Granted
  BY <1>1, <1>3, <1>5, AgreedParts DEF InReply, Settled, Accepting, Outcome
<1>7. ASSUME NEW b \in Byte, Replies = <<b>>
      PROVE  Head(to_host) = b /\ Quiet'
  <2>1. Len(received) = 0 /\ Len(Replies) = 1 /\ Replies[1] = b
    BY <1>6, <1>7
  <2>2. Head(to_host) = Replies[1] /\ Tail(to_host) = <<>> /\ out_data = NoByte
    BY <1>1, <2>1, HeadReplies
  <2> QED  BY <1>1, <1>2, <2>1, <2>2 DEF Quiet
<1>8. Refused \in Byte /\ Okay \in Byte /\ Refused # Okay
  BY DEF Refused, Okay, Byte
<1>9. CASE accepted = <<>> /\ Refusing
  <2>1. state = "LOCKED" /\ Replies = <<Refused>> /\ ~retried /\ to_device = <<>> /\ Image(memory)
    BY <1>3, <1>9 DEF Refusing
  <2>2. Head(to_host) = Refused /\ Quiet'
    BY <1>7, <1>8, <2>1
  <2>3. pc' = "unlock" /\ UNCHANGED sent
    BY <1>8, <2>1, <2>2 DEF ReadReply, NoUnlockFails
  <2>4. InUnlock'
    BY <1>1, <1>2, <1>6, <1>9, <2>1, <2>2 DEF InUnlock, Image
  <2>5. TransferFits' /\ Outcome'
    BY <1>1, <1>6, <2>3 DEF TransferFits, TransferSize, Outcome
  <2> QED  BY <2>3, <2>4, <2>5, AgreedAt
<1>10. CASE accepted = <<CommandByte(call)>> /\ Replies = <<Okay>> /\ Granted
  <2>1. Head(to_host) = Okay /\ Quiet'
    BY <1>7, <1>8, <1>10
  <2>2. CommandSucceeds
    BY <2>1 DEF ReadReply
  <2>3. sent' = "ok" /\ CommandByte(call)' = CommandByte(call) /\ TransferSize(call)' = TransferSize(call)
    BY <1>1, <2>2 DEF CommandSucceeds, CommandByte, TransferSize
  <2>4. Granted'
    BY <1>1, <1>2, <1>10, <2>3 DEF Granted, Image
  <2>5. CASE call.op \in {"write", "read"}
    <3>1. pc' = "header"
      BY <2>2, <2>5 DEF CommandSucceeds
    <3>2. InHeader' /\ TransferFits' /\ Outcome'
      BY <1>1, <1>6, <1>10, <2>1, <2>3, <2>4, <2>5, <3>1 DEF InHeader, TransferFits, Outcome
    <3> QED  BY <3>1, <3>2, AgreedAt
  <2>6. CASE call.op \notin {"write", "read"}
    <3>1. pc' = "ended" /\ success'
      BY <2>2, <2>6 DEF CommandSucceeds, EndCall
    <3>2. state' = "UNLOCKED" /\ to_device' = <<>> /\ Image(memory)'
      BY <1>1, <2>4, <2>6 DEF Granted
    <3>3. Listening(0)'
      BY <3>2 DEF Listening
    <3>4. Settled(0)'
      BY <2>1, <3>2, <3>3, LineAssumption DEF Settled, CommandLast, ShortWrites
    <3>5. InEnded' /\ TransferFits' /\ Outcome'
      BY <1>1, <1>6, <1>10, <2>3, <2>6, <3>1, <3>4 DEF InEnded, TransferFits, Outcome
    <3> QED  BY <3>1, <3>5, AgreedAt
  <2> QED  BY <2>5, <2>6
<1> QED  BY <1>6, <1>9, <1>10

\* The wait for an answer that comes has no end before it.
LEMMA NoReplyStep ==
  ASSUME LinkTypeOK, InSession, LineIsUp, NoReply
  PROVE  InSession'
<1>0. /\ disturbed' = disturbed
      /\ pc' \in {"unlock", "ended"}
  BY DEF NoReply, SameRuns, NoUnlockFails, CommandFails, EndCall
<1>3. SUFFICES ASSUME disturbed \in {"no", "found"} PROVE Agreed' \/ Finding'
  BY <1>0 DEF InSession
<1>1. /\ pc = "reply" /\ to_host = <<>> /\ (backlog \/ AtRest) /\ NoUnlockFails
      /\ SameBoard /\ UNCHANGED <<to_device, to_host, backlog, accepted, call, calls, retried, received,
                                  image, disturbed>>
  BY <1>3 DEF NoReply, NoByteComes, PollExpires, LineIsUp, LinkUnchanged, SameRuns
<1>2. UNCHANGED <<state, reg_command, out_data>>
  BY <1>1 DEF SameBoard, reg_vars
<1>4. ~(AtRest /\ Agreed)
  <2> SUFFICES ASSUME AtRest, Agreed PROVE FALSE
    OBVIOUS
  <2>1. /\ to_device = <<>> /\ out_data = NoByte
        /\ state \notin MemoryStates /\ state \notin SendStates
    BY RestFacts
  <2>2. /\ received = <<>>
        /\ Settled(1) \/ Accepting \/ Refusing \/ Replies = <<Okay>>
    BY <1>1, AgreedParts DEF InReply
  <2>3. Replies = <<>>
    BY <1>1, <2>1, <2>2, QuietReplies DEF Quiet
  <2>4. ~Settled(1)
    <3>1. ~Listening(1)
      BY <2>1 DEF Listening
    <3>2. ASSUME Absorbing(1) PROVE FALSE
      <4>1. 0 = HeaderLeft + DataLeft + 1 /\ HeaderLeft \in 0..5 /\ LineCount \in Nat
        BY <2>1, <3>2, SpaceFacts DEF Absorbing, HeaderFits, HeaderLeft
      <4>2. DataLeft \in Nat
        BY <3>2, <4>1 DEF DataLeft, Absorbing
      <4> QED  BY <4>1, <4>2
    <3> QED  BY <3>1, <3>2 DEF Settled
  <2>5. ~Accepting /\ ~Refusing
    <3>1. {"PROTO_ERROR", "COMMAND_ACCEPT"} \subseteq SendStates
      BY StatesAre
    <3> QED  BY <2>1, <2>3, <3>1 DEF Accepting, Refusing
  <2> QED  BY <2>2, <2>3, <2>4, <2>5
<1>5. ~Agreed
  <2>1. Agreed => ~backlog
    BY <1>1, AgreedParts DEF InReply
  <2> QED  BY <1>1, <1>4, <2>1
<1>6. Finding
  BY <1>1, <1>3, <1>5 DEF InSession
<1>7. /\ Quiet /\ ~backlog /\ to_device = <<>> /\ AstrayOrDone /\ AtRest
      /\ disturbed = "found" /\ call = TestCall /\ calls = <<>> /\ accepted = <<>> /\ ~retried
      /\ sent = "unknown" /\ received = <<>>
  BY <1>1, <1>6, RestFacts DEF Finding, FoundInReply
<1>8. pc' = "unlock" /\ UNCHANGED sent
  BY <1>1, <1>7 DEF NoUnlockFails
<1>9. Astray \/ state = "UNLOCKED"
  BY <1>7, RestFacts DEF AstrayOrDone, MemoryStates
<1>10. Quiet' /\ (Astray' \/ state' = "UNLOCKED")
  BY <1>1, <1>2, <1>7, <1>9 DEF Quiet, Astray
<1>11. Finding'
  BY <1>1, <1>7, <1>8, <1>10 DEF Finding, FoundInCommand, FoundInReply, FoundInUnlock, FoundInKey
<1> QED  BY <1>11

LEMMA SendUnlockKeyStep ==
  ASSUME LinkTypeOK, ShortWrites, InSession, LineIsUp, SendUnlockKey
  PROVE  InSession'
<1>1. /\ pc = "unlock" /\ Write(Key) /\ received' = <<>> /\ SameBoard
      /\ UNCHANGED <<to_host, accepted, call, calls, retried, image, disturbed>>
  BY DEF SendUnlockKey, SameRuns
<1>2. UNCHANGED <<state, reg_command, out_data, memory>>
  BY <1>1 DEF SameBoard, reg_vars
<1>3. /\ TimeoutBytes \in Nat /\ TtyBuffer \in Nat /\ TimeoutBytes >= 6 /\ TtyBuffer >= TimeoutBytes
      /\ to_device \in Seq(Byte) /\ Len(to_device) <= TtyBuffer
  BY LineAssumption DEF ShortWrites, LinkTypeOK, DeviceTypeOK
<1>4. Key \in Seq(Byte) /\ Len(Key) = 5 /\ SubSeq(Key, 1, 5) = Key
  BY KeyType, SubSeqFull
<1>6. SUFFICES ASSUME disturbed \in {"no", "found"} PROVE InSession'
  BY <1>1 DEF InSession
<1>5. ASSUME to_device = <<>>
      PROVE  to_device' = SubSeq(Key, 1, 5) /\ ~backlog' /\ pc' = "key" /\ UNCHANGED sent
  <2>1. Len(to_device) = 0
    BY <1>5
  <2>2. Fits(Key)
    BY <1>3, <1>4, <1>6, <2>1 DEF Fits, LineIsUp
  <2>3. to_device' = to_device \o Key /\ backlog' = (Len(to_device') > TimeoutBytes)
    BY <1>1, <1>3, <1>4, <2>2, WriteType DEF Write
  <2>4. to_device' = Key
    BY <1>4, <1>5, <2>3, ConcatEmptySeq
  <2>5. ~(Len(to_device') > TimeoutBytes)
    <3>1. Len(to_device') = 5
      BY <1>4, <2>4
    <3> QED  BY <1>3, <3>1
  <2> QED  BY <1>4, <2>2, <2>3, <2>4, <2>5 DEF SendUnlockKey
<1>7. CASE Agreed
  <2>1. /\ state = "LOCKED" /\ to_device = <<>> /\ Quiet /\ Image(memory)
        /\ ~retried /\ accepted = <<>> /\ TransferFits /\ Outcome /\ sent = "unknown"
    BY <1>1, <1>7, AgreedParts DEF InUnlock, Outcome
  <2>2. KeyOnLine(1)'
    BY <1>1, <1>2, <1>5, <2>1 DEF KeyOnLine, KeyStates, Quiet
  <2>3. InKey'
    <3>1. \E i \in 1..5 : KeyOnLine(i)'
      BY <2>2
    <3> QED  BY <1>1, <1>2, <1>5, <2>1, <3>1 DEF InKey, Image, AckLength
  <2>4. TransferFits' /\ Outcome'
    BY <1>1, <1>5, <2>1 DEF TransferFits, TransferSize, Outcome
  <2> QED  BY <1>5, <2>1, <2>3, <2>4, AgreedAt DEF InSession
<1>8. CASE Finding
  <2>1. /\ to_device = <<>> /\ Quiet /\ (Astray \/ state = "UNLOCKED")
        /\ disturbed = "found" /\ call = TestCall /\ calls = <<>> /\ accepted = <<>> /\ ~retried
        /\ sent = "unknown"
    BY <1>1, <1>8 DEF Finding, FoundInUnlock
  <2>2. AstrayOrDone'
    BY <1>2, <2>1 DEF AstrayOrDone, Astray
  <2>3. Replies' = <<>>
    BY <1>1, <1>2, <2>1 DEF Replies, Quiet
  <2>4. FoundInKey'
    <3>1. 1 \in 1..6 /\ to_device' = SubSeq(Key, 1, 5)
      BY <1>5, <2>1
    <3>2. Len(Replies') = 0 /\ Len(received') < AckLength
      BY <1>1, <2>3 DEF AckLength
    <3> QED  BY <2>2, <3>1, <3>2 DEF FoundInKey
  <2>5. Finding'
    BY <1>1, <1>5, <2>1, <2>4 DEF Finding, FoundInCommand, FoundInReply, FoundInUnlock
  <2> QED  BY <1>5, <2>1, <2>5 DEF InSession
<1> QED  BY <1>1, <1>6, <1>7, <1>8 DEF InSession

LEMMA ReadKeyStep ==
  ASSUME LinkTypeOK, ShortWrites, InSession, ReadKey
  PROVE  InSession'
<1> DEFINE got == Append(received, Head(to_host))
<1>1. /\ pc = "key" /\ to_host # <<>> /\ to_host' = Tail(to_host) /\ SameBoard
      /\ UNCHANGED <<to_device, backlog, accepted, call, calls, image, disturbed>>
      /\ \/ /\ Len(got) < AckLength /\ received' = got
            /\ UNCHANGED <<pc, retried, success, sent>>
         \/ /\ got = SubSeq(Ack, 1, AckLength)
            /\ pc' = "command" /\ retried' /\ received' = <<>> /\ UNCHANGED sent
         \/ /\ Len(got) = AckLength /\ got # SubSeq(Ack, 1, AckLength)
            /\ pc' = "ended" /\ ~success' /\ sent' = "failed" /\ UNCHANGED retried
  BY DEF ReadKey, Arrived, LinkUnchanged, SameRuns, CommandFails, EndCall
<1>2. UNCHANGED <<state, reg_command, out_data, memory>>
  BY <1>1 DEF SameBoard, reg_vars
<1>3. /\ received \in Seq(Byte) /\ Head(to_host) \in Byte /\ got \in Seq(Byte)
      /\ Len(got) = Len(received) + 1 /\ Len(received) \in Nat
      /\ got[Len(received) + 1] = Head(to_host)
      /\ \A i \in 1..Len(received) : got[i] = received[i]
  BY <1>1, TailType, AppendProperties DEF LinkTypeOK, DeviceTypeOK
<1>4. /\ Len(Replies) \in Nat /\ Len(Replies) >= Len(got) /\ Replies \in Seq(Byte)
      /\ \A i \in 1..Len(got) : got[i] = Replies[i]
  <2>1. /\ Len(Replies) > Len(received) /\ Replies[Len(received) + 1] = Head(to_host)
        /\ Replies \in Seq(Byte) /\ \A i \in 1..Len(received) : Replies[i] = received[i]
    BY <1>1, HeadReplies, RepliesType, PrefixOfReplies
  <2>2. ASSUME NEW i \in 1..Len(got) PROVE got[i] = Replies[i]
    <3>1. CASE i = Len(received) + 1
      BY <1>3, <2>1, <3>1
    <3>2. CASE i # Len(received) + 1
      <4>1. i \in 1..Len(received)
        BY <1>3, <3>2
      <4> QED  BY <1>3, <2>1, <4>1
    <3> QED  BY <3>1, <3>2
  <2> QED  BY <1>3, <2>1, <2>2
<1>5. /\ Ack \in Seq(Byte) /\ Len(Ack) = 3 /\ SubSeq(Ack, 1, AckLength) = Ack /\ AckLength = 3
  BY AckPrefixes, SubSeqFull DEF AckLength
<1>6. received' = got => Replies' = Replies
  BY <1>1, <1>2, ReadReplies
<1> HIDE DEF got
<1>7. SUFFICES ASSUME disturbed \in {"no", "found"} PROVE Agreed' \/ Finding'
  <2>1. pc' \in {"key", "command", "ended"}
    BY <1>1
  <2> QED  BY <1>1, <1>7, <2>1 DEF InSession
<1>8. CASE Agreed
  <2>1. /\ ~backlog /\ ~retried /\ Len(received) < AckLength /\ accepted = <<>> /\ Image(memory)
        /\ (\E i \in 1..5 : KeyOnLine(i)) \/ (\E j \in 1..4 : Acking(j))
        /\ TransferFits /\ Outcome /\ sent = "unknown"
    BY <1>1, <1>8, AgreedParts DEF InKey, Outcome
  <2>2. \A i \in 1..5 : ~KeyOnLine(i)
    BY <1>1 DEF KeyOnLine, Quiet
  <2>3. PICK j \in 1..4 : Acking(j)
    BY <2>1, <2>2
  <2>4. /\ state = IF j < 4 THEN AckStates[j] ELSE "UNLOCKED"
        /\ to_device = <<>> /\ Replies = SubSeq(Ack, 1, j - 1)
    BY <2>3 DEF Acking
  <2>5. /\ Len(Replies) = j - 1
        /\ \A i \in 1..j - 1 : Replies[i] = Ack[i]
    <3>1. j - 1 \in 0..3
      OBVIOUS
    <3>2. Len(SubSeq(Ack, 1, j - 1)) = j - 1
      BY <3>1, AckPrefixes
    <3>3. \A i \in 1..j - 1 : SubSeq(Ack, 1, j - 1)[i] = Ack[i]
      BY <1>5
    <3> QED  BY <2>4, <3>2, <3>3
  <2>6. CASE Len(got) < AckLength /\ received' = got /\ UNCHANGED <<pc, retried, success, sent>>
    <3>1. Acking(j)'
      BY <1>1, <1>2, <1>6, <2>4, <2>6 DEF Acking
    <3>2. \E m \in 1..4 : Acking(m)'
      BY <3>1
    <3>3. InKey'
      BY <1>1, <1>2, <2>1, <2>6, <3>2 DEF InKey, Image
    <3>4. TransferFits' /\ Outcome'
      BY <1>1, <2>1, <2>6 DEF TransferFits, TransferSize, Outcome
    <3> QED  BY <1>1, <2>6, <3>3, <3>4, AgreedAt
  <2>7. CASE got = Ack /\ pc' = "command" /\ received' = <<>> /\ UNCHANGED sent
    <3>1. Len(received) = 2 /\ Len(Replies) = 3 /\ j = 4
      <4>1. Len(got) = 3
        BY <1>5, <2>7
      <4>2. Len(received) = 2
        <5> DEFINE m == Len(received)
        <5>1. 3 = m + 1 /\ m \in Nat
          BY <1>3, <4>1
        <5> HIDE DEF m
        <5>2. m = 2
          BY <5>1
        <5> QED  BY <5>2 DEF m
      <4>3. Len(Replies) = j - 1 /\ Len(Replies) >= 3
        BY <1>4, <2>5, <4>1
      <4>4. j = 4
        BY <4>3
      <4>5. Len(Replies) = 3
        BY <4>3, <4>4
      <4> QED  BY <4>2, <4>4, <4>5
    <3>2. Tail(to_host) = <<>> /\ out_data = NoByte
      BY <1>1, <3>1, HeadReplies
    <3>3. Quiet' /\ to_device' = <<>> /\ state' = "UNLOCKED"
      BY <1>1, <1>2, <2>4, <3>1, <3>2 DEF Quiet
    <3>4. Listening(0)'
      BY <1>1, <1>2, <2>1, <3>3 DEF Listening, Image
    <3>5. Settled(0)'
      BY <3>3, <3>4, LineAssumption DEF Settled, CommandLast, ShortWrites
    <3> QED  BY <1>1, <2>1, <2>7, <3>5, AgreedStart
  <2>8. CASE Len(got) = AckLength /\ got # Ack
    <3>1. j - 1 = 3
      BY <1>4, <1>5, <2>5, <2>8
    <3>2. \A i \in 1..3 : got[i] = Ack[i]
      BY <1>4, <1>5, <2>5, <2>8, <3>1
    <3>3. got = Ack
      BY <1>3, <1>5, <2>8, <3>2, SeqEqual
    <3> QED  BY <2>8, <3>3
  <2> QED  BY <1>1, <1>5, <2>6, <2>7, <2>8
<1>9. CASE Finding
  <2>1. /\ disturbed = "found" /\ call = TestCall /\ calls = <<>> /\ accepted = <<>> /\ ~retried
        /\ sent = "unknown" /\ FoundInKey
    BY <1>1, <1>9 DEF Finding
  <2>2. PICK i \in 1..6 :
           /\ to_device = SubSeq(Key, i, 5)
           /\ AstrayOrDone \/ (state \in {"LOCKED", "PROTO_ERROR"} /\ i > 1)
    BY <1>1, <2>1 DEF FoundInKey
  <2>3. (\A m \in 1..Len(Replies) : Replies[m] = Refused) /\ Len(received) < AckLength
    BY <1>1, <2>1 DEF FoundInKey
  <2>4. got # Ack
    <3>1. got[1] = Replies[1] /\ Replies[1] = Refused
      <4>1. 1 \in 1..Len(got) /\ 1 \in 1..Len(Replies)
        BY <1>3, <1>4
      <4> QED  BY <1>4, <2>3, <4>1
    <3> QED  BY <3>1, KeyBytes
  <2>5. CASE Len(got) < AckLength /\ received' = got /\ UNCHANGED <<pc, retried, success, sent>>
    <3>1. AstrayOrDone' = AstrayOrDone
      BY <1>2 DEF AstrayOrDone, Astray
    <3>2. Replies' = Replies
      BY <1>6, <2>5
    <3>3. FoundInKey'
      BY <1>1, <1>2, <2>2, <2>3, <2>5, <3>1, <3>2 DEF FoundInKey
    <3>4. Finding'
      BY <1>1, <2>1, <2>5, <3>3 DEF Finding, FoundInCommand, FoundInReply, FoundInUnlock
    <3> QED  BY <3>4
  <2>6. CASE pc' = "ended" /\ ~success' /\ sent' = "failed" /\ UNCHANGED retried
    <3>1. Finding'
      BY <1>1, <2>1, <2>6 DEF Finding, FoundInCommand, FoundInReply, FoundInUnlock, FoundInKey
    <3> QED  BY <3>1
  <2> QED  BY <1>1, <1>5, <2>4, <2>5, <2>6
<1> QED  BY <1>1, <1>7, <1>8, <1>9 DEF InSession

LEMMA NoKeyStep ==
  ASSUME LinkTypeOK, InSession, LineIsUp, NoKey
  PROVE  InSession'
<1> SUFFICES ASSUME disturbed \in {"no", "found"} PROVE InSession'
  BY DEF NoKey, SameRuns, InSession
<1>1. /\ pc = "key" /\ to_host = <<>> /\ (backlog \/ AtRest)
      /\ pc' = "ended" /\ ~success' /\ sent' = "failed"
      /\ UNCHANGED <<call, calls, retried, accepted, disturbed>>
  BY DEF NoKey, NoByteComes, PollExpires, LineIsUp, CommandFails, EndCall, SameRuns
<1>2. ~(disturbed \in {"no", "found"} /\ Agreed)
  <2> SUFFICES ASSUME Agreed PROVE FALSE
    OBVIOUS
  <2>1. /\ ~backlog /\ Len(received) < AckLength
        /\ (\E i \in 1..5 : KeyOnLine(i)) \/ (\E j \in 1..4 : Acking(j))
    BY <1>1, AgreedParts DEF InKey
  <2>2. /\ to_device = <<>> /\ out_data = NoByte
        /\ state \notin MemoryStates /\ state \notin SendStates
    BY <1>1, <2>1, RestFacts
  <2>3. \A i \in 1..5 : ~KeyOnLine(i)
    BY <2>2, RestOfKey DEF KeyOnLine
  <2>4. PICK j \in 1..4 : Acking(j)
    BY <2>1, <2>3
  <2>5. j = 4
    <3>1. j < 4 => AckStates[j] \in SendStates
      BY StatesAre DEF AckStates
    <3> QED  BY <2>2, <2>4, <3>1 DEF Acking
  <2>6. Len(Replies) = 3
    BY <2>4, <2>5, AckPrefixes DEF Acking
  <2>7. Replies = received
    BY <1>1, <2>2, QuietReplies DEF Quiet
  <2> QED  BY <2>1, <2>6, <2>7 DEF AckLength
<1>3. CASE Finding
  <2>1. Finding'
    BY <1>1, <1>3 DEF Finding, FoundInCommand, FoundInReply, FoundInUnlock, FoundInKey
  <2> QED  BY <1>1, <2>1 DEF InSession
<1> QED  BY <1>1, <1>2, <1>3 DEF InSession

\* The bytes of a header stand for the address and the size.
LEMMA BytesOf ==
  ASSUME NEW a \in Nat, a < 16777216
  PROVE  (a % 256) + 256 * ((a \div 256) % 256) + 65536 * ((a \div 65536) % 256) = a
<1> DEFINE q == a \div 65536
           s == a % 65536
           p == a \div 256
           r == a % 256
<1>1. q \in Int /\ s \in Nat /\ s < 65536 /\ a = 65536 * q + s
  BY SMT
<1>2. p \in Int /\ r \in 0..255 /\ a = 256 * p + r
  BY SMT
<1> DEFINE t == p % 256
           u == p \div 256
<1> HIDE DEF q, s, p, r
<1>3. u \in Int /\ t \in 0..255 /\ p = 256 * u + t
  BY <1>2, SMT
<1> HIDE DEF t, u
<1>4. u = q
  BY <1>1, <1>2, <1>3, SMT
<1>5. q \in 0..255
  BY <1>1, SMT
<1>6. q % 256 = q
  BY <1>5, SMT
<1>7. r + 256 * t + 65536 * (q % 256) = a
  BY <1>2, <1>3, <1>4, <1>6, SMT
<1> QED  BY <1>7, SMT DEF q, p, r, t

LEMMA HeaderSays ==
  ASSUME NEW c \in Calls, c.op \in {"write", "read"}, TransferSize(c) < CountSpace
  PROVE  /\ Header(c)[1] + 256 * Header(c)[2] + 65536 * Header(c)[3] = c.address
         /\ Header(c)[4] + 256 * Header(c)[5] = TransferSize(c)
<1> DEFINE a == c.address
           n == TransferSize(c)
<1>1. a \in Nat /\ a < AddressSpace /\ n \in Nat /\ n < CountSpace
  BY CallFacts, TransferSizeType, SpaceFacts DEF Address
<1>2. /\ Header(c)[1] = a % 256 /\ Header(c)[2] = (a \div 256) % 256
      /\ Header(c)[3] = (a \div 65536) % 256 /\ Header(c)[4] = n % 256
      /\ Header(c)[5] = (n \div 256) % 256
  BY SMT DEF Header
<1> HIDE DEF a, n
<1>3. a < 16777216 /\ n < 65536
  <2>1. AddressSpace \in Nat /\ AddressSpace <= 16777216 /\ CountSpace \in Nat /\ CountSpace <= 65536
    BY SpaceFacts, SMT
  <2> QED  BY <1>1, <2>1, SMT
<1>4. (a % 256) + 256 * ((a \div 256) % 256) + 65536 * ((a \div 65536) % 256) = a
  BY <1>1, <1>3, BytesOf, SMT
<1>5. (n % 256) + 256 * ((n \div 256) % 256) = n
  <2> DEFINE q == n \div 256
             r == n % 256
  <2>1. q \in Int /\ r \in 0..255 /\ n = 256 * q + r
    BY <1>1, SMT
  <2> HIDE DEF q, r
  <2>2. q \in 0..255
    BY <1>1, <1>3, <2>1, SMT
  <2>3. q % 256 = q
    BY <2>2, SMT
  <2> QED  BY <2>1, <2>3, SMT DEF q, r
<1> QED  BY <1>2, <1>4, <1>5, SMT DEF a, n

LEMMA SendHeaderStep ==
  ASSUME LinkTypeOK, ShortWrites, InSession, LineIsUp, SendHeader
  PROVE  InSession'
<1> DEFINE h == Header(call)
<1>1. /\ pc = "header" /\ Write(h) /\ received' = <<>> /\ SameBoard
      /\ UNCHANGED <<to_host, accepted, call, calls, retried, sent, image, disturbed>>
      /\ pc' = IF Fits(h) THEN "transfer" ELSE "ended"
  BY DEF SendHeader, SameRuns, EndCall
<1>2. UNCHANGED <<state, reg_command, reg_address, reg_count, out_data, memory>>
  BY <1>1 DEF SameBoard, reg_vars
<1>3. /\ TimeoutBytes \in Nat /\ TtyBuffer \in Nat /\ TimeoutBytes >= 6 /\ TtyBuffer >= TimeoutBytes
      /\ to_device \in Seq(Byte) /\ Len(to_device) <= TtyBuffer
  BY LineAssumption DEF ShortWrites, LinkTypeOK, DeviceTypeOK
<1>4. SUFFICES ASSUME disturbed \in {"no", "found"} PROVE Agreed'
  BY <1>1 DEF InSession
<1>5. Agreed
  BY <1>1, <1>4 DEF InSession, Finding
<1>6. /\ Quiet /\ Granted /\ call.op \in {"write", "read"} /\ TransferFits /\ Outcome
      /\ TransferSize(call) < CountSpace /\ call \in Calls
  BY <1>1, <1>5, AgreedParts DEF InHeader, TransferFits, LinkTypeOK
<1>7. /\ to_device = <<>> /\ Image(memory) /\ state = "GET_ADDR0"
      /\ reg_command = CommandByte(call)
  BY <1>6 DEF Granted
<1>8. h \in Seq(Byte) /\ Len(h) = 5
  BY <1>6, HeaderType
<1>9. /\ h[1] + 256 * h[2] + 65536 * h[3] = call.address
      /\ h[4] + 256 * h[5] = TransferSize(call)
  BY <1>6, HeaderSays
<1> HIDE DEF h
<1>10. to_device' = h /\ ~backlog' /\ pc' = "transfer"
  <2>1. Len(to_device) = 0
    BY <1>7
  <2>2. Fits(h)
    BY <1>3, <1>4, <1>8, <2>1 DEF Fits, LineIsUp
  <2>3. to_device' = to_device \o h /\ backlog' = (Len(to_device') > TimeoutBytes)
    BY <1>1, <1>3, <1>8, <2>2, WriteType DEF Write
  <2>4. to_device' = h
    BY <1>7, <1>8, <2>3, ConcatEmptySeq
  <2>5. ~(Len(to_device') > TimeoutBytes)
    <3>1. Len(to_device') = 5
      BY <1>8, <2>4
    <3> QED  BY <1>3, <3>1
  <2> QED  BY <1>1, <2>2, <2>3, <2>4, <2>5
<1>11. /\ TransferSize(call)' = TransferSize(call) /\ CommandByte(call)' = CommandByte(call)
       /\ UNCHANGED call
  BY <1>1 DEF TransferSize, CommandByte
<1>12. Announced'
  <2>1. HeaderLeft' = 5
    BY <1>2, <1>7 DEF HeaderLeft
  <2>2. LineAddress' = call.address /\ LineCount' = TransferSize(call)
    <3>1. LineAddress' = to_device'[1] + 256 * to_device'[2] + 65536 * to_device'[3]
      BY <1>2, <1>7, SMT DEF LineAddress
    <3>2. LineCount' = to_device'[4] + 256 * to_device'[5]
      BY <1>2, <1>7 DEF LineCount
    <3> QED  BY <1>9, <1>10, <3>1, <3>2, SMT
  <2>3. call.address \in Address /\ TransferSize(call) \in 0..CountSpace - 1
    BY <1>6, CallFacts, TransferSizeType, SpaceFacts
  <2>4. HeaderFits' /\ Len(to_device') = 5
    <3>1. Len(to_device') = 5
      BY <1>8, <1>10
    <3>2. Len(to_device') >= HeaderLeft'
      BY <2>1, <3>1
    <3> QED  BY <2>2, <2>3, <3>1, <3>2 DEF HeaderFits
  <2> QED  BY <1>1, <1>2, <1>6, <1>7, <1>11, <2>1, <2>2, <2>4 DEF Announced, Quiet
<1>13. Image(memory)' /\ state' \in HeaderStates
  BY <1>1, <1>2, <1>7, StatesAre DEF Image
<1>14. InTransfer'
  <2>1. call.op = "write" => AwaitingData'
    BY <1>2, <1>7, <1>12, <1>13 DEF AwaitingData
  <2>2. call.op = "read" => Reading'
    BY <1>1, <1>12, <1>13 DEF Reading
  <2> QED  BY <1>6, <1>10, <1>11, <2>1, <2>2 DEF InTransfer
<1>15. TransferFits' /\ Outcome'
  BY <1>1, <1>6, <1>10, <1>11 DEF TransferFits, Outcome
<1> QED  BY <1>10, <1>14, <1>15, AgreedAt

\* The data follows its header, and what the board has not yet stored it will.
LEMMA SendDataStep ==
  ASSUME LinkTypeOK, ShortWrites, CallsAreShort, InSession, LineIsUp, SendData
  PROVE  InSession'
<1> DEFINE d == call.data
<1>1. /\ pc = "transfer" /\ call.op = "write" /\ Write(d) /\ pc' = "ended" /\ success' = Fits(d)
      /\ image' = IF Fits(d) THEN Written(image, call.address, d) ELSE image
      /\ SameBoard /\ UNCHANGED <<to_host, accepted, call, calls, retried, received, sent, disturbed>>
  BY DEF SendData, SameRuns, EndCall
<1>2. UNCHANGED <<state, reg_command, reg_address, reg_count, reg_data, out_data, memory>>
  BY <1>1 DEF SameBoard, reg_vars
<1>3. /\ TimeoutBytes \in Nat /\ TtyBuffer \in Nat /\ TtyBuffer >= TimeoutBytes
      /\ to_device \in Seq(Byte) /\ Len(to_device) <= TtyBuffer /\ Len(to_device) \in Nat
  BY LineAssumption DEF ShortWrites, LinkTypeOK, DeviceTypeOK
<1>4. SUFFICES ASSUME disturbed \in {"no", "found"} PROVE Agreed'
  BY <1>1 DEF InSession
<1>5. Agreed
  BY <1>1, <1>4 DEF InSession, Finding
<1>6. /\ AwaitingData /\ TransferFits /\ Outcome /\ TransferSize(call) < CountSpace
  BY <1>1, <1>5, AgreedParts DEF InTransfer, TransferFits
<1>7. /\ d \in Seq(Byte) /\ Len(d) \in Nat /\ call.address \in Address
      /\ TransferSize(call) = Len(d) /\ Len(d) + 6 <= TimeoutBytes
  <2>1. d \in Seq(Byte) /\ call.address \in Address /\ TransferSize(call) = Len(d)
    BY <1>1, CallFacts DEF LinkTypeOK, TransferSize
  <2>2. Len(d) >= CountSpace \/ Len(d) + 6 <= TimeoutBytes
    BY <1>1 DEF CallsAreShort, IsShort
  <2>3. CountSpace \in Nat /\ Len(d) \in Nat
    BY <2>1, SpaceFacts
  <2> QED  BY <1>6, <2>1, <2>2, <2>3
<1>8. TransferFits' /\ Outcome'
  BY <1>1, <1>6 DEF TransferFits, Outcome, CommandByte
<1> HIDE DEF d
<1>9. ASSUME NEW left \in 0..5, Len(to_device) = left
      PROVE  /\ to_device' = to_device \o d /\ Fits(d)
             /\ Len(to_device') = left + Len(d) /\ Len(to_device') + 1 <= TimeoutBytes + 0
  <2>1. Fits(d)
    BY <1>3, <1>4, <1>7, <1>9 DEF Fits, LineIsUp
  <2>2. to_device' = to_device \o d
    BY <1>1, <1>3, <1>7, <2>1, WriteType
  <2>3. Len(to_device \o d) = Len(to_device) + Len(d)
    BY <1>3, <1>7, ConcatProperties
  <2> QED  BY <1>3, <1>7, <1>9, <2>1, <2>2, <2>3
<1>10. CASE state = "UNLOCKED" /\ to_device = <<>> /\ Quiet /\ TransferSize(call) = 0
  <2>1. /\ Fits(d) /\ to_device' = to_device \o d /\ Len(to_device') + 1 <= TimeoutBytes + 0
        /\ Len(d) = 0
    <3>1. Len(to_device) = 0
      BY <1>10
    <3> QED  BY <1>7, <1>9, <1>10, <3>1
  <2>2. to_device' = <<>>
    <3>1. d = <<>>
      BY <1>7, <2>1, EmptySeq
    <3> QED  BY <1>10, <2>1, <3>1
  <2>3. Image(memory)'
    <3> SUFFICES ASSUME disturbed = "no" PROVE image' = memory
      BY <1>1, <1>2 DEF Image
    <3>1. image = memory /\ image' = Written(image, call.address, d)
      BY <1>1, <1>6, <2>1 DEF AwaitingData, Image
    <3>2. \A b \in Address : ~((b - call.address) % AddressSpace < Len(d))
      <4> TAKE b \in Address
      <4>1. Offset(b, call.address) \in Nat
        BY <1>7, OffsetType
      <4> QED  BY <2>1, <4>1 DEF Offset
    <3>3. Written(image, call.address, d) = memory
      BY <3>1, <3>2 DEF Written, LinkTypeOK, DeviceTypeOK
    <3> QED  BY <3>1, <3>3
  <2>4. Listening(0)'
    BY <1>2, <1>10, <2>2, <2>3 DEF Listening
  <2>5. Settled(0)'
    BY <1>1, <1>2, <1>10, <2>1, <2>4 DEF Settled, CommandLast, Quiet
  <2>6. InEnded'
    BY <1>1, <2>1, <2>5 DEF InEnded
  <2> QED  BY <1>1, <1>8, <2>6, AgreedAt
<1>11. CASE /\ state \in HeaderStates \cup {"WRITE_START", "WRITE_IN"}
            /\ Announced
            /\ state = "WRITE_IN" => LineCount > 0
  <2>1. /\ reg_command = CommandByte(call) /\ HeaderFits /\ Len(to_device) = HeaderLeft
        /\ LineAddress = call.address /\ LineCount = TransferSize(call) /\ Quiet /\ HeaderLeft \in 0..5
    BY <1>11 DEF Announced, HeaderLeft
  <2>2. /\ Fits(d) /\ to_device' = to_device \o d
        /\ Len(to_device') = HeaderLeft + Len(d) /\ Len(to_device') + 1 <= TimeoutBytes + 0
    BY <1>9, <2>1
  <2>3. /\ HeaderLeft' = HeaderLeft /\ LineAddress' = LineAddress /\ LineCount' = LineCount
        /\ HeaderFits'
        /\ \A i \in 1..Len(d) : to_device'[Len(to_device) + i] = d[i]
    BY <1>2, <1>7, <2>1, <2>2, LineExtends
  <2>4. reg_command = WriteCommand /\ state # "WRITE_MEM"
    BY <1>1, <1>11, <2>1, CommandByteFacts, StatesAre DEF LinkTypeOK
  <2>5. DataLeft' = Len(d)
    BY <1>2, <1>7, <2>1, <2>3, <2>4 DEF DataLeft
  <2>6. ASSUME NEW o \in Nat, o < Len(d) PROVE to_device'[HeaderLeft' + o + 1] = d[o + 1]
    <3>1. o + 1 \in 1..Len(d)
      BY <1>7, <2>6
    <3>2. to_device'[Len(to_device) + (o + 1)] = d[o + 1]
      BY <2>3, <3>1
    <3>3. HeaderLeft' + o + 1 = Len(to_device) + (o + 1)
      BY <2>1, <2>3
    <3> QED  BY <3>2, <3>3
  <2>7. Image(MemoryAfter)'
    <3> SUFFICES ASSUME disturbed = "no" PROVE image' = MemoryAfter'
      BY <1>1 DEF Image
    <3>1. image = memory /\ image' = Written(memory, call.address, d)
      BY <1>1, <1>6, <2>2 DEF AwaitingData, Image
    <3>2. ASSUME NEW b \in Address
          PROVE  Offset(b, call.address) \in Nat /\ Offset(b, call.address) = (b - call.address) % AddressSpace
      BY <1>7, OffsetType DEF Offset
    <3>3. Written(memory, call.address, d)
            = [b \in Address |-> IF Offset(b, call.address) < Len(d) THEN d[Offset(b, call.address) + 1]
                                                                     ELSE memory[b]]
      BY <3>2 DEF Written
    <3>4. LineAddress' = call.address /\ LineCount' = Len(d)
      BY <1>7, <2>1, <2>3
    <3>5. ASSUME NEW b \in Address
          PROVE  MemoryAfter'[b] = IF Offset(b, call.address) < Len(d)
                                   THEN to_device'[HeaderLeft' + Offset(b, call.address) + 1]
                                   ELSE memory[b]
      BY <1>2, <2>4, <3>4 DEF MemoryAfter, DataByte
    <3>6. ASSUME NEW b \in Address
          PROVE  MemoryAfter'[b] = IF Offset(b, call.address) < Len(d)
                                   THEN d[Offset(b, call.address) + 1] ELSE memory[b]
      BY <2>6, <3>2, <3>5
    <3>7. MemoryAfter' = [b \in Address |-> MemoryAfter'[b]]
      BY DEF MemoryAfter
    <3> QED  BY <3>1, <3>3, <3>6, <3>7
  <2>8. Absorbing(0)'
    BY <1>2, <1>7, <1>11, <2>1, <2>2, <2>3, <2>4, <2>5, <2>7 DEF Absorbing
  <2>9. Settled(0)'
    BY <1>1, <1>2, <2>1, <2>2, <2>8 DEF Settled, CommandLast, Quiet
  <2>10. InEnded'
    BY <1>1, <2>2, <2>9 DEF InEnded
  <2> QED  BY <1>1, <1>8, <2>10, AgreedAt
<1> QED  BY <1>6, <1>10, <1>11 DEF AwaitingData

LEMMA ReadDataStep ==
  ASSUME LinkTypeOK, ShortWrites, InSession, ReadData
  PROVE  InSession'
<1>1. /\ pc = "transfer" /\ call.op = "read" /\ SameBoard
      /\ UNCHANGED <<to_device, backlog, accepted, call, calls, retried, sent, image, disturbed>>
      /\ \/ /\ Len(received) < call.size /\ to_host # <<>> /\ to_host' = Tail(to_host)
            /\ received' = Append(received, Head(to_host)) /\ UNCHANGED <<pc, success>>
         \/ Len(received) < call.size /\ PollExpires /\ pc' = "ended" /\ ~success'
         \/ /\ Len(received) = call.size /\ pc' = "ended" /\ success'
            /\ UNCHANGED <<to_host, received>>
  BY DEF ReadData, Arrived, LinkUnchanged, SameRuns, EndCall
<1>2. UNCHANGED <<state, reg_command, reg_address, reg_count, reg_data, out_data, memory>>
  BY <1>1 DEF SameBoard, reg_vars
<1>3. SUFFICES ASSUME disturbed \in {"no", "found"} PROVE Agreed'
  <2>1. pc' \in {"transfer", "ended"}
    BY <1>1
  <2> QED  BY <1>1, <1>3, <2>1 DEF InSession
<1>4. Agreed
  BY <1>1, <1>3 DEF InSession, Finding
<1>5. /\ Reading /\ ~backlog /\ TransferFits /\ Outcome /\ TransferSize(call) < CountSpace
  BY <1>1, <1>4, AgreedParts DEF InTransfer, TransferFits
<1>6. /\ call.address \in Address /\ call.size \in Nat \ {0} /\ TransferSize(call) = call.size
      /\ reg_count \in Nat /\ Len(Replies) \in Nat /\ Len(received) \in Nat
      /\ received \in Seq(Byte) /\ Replies \in Seq(Byte)
  <2>1. /\ call.address \in Address /\ call.size \in Nat \ {0} /\ TransferSize(call) = call.size
    BY <1>1, CallFacts DEF LinkTypeOK, TransferSize
  <2>2. reg_count \in Nat
    BY SpaceFacts DEF LinkTypeOK, DeviceTypeOK
  <2>3. received \in Seq(Byte) /\ Replies \in Seq(Byte)
    BY RepliesType DEF LinkTypeOK
  <2>4. Len(Replies) \in Nat /\ Len(received) \in Nat
    BY <2>3, LenProperties
  <2> QED  BY <2>1, <2>2, <2>3, <2>4
<1>7. TransferFits' /\ Outcome'
  BY <1>1, <1>5 DEF TransferFits, TransferSize, Outcome, CommandByte
<1>8. PollExpires => AtRest /\ to_host = <<>>
  BY <1>5 DEF PollExpires
<1>9. CASE Image(memory) /\ received = <<>> /\ Announced /\ state \in HeaderStates
  <2>1. to_host = <<>> /\ to_device # <<>>
    <3>1. Len(to_device) > 0
      BY <1>9, StatesAre DEF Announced, HeaderLeft
    <3> QED  BY <1>9, <3>1 DEF Announced, Quiet
  <2>2. ~AtRest
    BY <2>1, RestFacts
  <2>3. Len(received) = 0
    BY <1>9
  <2> QED  BY <1>1, <1>6, <1>8, <2>1, <2>2, <2>3
<1>10. CASE SendingData
  <2>1. /\ Image(memory) /\ to_device = <<>>
        /\ \A i \in 1..Len(Replies) : Replies[i] = memory[(call.address + i - 1) % AddressSpace]
        /\ \/ /\ state \in {"READ_START", "READ_MEM", "READ_OUT"}
              /\ Len(Replies) = call.size - reg_count
              /\ reg_address = (call.address + Len(Replies)) % AddressSpace
              /\ state # "READ_START" => reg_count > 0
              /\ state = "READ_OUT" => reg_data = memory[reg_address]
           \/ state = "UNLOCKED" /\ Len(Replies) = call.size
    BY <1>10 DEF SendingData
  <2>2. CASE /\ Len(received) < call.size /\ to_host # <<>> /\ to_host' = Tail(to_host)
             /\ received' = Append(received, Head(to_host)) /\ UNCHANGED <<pc, success>>
    <3>1. Replies' = Replies
      BY <1>2, <2>2, ReadReplies
    <3>2. SendingData'
      BY <1>1, <1>2, <2>1, <3>1 DEF SendingData, Image
    <3>3. InTransfer'
      BY <1>1, <1>5, <2>2, <3>2 DEF InTransfer, Reading
    <3> QED  BY <1>1, <1>7, <2>2, <3>3, AgreedAt
  <2>3. ASSUME Len(received) < call.size, PollExpires PROVE FALSE
    <3>1. /\ out_data = NoByte /\ to_host = <<>>
          /\ state \notin MemoryStates /\ state \notin SendStates
      BY <1>8, <2>3, RestFacts
    <3>2. state = "UNLOCKED" /\ Len(Replies) = call.size
      BY <2>1, <3>1, StatesAre DEF MemoryStates
    <3>3. Replies = received
      BY <3>1, QuietReplies DEF Quiet
    <3> QED  BY <1>6, <2>3, <3>2, <3>3
  <2>4. CASE /\ Len(received) = call.size /\ pc' = "ended" /\ success'
             /\ UNCHANGED <<to_host, received>>
    <3>1. Len(received) <= Len(Replies) /\ \A i \in 1..Len(received) : Replies[i] = received[i]
      BY PrefixOfReplies
    <3>2. /\ Len(Replies) = call.size
          /\ state = "UNLOCKED" \/ (state = "READ_START" /\ reg_count = 0)
      <4>1. CASE state = "UNLOCKED"
        BY <2>1, <4>1
      <4>2. CASE state # "UNLOCKED"
        <5>1. Len(Replies) = call.size - reg_count
          BY <2>1, <4>2
        <5>2. reg_count = 0
          BY <1>6, <2>4, <3>1, <5>1
        <5>3. state = "READ_START"
          BY <2>1, <4>2, <5>2
        <5> QED  BY <1>6, <5>1, <5>2, <5>3
      <4> QED  BY <4>1, <4>2
    <3>3. Quiet
      BY <2>4, <3>2, QuietReplies
    <3>4. Listening(0)'
      BY <1>1, <1>2, <2>1, <3>2 DEF Listening, Image
    <3>5. Settled(0)'
      BY <1>1, <1>2, <2>1, <2>4, <3>3, <3>4, LineAssumption DEF Settled, CommandLast, Quiet, ShortWrites
    <3>6. ReadIsRight'
      <4>1. ASSUME disturbed = "no", NEW i \in 1..call.size
            PROVE  received[i] = image[(call.address + i - 1) % AddressSpace]
        <5>1. i \in 1..Len(received) /\ i \in 1..Len(Replies)
          BY <2>4, <3>2, <4>1
        <5> QED  BY <2>1, <3>1, <4>1, <5>1 DEF Image
      <4> QED  BY <1>1, <2>4, <4>1 DEF ReadIsRight
    <3>7. InEnded'
      BY <2>4, <3>5, <3>6 DEF InEnded
    <3> QED  BY <1>7, <2>4, <3>7, AgreedAt
  <2> QED  BY <1>1, <2>2, <2>3, <2>4
<1> QED  BY <1>5, <1>9, <1>10 DEF Reading

\* The reset button: unnoticed between calls, if the board was at rest.
LEMMA ResetStep ==
  ASSUME ShortWrites, InSession, Reset
  PROVE  InSession'
<1>1. /\ state' = "LOCKED" /\ out_data' = NoByte
      /\ UNCHANGED <<to_device, to_host, memory, accepted>>
      /\ disturbed' = IF Idle /\ Undisturbed THEN disturbed ELSE "reset"
      /\ UNCHANGED <<pc, call, calls, success, retried, received, backlog, sent, image>>
  BY DEF Reset, BoardReset, channel_vars, host_vars
<1>2. CASE ~(Idle /\ Undisturbed)
  BY <1>1, <1>2 DEF InSession
<1>3. CASE Idle /\ Undisturbed /\ pc = "closed"
  BY <1>1, <1>3 DEF InSession
<1>4. CASE Idle /\ Undisturbed /\ pc = "prompt" /\ disturbed \in {"no", "found"}
  <2>1. Agreed
    BY <1>4 DEF InSession, Finding
  <2>2. Settled(0) /\ TransferFits /\ Outcome
    BY <1>4, <2>1, AgreedParts DEF AtPrompt
  <2>3. to_device = <<>> /\ state \in {"LOCKED", "UNLOCKED"}
    BY <1>4, RestFacts DEF Undisturbed
  <2>4. Image(memory) /\ Quiet
    BY <2>2, <2>3, StatesAre DEF Settled, Absorbing, Listening
  <2>5. Listening(0)' /\ Quiet'
    BY <1>1, <1>4, <2>3, <2>4 DEF Listening, Image, Quiet
  <2>6. Settled(0)'
    BY <1>1, <2>3, <2>5, LineAssumption DEF Settled, CommandLast, ShortWrites
  <2>7. AtPrompt' /\ TransferFits' /\ Outcome'
    BY <1>1, <2>2, <2>6 DEF AtPrompt, TransferFits, TransferSize, Outcome, CommandByte
  <2> QED  BY <1>1, <1>4, <2>7, AgreedAt DEF InSession
<1> QED  BY <1>1, <1>2, <1>3, <1>4 DEF InSession, Idle

LEMMA BoardStepInSession ==
  ASSUME LinkTypeOK, TransferCall, InSession, Board
  PROVE  InSession'
<1>1. UNCHANGED <<pc, sent, disturbed>>
  BY DEF Board, host_vars, history_vars
<1>2. CASE pc \in {"closed", "locking"}
  BY <1>1, <1>2 DEF InSession
<1>3. CASE pc \notin {"closed", "locking"} /\ disturbed \in {"no", "found"}
  <2>1. Agreed \/ Finding
    BY <1>3 DEF InSession
  <2>2. Agreed' \/ Finding'
    BY <1>3, <2>1, AgreedBoard, FindingBoard
  <2> QED  BY <1>1, <1>3, <2>2 DEF InSession
<1> QED  BY <1>1, <1>2, <1>3 DEF InSession

LEMMA StutteringInSession ==
  ASSUME InSession, UNCHANGED link_vars
  PROVE  InSession'
<1> USE DEF link_vars, channel_vars, device_vars, reg_vars, host_vars, history_vars
<1>1. /\ HeaderLeft' = HeaderLeft /\ LineAddress' = LineAddress /\ LineCount' = LineCount
      /\ DataLeft' = DataLeft /\ HeaderFits' = HeaderFits
  BY DEF HeaderLeft, LineAddress, LineCount, DataLeft, HeaderFits
<1>2. MemoryAfter' = MemoryAfter
  BY DEF MemoryAfter, DataByte, HeaderLeft, LineAddress, LineCount
<1>3. /\ Quiet' = Quiet /\ Replies' = Replies
      /\ TransferSize(call)' = TransferSize(call) /\ CommandByte(call)' = CommandByte(call)
  BY DEF Quiet, Replies, TransferSize, CommandByte
<1>4. \A k \in 0..1 : Settled(k) => Settled(k)'
  BY <1>1, <1>2, <1>3 DEF Settled, Absorbing, Listening, CommandLast, Image
<1>5. /\ Accepting => Accepting'
      /\ Granted => Granted'
      /\ Refusing => Refusing'
      /\ \A i \in 1..5 : KeyOnLine(i) => KeyOnLine(i)'
      /\ \A j \in 1..4 : Acking(j) => Acking(j)'
  BY <1>3 DEF Accepting, Granted, Refusing, KeyOnLine, Acking, Image
<1>6. Announced => Announced'
  BY <1>1, <1>3 DEF Announced
<1>7. AwaitingData => AwaitingData'
  BY <1>1, <1>3, <1>6 DEF AwaitingData, Image
<1>8. Reading => Reading'
  BY <1>3, <1>6 DEF Reading, SendingData, Image
<1>9. Agreed => Agreed'
  <2> SUFFICES ASSUME Agreed PROVE Agreed'
    OBVIOUS
  <2>1. InCommand' /\ InReply' /\ InUnlock' /\ AtPrompt'
    BY <1>3, <1>4, <1>5, AgreedParts DEF InCommand, InReply, InUnlock, AtPrompt, Image
  <2>2. InKey'
    BY <1>5, AgreedParts DEF InKey, Image
  <2>3. InHeader' /\ InTransfer'
    BY <1>3, <1>5, <1>7, <1>8, AgreedParts DEF InHeader, InTransfer
  <2>4. InEnded'
    BY <1>4, AgreedParts DEF InEnded, ReadIsRight
  <2>5. TransferFits' /\ Outcome'
    BY <1>3, AgreedParts DEF TransferFits, Outcome
  <2> QED  BY <2>1, <2>2, <2>3, <2>4, <2>5 DEF Agreed
<1>10. Finding => Finding'
  BY <1>3 DEF Finding, FoundInCommand, FoundInReply, FoundInUnlock, FoundInKey, BeforeTest,
              AstrayOrDone, Astray
<1> QED  BY <1>9, <1>10 DEF InSession

LEMMA AcceptedWhenOk ==
  ASSUME InSession, disturbed \in {"no", "found"}, sent = "ok"
  PROVE  accepted = <<CommandByte(call)>> /\ CommandByte(call) \in Range(accepted)
<1> DEFINE c == CommandByte(call)
<1>1. Agreed
  BY DEF InSession, Finding
<1>2. accepted = <<c>>
  BY <1>1 DEF Agreed, Outcome
<1> HIDE DEF c
<1>3. 1 \in DOMAIN accepted /\ accepted[1] = c
  BY <1>2
<1> QED  BY <1>2, <1>3 DEF Range, c

(***************************************************************************)
(* The smaller parts of the invariant.                                     *)
(***************************************************************************)
LEMMA HeaderCommandStep ==
  ASSUME LinkTypeOK, HeaderCommand, [LinkNext]_link_vars
  PROVE  HeaderCommand'
<1>1. CASE Board
  <2>1. DeviceStep
    BY <1>1 DEF Board
  <2>2. CASE Receive
    <3>1. CASE state \in HeaderStates
      <4>1. UNCHANGED reg_command
        BY <2>2, <3>1, ReceiveByState, HeaderByState
      <4> QED  BY <3>1, <4>1 DEF HeaderCommand
    <3>2. CASE state \notin HeaderStates
      <4>1. state' \notin HeaderStates
        <5>1. CASE state \in SendStates
          BY <2>2, <3>2, <5>1, ReceiveByState
        <5>2. CASE state = "UNLOCKED"
          BY <2>2, <5>2, ReceiveByState, StatesAre DEF GetCommand
        <5>3. CASE state = "WRITE_IN"
          BY <2>2, <5>3, ReceiveByState, StatesAre DEF WriteIn
        <5>4. CASE state \in Range(KeyStates)
          <6>1. GetKey(Head(to_device))
            BY <2>2, <5>4, ReceiveByState
          <6>2. PICK i \in 1..5 : state' = IF Head(to_device) # Key[i] THEN "PROTO_ERROR"
                                           ELSE IF i < 5 THEN KeyStates[i + 1] ELSE AckStates[1]
            BY <6>1 DEF GetKey, KeyStates
          <6>3. state' \in {"PROTO_ERROR", "KEY_SEND1"} \cup Range(KeyStates)
            BY <6>2 DEF KeyStates, AckStates, Range
          <6> QED  BY <6>3, StatesAre
        <5> QED  BY <2>2, <3>2, <5>1, <5>2, <5>3, <5>4, ReceiveByState
      <4> QED  BY <4>1 DEF HeaderCommand
    <3> QED  BY <3>1, <3>2
  <2>3. CASE AcceptCommand
    <3>1. UNCHANGED reg_command
          /\ state' = CASE reg_command = LockCommand -> "LOCKED"
                        [] reg_command \in {ReadCommand, WriteCommand} -> "GET_ADDR0"
                        [] OTHER -> "UNLOCKED"
      BY <2>3 DEF AcceptCommand, reg_vars, AddressStates
    <3> QED  BY <3>1, StatesAre DEF HeaderCommand, LockCommand
  <2>4. CASE OutDone
    BY <2>4 DEF OutDone, reg_vars, HeaderCommand
  <2>5. CASE ~Receive /\ ~AcceptCommand /\ ~OutDone
    <3>1. state' \notin HeaderStates
      <4>1. SendKey => state' \in {"KEY_SEND2", "KEY_SEND3", "UNLOCKED"}
        BY DEF SendKey, AckStates
      <4>2. /\ SendError => state' = "LOCKED"
            /\ ReadOut => state' = "READ_START"
            /\ StartTransfer => state' \in {"UNLOCKED", "WRITE_IN", "READ_MEM"}
            /\ WriteMem => state' = "WRITE_START"
            /\ ReadMem => state' = "READ_OUT"
        BY DEF SendError, ReadOut, StartTransfer, WriteMem, ReadMem
      <4> QED  BY <2>1, <2>5, <4>1, <4>2, StatesAre DEF DeviceStep
    <3> QED  BY <3>1 DEF HeaderCommand
  <2> QED  BY <2>2, <2>3, <2>4, <2>5
<1>2. CASE Reset
  <2>1. state' = "LOCKED"
    BY <1>2 DEF Reset, BoardReset
  <2> QED  BY <2>1, StatesAre DEF HeaderCommand
<1>3. CASE ~Board /\ ~Reset
  <2>1. UNCHANGED <<state, reg_command>>
    BY <1>3 DEF LinkNext, HostStep, link_vars, device_vars, reg_vars, SameBoard, Open, IssueCommand,
       NextCall, Quit, Close, Kill, RefuseTransfer, SendCommandByte, ReadReply, NoReply,
       SendUnlockKey, ReadKey, NoKey, SendHeader, SendData, ReadData, HangUp
  <2> QED  BY <2>1 DEF HeaderCommand
<1> QED  BY <1>1, <1>2, <1>3

LEMMA CallsAreShortStep ==
  ASSUME LinkTypeOK, ShortWrites, CallsAreShort, [LinkNext]_link_vars
  PROVE  CallsAreShort'
<1>1. IsShort(TestCall)
  BY DEF IsShort, TestCall
<1>2. ASSUME NEW s \in Seq(Calls), s # <<>>, \A i \in DOMAIN s : IsShort(s[i])
      PROVE  IsShort(Head(s)) /\ \A i \in DOMAIN Tail(s) : IsShort(Tail(s)[i])
  <2>1. /\ Len(s) \in Nat \ {0} /\ Head(s) = s[1] /\ DOMAIN s = 1..Len(s)
        /\ Len(Tail(s)) = Len(s) - 1 /\ DOMAIN Tail(s) = 1..Len(s) - 1
        /\ \A i \in 1..Len(s) - 1 : Tail(s)[i] = s[i + 1]
    BY <1>2, EmptySeq, HeadTailProperties, LenProperties
  <2>2. 1 \in DOMAIN s /\ \A i \in 1..Len(s) - 1 : i + 1 \in DOMAIN s
    BY <2>1
  <2> QED  BY <1>2, <2>1, <2>2
<1>3. \A cmd \in Commands : cmd \in Seq(Calls) /\ cmd # <<>> /\ \A i \in DOMAIN cmd : IsShort(cmd[i])
  BY CommandsAssumption DEF ShortWrites, IsShort
<1>4. CASE IssueCommand
  <2>1. PICK cmd \in Commands : call' = Head(cmd) /\ calls' = Tail(cmd)
    BY <1>4 DEF IssueCommand, StartCall
  <2> QED  BY <1>2, <1>3, <2>1 DEF CallsAreShort, IsShort
<1>5. CASE NextCall
  <2>1. CASE calls # <<>> /\ call' = Head(calls) /\ calls' = Tail(calls)
    <3>1. calls \in Seq(Calls)
      BY DEF LinkTypeOK
    <3> QED  BY <1>2, <2>1, <3>1 DEF CallsAreShort, IsShort
  <2>2. CASE UNCHANGED call /\ calls' = <<>>
    BY <2>2 DEF CallsAreShort, IsShort
  <2> QED  BY <1>5, <2>1, <2>2 DEF NextCall, StartCall
<1>6. CASE call' = TestCall /\ calls' = <<>>
  BY <1>1, <1>6 DEF CallsAreShort, IsShort
<1>7. CASE UNCHANGED <<call, calls>>
  BY <1>7 DEF CallsAreShort, IsShort
<1>8. IssueCommand \/ NextCall \/ (call' = TestCall /\ calls' = <<>>) \/ UNCHANGED <<call, calls>>
  BY DEF LinkNext, HostStep, link_vars, host_vars, Board, Reset, Open, StartCall, ProcessEnds,
     Quit, Close, Kill, RefuseTransfer, SendCommandByte, ReadReply, NoReply,
     SendUnlockKey, ReadKey, NoKey, SendHeader, SendData, ReadData, HangUp
<1> QED  BY <1>4, <1>5, <1>6, <1>7, <1>8

\* Only the board adds to what it has accepted, and only a reply that has arrived
\* makes SendCommand return true.
LEMMA HangUpSteps ==
  ASSUME LinkTypeOK, InSession, LineIsUp, AfterHangUp, [LinkNext]_link_vars
  PROVE  LineIsUp' /\ AfterHangUp'
<1> USE DEF SameRuns, LinkUnchanged, Write
<1>1. CASE HangUp
  <2>1. ASSUME disturbed \in {"no", "found"}, sent = "ok"
        PROVE  CommandByte(call) \in Range(accepted)
    BY <2>1, AcceptedWhenOk
  <2>2. CommandByte(call)' = CommandByte(call) /\ UNCHANGED <<sent, accepted>> /\ hung_up'
        /\ disturbed' = IF disturbed \in {"no", "found"} THEN "hangup" ELSE disturbed
    BY <1>1 DEF HangUp, CommandByte
  <2> QED  BY <2>1, <2>2 DEF LineIsUp, AfterHangUp
<1>2. CASE Open
  BY <1>2 DEF Open, StartCall, FoundBoard, LineIsUp, AfterHangUp
<1>3. CASE Board
  <2>1. UNCHANGED <<call, sent, disturbed, hung_up>>
    BY <1>3 DEF Board, host_vars, history_vars
  <2>2. Range(accepted) \subseteq Range(accepted')
    <3>1. UNCHANGED accepted \/ accepted' = Append(accepted, reg_command)
      BY <1>3 DEF Board, DeviceStep, Receive, SendError, SendKey, AcceptCommand, ReadOut, OutDone,
         StartTransfer, WriteMem, ReadMem
    <3>2. accepted \in Seq(KnownCommands)
      BY DEF LinkTypeOK, DeviceTypeOK
    <3>3. ASSUME accepted' = Append(accepted, reg_command), NEW i \in DOMAIN accepted
          PROVE  i \in DOMAIN accepted' /\ accepted'[i] = accepted[i]
      BY <3>2, <3>3
    <3> QED  BY <3>1, <3>3 DEF Range
  <2>3. CommandByte(call)' = CommandByte(call)
    BY <2>1 DEF CommandByte
  <2> QED  BY <2>1, <2>2, <2>3 DEF LineIsUp, AfterHangUp
<1>4. CASE Reset
  <2>1. UNCHANGED <<call, sent, accepted, hung_up>> /\ disturbed' \in {disturbed, "reset"}
    BY <1>4 DEF Reset, BoardReset, host_vars
  <2> QED  BY <2>1 DEF LineIsUp, AfterHangUp, CommandByte
<1>5. CASE UNCHANGED link_vars
  BY <1>5 DEF link_vars, device_vars, host_vars, history_vars, LineIsUp, AfterHangUp, CommandByte
<1>6. CASE HostStep \/ IssueCommand \/ Quit \/ Kill
  <2>1. UNCHANGED <<hung_up, disturbed>>
    BY <1>6 DEF HostStep, IssueCommand, Quit, Kill, NextCall, Close, RefuseTransfer, SendCommandByte,
       ReadReply, NoReply, SendUnlockKey, ReadKey, NoKey, SendHeader, SendData, ReadData, ProcessEnds
  <2>2. hung_up => sent' # "ok" \/ UNCHANGED <<call, sent, accepted>>
    BY <1>6 DEF HostStep, IssueCommand, Quit, Kill, NextCall, Close, RefuseTransfer, SendCommandByte,
       ReadReply, NoReply, SendUnlockKey, ReadKey, NoKey, SendHeader, SendData, ReadData, ProcessEnds,
       Arrived, StartCall, NoUnlockFails, CommandFails
  <2> QED  BY <2>1, <2>2 DEF LineIsUp, AfterHangUp, CommandByte
<1> QED  BY <1>1, <1>2, <1>3, <1>4, <1>5, <1>6 DEF LinkNext

(***************************************************************************)
(* The invariant is inductive, and what follows from it.                   *)
(***************************************************************************)
LEMMA LinkInvInit == ShortWrites /\ LinkInit => LinkInv
<1> SUFFICES ASSUME ShortWrites, LinkInit PROVE LinkInv
  OBVIOUS
<1>1. LinkTypeOK /\ TransferCall
  BY LinkTypeInit
<1>2. HeaderCommand
  BY StatesAre DEF LinkInit, DeviceInit, HeaderCommand
<1>3. CallsAreShort
  BY DEF LinkInit, TestCall, CallsAreShort, IsShort
<1>4. InSession
  BY DEF LinkInit, InSession
<1>5. LineIsUp /\ AfterHangUp
  BY DEF LinkInit, LineIsUp, AfterHangUp
<1> QED  BY <1>1, <1>2, <1>3, <1>4, <1>5 DEF LinkInv

LEMMA LinkInvStep ==
  ASSUME ShortWrites, LinkInv, [LinkNext]_link_vars
  PROVE  LinkInv'
<1>1. LinkTypeOK /\ TransferCall /\ HeaderCommand /\ CallsAreShort /\ InSession
      /\ LineIsUp /\ AfterHangUp
  BY DEF LinkInv
<1>2. LinkTypeOK'
  BY <1>1, LinkTypeStep
<1>3. TransferCall'
  BY <1>1, TransferCallStep
<1>4. HeaderCommand'
  BY <1>1, HeaderCommandStep
<1>5. CallsAreShort'
  BY <1>1, CallsAreShortStep
<1>6. InSession'
  <2>1. CASE Open
    BY <1>1, <2>1, OpenStep
  <2>2. CASE IssueCommand
    BY <1>1, <2>2, IssueCommandStep
  <2>3. CASE Quit \/ Close \/ Kill
    BY <1>1, <2>3, LeavingStep
  <2>4. CASE Board
    BY <1>1, <2>4, BoardStepInSession
  <2>5. CASE Reset
    BY <1>1, <2>5, ResetStep
  <2>6. CASE UNCHANGED link_vars
    BY <1>1, <2>6, StutteringInSession
  <2>7. CASE NextCall
    BY <1>1, <2>7, NextCallStep
  <2>8. CASE RefuseTransfer
    BY <1>1, <2>8, RefuseTransferStep
  <2>9. CASE SendCommandByte
    BY <1>1, <2>9, SendCommandByteStep
  <2>10. CASE ReadReply
    BY <1>1, <2>10, ReadReplyStep
  <2>11. CASE NoReply
    BY <1>1, <2>11, NoReplyStep
  <2>12. CASE SendUnlockKey
    BY <1>1, <2>12, SendUnlockKeyStep
  <2>13. CASE ReadKey
    BY <1>1, <2>13, ReadKeyStep
  <2>14. CASE NoKey
    BY <1>1, <2>14, NoKeyStep
  <2>15. CASE SendHeader
    BY <1>1, <2>15, SendHeaderStep
  <2>16. CASE SendData
    BY <1>1, <2>16, SendDataStep
  <2>17. CASE ReadData
    BY <1>1, <2>17, ReadDataStep
  <2>18. CASE HangUp
    BY <2>18 DEF HangUp, InSession
  <2> QED  BY <2>1, <2>2, <2>3, <2>4, <2>5, <2>6, <2>7, <2>8, <2>9, <2>10, <2>11, <2>12, <2>13,
              <2>14, <2>15, <2>16, <2>17, <2>18 DEF LinkNext, HostStep
<1>7. LineIsUp' /\ AfterHangUp'
  BY <1>1, HangUpSteps
<1> QED  BY <1>2, <1>3, <1>4, <1>5, <1>6, <1>7 DEF LinkInv

LEMMA LinkInvariant == ASSUME ShortWrites PROVE LinkSpec => []LinkInv
<1>1. LinkInit => LinkInv
  BY LinkInvInit
<1>2. LinkInv /\ [LinkNext]_link_vars => LinkInv'
  BY LinkInvStep
<1> QED  BY <1>1, <1>2, PTL DEF LinkSpec

LEMMA LinkInvIsTruthful ==
  LinkInv => SuccessMeansAccepted /\ AcceptedExactlyOnce /\ MemoryIsAsWritten /\ ReadReturnsMemory
<1> SUFFICES ASSUME LinkInv
    PROVE SuccessMeansAccepted /\ AcceptedExactlyOnce /\ MemoryIsAsWritten /\ ReadReturnsMemory
  OBVIOUS
<1>1. LinkTypeOK /\ InSession /\ AfterHangUp
  BY DEF LinkInv
<1>2. ASSUME disturbed \in {"no", "found"}, sent = "ok"
      PROVE  accepted = <<CommandByte(call)>> /\ CommandByte(call) \in Range(accepted)
  BY <1>1, <1>2, AcceptedWhenOk
<1>3. ASSUME disturbed = "no", pc \notin {"closed", "locking"}
      PROVE  Agreed
  BY <1>1, <1>3 DEF InSession, Finding
<1>4. SuccessMeansAccepted
  BY <1>1, <1>2 DEF SuccessMeansAccepted, AfterHangUp
<1>5. AcceptedExactlyOnce
  <2> SUFFICES ASSUME disturbed = "no", sent # "unknown"
      PROVE sent = "ok" /\ accepted = <<CommandByte(call)>>
    BY DEF AcceptedExactlyOnce
  <2>1. pc \notin {"closed", "locking"}
    BY <1>1 DEF InSession
  <2>2. sent # "failed"
    BY <1>3, <2>1 DEF Agreed, Outcome
  <2>3. sent = "ok"
    BY <1>1, <2>2 DEF LinkTypeOK
  <2> QED  BY <1>2, <2>3
<1>6. MemoryIsAsWritten
  <2> SUFFICES ASSUME pc = "prompt", disturbed = "no", AtRest
      PROVE memory = image /\ state \in {"LOCKED", "UNLOCKED"}
    BY DEF MemoryIsAsWritten
  <2>1. Settled(0)
    BY <1>3 DEF Agreed, AtPrompt
  <2>2. to_device = <<>> /\ state \notin MemoryStates
    BY RestFacts
  <2>3. ~Absorbing(0)
    <3>1. SUFFICES ASSUME Absorbing(0) PROVE FALSE
      OBVIOUS
    <3>2. /\ state \in HeaderStates \cup {"WRITE_IN"}
          /\ Len(to_device) = HeaderLeft + DataLeft + 0 /\ LineCount \in Nat
          /\ state = "WRITE_IN" => LineCount > 0
      <4>1. state \in HeaderStates \cup {"WRITE_START", "WRITE_IN", "WRITE_MEM"}
        BY <3>1 DEF Absorbing
      <4>2. LineCount \in 0..CountSpace - 1
        BY <3>1 DEF Absorbing, HeaderFits
      <4> QED  BY <2>2, <3>1, <4>1, <4>2, SpaceFacts DEF Absorbing, MemoryStates
    <3>3. Len(to_device) = 0
      BY <2>2
    <3>4. CASE state = "WRITE_IN"
      BY <3>2, <3>3, <3>4, StatesAre DEF HeaderLeft, DataLeft
    <3>5. CASE state \in HeaderStates
      <4>1. HeaderLeft \in 1..5 /\ DataLeft = LineCount
        BY <3>5, StatesAre DEF HeaderLeft, DataLeft
      <4> QED  BY <3>2, <3>3, <4>1
    <3> QED  BY <3>2, <3>4, <3>5
  <2>4. Listening(0)
    BY <2>1, <2>3 DEF Settled
  <2> QED  BY <2>2, <2>4 DEF Listening, Image, MemoryStates
<1>7. ReadReturnsMemory
  <2> SUFFICES ASSUME pc = "ended", success, call.op = "read", disturbed = "no"
      PROVE received = [i \in 1..call.size |-> image[(call.address + i - 1) % AddressSpace]]
    BY DEF ReadReturnsMemory
  <2>1. ReadIsRight
    BY <1>3 DEF Agreed, InEnded
  <2>2. received \in Seq(Byte) /\ Len(received) = call.size
    BY <1>1, <2>1 DEF LinkTypeOK, ReadIsRight
  <2>3. received = [i \in 1..call.size |-> received[i]]
    BY <2>2
  <2>4. \A i \in 1..call.size : received[i] = image[(call.address + i - 1) % AddressSpace]
    BY <2>1 DEF ReadIsRight
  <2> QED  BY <2>3, <2>4
<1> QED  BY <1>4, <1>5, <1>6, <1>7

\* When SendCommand returns true, the board has accepted the command: no byte
\* that it sent for another reason was taken for the reply, wherever in the key
\* or in a write the board had come to rest when sicfpga found it, and no line
\* that is hung up gave one.
THEOREM SuccessMeansAcceptedCorrect ==
  ASSUME ShortWrites PROVE LinkSpec => []SuccessMeansAccepted
<1>1. LinkInv => SuccessMeansAccepted
  BY LinkInvIsTruthful
<1> QED  BY <1>1, LinkInvariant, PTL

\* On an undisturbed link no command fails, and the board accepts each once,
\* although sicfpga sends it twice if the board was locked.
THEOREM AcceptedExactlyOnceCorrect ==
  ASSUME ShortWrites PROVE LinkSpec => []AcceptedExactlyOnce
<1>1. LinkInv => AcceptedExactlyOnce
  BY LinkInvIsTruthful
<1> QED  BY <1>1, LinkInvariant, PTL

\* The RAM holds what the successful WriteMemory calls sent, which the board
\* never acknowledges.
THEOREM MemoryIsAsWrittenCorrect ==
  ASSUME ShortWrites PROVE LinkSpec => []MemoryIsAsWritten
<1>1. LinkInv => MemoryIsAsWritten
  BY LinkInvIsTruthful
<1> QED  BY <1>1, LinkInvariant, PTL

\* ReadMemory returns the bytes of the RAM at its addresses.
THEOREM ReadReturnsMemoryCorrect ==
  ASSUME ShortWrites PROVE LinkSpec => []ReadReturnsMemory
<1>1. LinkInv => ReadReturnsMemory
  BY LinkInvIsTruthful
<1> QED  BY <1>1, LinkInvariant, PTL
=============================================================================
