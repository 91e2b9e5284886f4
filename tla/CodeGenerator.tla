---------------------------- MODULE CodeGenerator ----------------------------
(***************************************************************************)
(* The second pass of the assembler (code_generator.cc) and what it writes *)
(* (object_file_writer.cc).  It walks over the lines again with addresses  *)
(* of its own, chooses how every operand is addressed, and leaves text     *)
(* sections and relocation records.                                        *)
(***************************************************************************)
EXTENDS TableBuilder, ObjectFile

CONSTANT MaxTextSectionSize  \* bytes of a text section (30)

ASSUME CodeGeneratorAssumption == MaxTextSectionSize >= 4 /\ AddressLimit = AddressSize

VARIABLES
  block_addresses,  \* block_address_table_: where each block goes on
  base,             \* what BASE has promised of register B
  writer,           \* the object file writer: the text that is not yet in a section, and the rest
  listing,          \* the address that the writers were given for each line
  object_file       \* the object file, once it is complete

code_vars == <<block_addresses, base, writer, listing, object_file>>

-----------------------------------------------------------------------------
(***************************************************************************)
(* ObjectFileWriter.  The next byte of the section being written would     *)
(* have address writer.next_address.                                       *)
(***************************************************************************)
NoOutput == [address |-> 0, data |-> <<>>, next_address |-> 0, text |-> <<>>, relocations |-> <<>>]

CommitTextSection(w) ==
  IF w.data = <<>> THEN w
  ELSE [w EXCEPT !.text = Append(@, TextSection(w.address, w.data)),
                 !.data = <<>>, !.address = w.next_address]

\* A gap in the addresses ends the section.
MoveTo(w, address) ==
  IF w.next_address = address THEN w
  ELSE [CommitTextSection(w) EXCEPT !.address = address, !.next_address = address]

AppendText(w, data) ==
  [w EXCEPT !.data = @ \o data, !.next_address = @ + Len(data)]

Room(w) == MaxTextSectionSize - Len(w.data)

\* Bytes that may be split fill the section up first.
AppendSplit(w, data) ==
  FoldLeft(LAMBDA v, byte : AppendText(IF Room(v) = 0 THEN CommitTextSection(v) ELSE v, <<byte>>),
           w, data)

AppendWhole(w, data) ==
  AppendText(IF Len(data) > Room(w) THEN CommitTextSection(w) ELSE w, data)

\* Mutant: every node may be split.
WriteNodeSplit(w, address, data, can_split) == AppendSplit(MoveTo(w, address), data)

WriteNode(w, address, data, can_split) ==
  IF can_split THEN AppendSplit(MoveTo(w, address), data)
               ELSE AppendWhole(MoveTo(w, address), data)

WriteRelocations(w, records) == [w EXCEPT !.relocations = @ \o records]

\* ObjectFileWriter::End.
Finished(w) ==
  LET Selected(Test(_)) == {name \in DOMAIN symbol_table : Test(symbol_table[name])}
  IN  [start_address |-> start_address,
       code_size |-> end_address - start_address,
       entry_point |-> entry_point,
       text |-> CommitTextSection(w).text,
       exports |-> [name \in Selected(LAMBDA entry : entry.type = "INTERNAL" /\ entry.exported)
                      |-> symbol_table[name].address],
       imports |-> Selected(LAMBDA entry : entry.type = "EXTERNAL" /\ entry.referenced),
       relocations |-> w.relocations]

-----------------------------------------------------------------------------
(***************************************************************************)
(* The choice of addressing for the operand of a format 3 or 4 instruction *)
(* with a value; "relocations" are those of its address field.             *)
(***************************************************************************)
NoBase == [enabled |-> FALSE, relative |-> FALSE, address |-> 0]

InstanceOf(node) ==
  [format |-> "FS34", mnemonic |-> node.mnemonic,
   n |-> node.addressing # "IMMEDIATE", i |-> node.addressing # "INDIRECT",
   x |-> node.indexed, b |-> FALSE, p |-> FALSE, e |-> node.extended, address |-> 0]

\* An instruction without operand.
BareInstance(node) ==
  [InstanceOf(node) EXCEPT !.n = node.extended, !.i = node.extended, !.x = FALSE]

PCOffset(value) == value - (current_address + 3)

HalfDisplacement == DisplacementSize \div 2

PCRelativeReaches(solved) ==
  /\ solved.relative
  /\ -HalfDisplacement <= PCOffset(solved.value)
  /\ PCOffset(solved.value) < HalfDisplacement

\* Mutant: whether the base moves with the program is not compared.
BaseReachesAny(solved) ==
  base.enabled /\ solved.value - base.address \in 0 .. DisplacementSize - 1

BaseReaches(solved) ==
  /\ base.enabled
  /\ solved.relative = base.relative
  /\ solved.value - base.address \in 0 .. DisplacementSize - 1

DirectReaches(node, solved) ==
  solved.value < (IF node.extended THEN AddressSize ELSE DisplacementSize)

SICSize == DisplacementSize * 8

SICReaches(node, solved) ==
  /\ node.addressing \in {"SIMPLE", "LITERAL_POOL"}
  /\ solved.value < SICSize
  /\ ExternalSymbols(solved) = <<>>
  /\ ~solved.relative

\* The records of a field that holds the value of an expression.
FieldRelocations(solved, address, nibbles) ==
  LET externals == ExternalSymbols(solved)
  IN  IF externals # <<>>
      THEN [k \in DOMAIN externals |->
              RelocationSymbol(address, nibbles, externals[k].sign, externals[k].name)]
      ELSE IF solved.relative THEN <<RelocationSimple(address, nibbles)>> ELSE <<>>

Chosen(instance, relocations) == {[instance |-> instance, relocations |-> relocations]}

\* The first of PC-relative, base, direct and SIC addressing that reaches; empty
\* if none does.
SelectAddressing(node, solved) ==
  LET instance == InstanceOf(node)
      short == ExternalSymbols(solved) = <<>> /\ ~node.extended
  IN  IF short /\ PCRelativeReaches(solved)
      THEN Chosen([instance EXCEPT !.p = TRUE,
                                   !.address = PCOffset(solved.value) % DisplacementSize], <<>>)
      ELSE IF short /\ BaseReaches(solved)
      THEN Chosen([instance EXCEPT !.b = TRUE, !.address = solved.value - base.address], <<>>)
      ELSE IF DirectReaches(node, solved)
      THEN Chosen([instance EXCEPT !.address = solved.value],
                  FieldRelocations(solved, current_address + 1, IF node.extended THEN 5 ELSE 3))
      ELSE IF SICReaches(node, solved)
      THEN Chosen([instance EXCEPT !.n = FALSE, !.i = FALSE, !.address = solved.value], <<>>)
      ELSE {}

-----------------------------------------------------------------------------
(***************************************************************************)
(* The visits.                                                             *)
(***************************************************************************)
Generating(kinds) == phase = "code" /\ position <= Len(nodes) /\ Node.kind \in kinds

\* WriteNode with the data of a line, after its relocation records.
Emit(data, can_split, relocations) ==
  /\ writer' = WriteNode(WriteRelocations(writer, relocations), current_address, data, can_split)
  /\ listing' = Append(listing, current_address)

\* WriteNode of a line without data, at the address the line has set.
List(address) ==
  /\ listing' = Append(listing, address)
  /\ UNCHANGED writer

Continue(address) ==
  /\ position' = position + 1
  /\ current_address' = address

Value(expression) == Solve(expression, symbol_table, TRUE)

InstructionValue(node) ==
  IF UsesLiteral(node)
  THEN LET entry == symbol_table[LiteralSymbolName(node.literal_id)]
       IN  [ok |-> TRUE, value |-> entry.address, relative |-> entry.relative,
            externals |-> <<>>]
  ELSE Value(node.expression)

\* The ways an instruction may be encoded; none is an error.
FS34Choices(node) ==
  IF node.syntax = "NONE" THEN Chosen(BareInstance(node), <<>>)
  ELSE IF InLimits(InstructionValue(node), 0, WordSize - 1)
  THEN SelectAddressing(node, InstructionValue(node)) ELSE {}

InitWidth(node) == IF node.width = "WORD" THEN 3 ELSE 1

InitFits(node) ==
  node.data # NoData \/ InLimits(Value(node.expression), Minimum(InitWidth(node)),
                                 Maximum(InitWidth(node)))

BaseFits(node) ==
  InLimits(Solve(node.expression, symbol_table, FALSE), 0, AddressSize - 1)

Generated(node) == CASE node.kind = "FS34" -> FS34Choices(node) # {}
                     [] node.kind = "INIT" -> InitFits(node)
                     [] node.kind = "BASE" -> BaseFits(node)
                     [] OTHER              -> TRUE

\* The message for a literal that cannot be addressed is placed at its expression;
\* a literal given as data has none, and the code reads the first token of an
\* empty list.
Refuse ==
  /\ Generating({Node.kind}) /\ ~Generated(Node)
  /\ \/ phase' = "failed"
     \/ UsesLiteral(Node) /\ Node.expression = <<>> /\ phase' = "crashed"
  /\ UNCHANGED <<nodes, position, table_vars, code_vars, current_block, current_address>>

BeginCode ==
  /\ phase = "begin"
  /\ phase' = "code" /\ position' = 1
  /\ block_addresses' = [block \in DOMAIN block_table |-> block_table[block].start]
  /\ base' = NoBase
  /\ current_block' = 0 /\ current_address' = 0
  /\ UNCHANGED <<nodes, table_vars, writer, listing, object_file>>

GenerateInstruction ==
  /\ Generating({"F1", "F2"})
  /\ LET opcode == Opcode[Node.mnemonic]
     IN  Emit(IF Node.kind = "F1" THEN Encode(opcode, [format |-> "F1"])
              ELSE Encode(opcode, [format |-> "F2", r1 |-> Node.r1, r2 |-> Node.r2]),
              TRUE, <<>>)
  /\ Continue(current_address + NodeSize(Node))
  /\ UNCHANGED <<nodes, phase, table_vars, current_block, block_addresses, base, object_file>>

GenerateFS34 ==
  /\ Generating({"FS34"})
  /\ \E choice \in FS34Choices(Node) :
       Emit(Encode(Opcode[Node.mnemonic], choice.instance), choice.relocations = <<>>,
            choice.relocations)
  /\ Continue(current_address + NodeSize(Node))
  /\ UNCHANGED <<nodes, phase, table_vars, current_block, block_addresses, base, object_file>>

GenerateInit ==
  /\ Generating({"INIT"}) /\ InitFits(Node)
  /\ IF Node.data # NoData THEN Emit(Node.data, TRUE, <<>>)
     ELSE LET size == InitWidth(Node)
              solved == Value(Node.expression)
              relocations == FieldRelocations(solved, current_address, 2 * size)
          IN  Emit(BytesOf(solved.value % ByteSize ^ size, size), relocations = <<>>, relocations)
  /\ Continue(current_address + NodeSize(Node))
  /\ UNCHANGED <<nodes, phase, table_vars, current_block, block_addresses, base, object_file>>

GenerateReserve ==
  /\ Generating({"RESERVE"})
  /\ List(current_address)
  /\ Continue(current_address + (IF Node.width = "WORD" THEN 3 * Node.reservation_size
                                 ELSE Node.reservation_size))
  /\ UNCHANGED <<nodes, phase, table_vars, current_block, block_addresses, base, object_file>>

GenerateLiteral ==
  /\ Generating({"LITERAL"})
  /\ LET bytes == literal_table[Node.literal_id + 1]
     IN  Emit(bytes, TRUE, <<>>) /\ Continue(current_address + Len(bytes))
  /\ UNCHANGED <<nodes, phase, table_vars, current_block, block_addresses, base, object_file>>

\* Where the blocks go on once the current one is left.
LeftBlocks ==
  IF current_block = -1 THEN block_addresses
  ELSE [block_addresses EXCEPT ![current_block] = current_address]

\* START, ORG and USE go on in a block at an address.
GoTo(block, address) ==
  /\ List(address)
  /\ Continue(address)
  /\ current_block' = block
  /\ UNCHANGED <<nodes, phase, table_vars, base, object_file>>

GenerateStart ==
  /\ Generating({"START"})
  /\ GoTo(0, block_addresses[0])
  /\ UNCHANGED block_addresses

GenerateOrg ==
  /\ Generating({"ORG"})
  /\ block_addresses' = LeftBlocks
  /\ GoTo(-1, Node.address)

GenerateUse ==
  /\ Generating({"USE"})
  /\ block_addresses' = LeftBlocks
  /\ GoTo(Node.block_id, LeftBlocks[Node.block_id])

GenerateBase ==
  /\ Generating({"BASE", "NOBASE"}) /\ Generated(Node)
  /\ base' = IF Node.kind = "NOBASE" THEN [base EXCEPT !.enabled = FALSE]
             ELSE LET solved == Solve(Node.expression, symbol_table, FALSE)
                  IN  [enabled |-> TRUE, relative |-> solved.relative, address |-> solved.value]
  /\ List(current_address)
  /\ Continue(current_address)
  /\ UNCHANGED <<nodes, phase, table_vars, current_block, block_addresses, object_file>>

GenerateNothing ==
  /\ Generating({"EMPTY", "END", "EQU", "LTORG", "EXTDEF", "EXTREF"})
  /\ List(current_address)
  /\ Continue(current_address)
  /\ UNCHANGED <<nodes, phase, table_vars, current_block, block_addresses, base, object_file>>

EndCode ==
  /\ phase = "code" /\ position > Len(nodes)
  /\ phase' = "done"
  /\ object_file' = Finished(writer)
  /\ UNCHANGED <<nodes, position, table_vars, current_block, current_address, block_addresses,
                 base, writer, listing>>

CodeInit ==
  /\ block_addresses = <<>>
  /\ base = NoBase
  /\ writer = NoOutput
  /\ listing = <<>>
  /\ object_file = <<>>

GenerateCode ==
  \/ BeginCode \/ GenerateInstruction \/ GenerateFS34 \/ GenerateInit \/ GenerateReserve
  \/ GenerateLiteral \/ GenerateStart \/ GenerateOrg \/ GenerateUse \/ GenerateBase
  \/ GenerateNothing \/ Refuse \/ EndCode

=============================================================================
