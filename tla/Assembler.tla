------------------------------ MODULE Assembler ------------------------------
(***************************************************************************)
(* The assembler (main_asm.cc): the parser, and then the two passes one    *)
(* after the other on the same lines.  The properties compare the lines    *)
(* with the text, follow the output through the linker and the decoder of  *)
(* the machine, and compare what a program means there with what its lines *)
(* say.                                                                    *)
(***************************************************************************)
EXTENDS CodeGenerator, Parser

CONSTANTS Names,          \* what the tokenizer takes for a name
          Programs,       \* sequences of lines that the syntax has a text for
          OtherTexts,     \* files, right and wrong ones
          LoadAddresses,  \* values of sicld -a
          Library         \* object file that defines what the programs import

VARIABLES
  text,  \* the file that is assembled
  meant  \* history: the program it was written for, or none

L == INSTANCE Linker WITH Modules <- {}, StartAddresses <- LoadAddresses, MaxInputs <- 2,
                          MaxFiles <- 3, directory <- <<>>

vars == <<text, meant, nodes, position, phase, table_vars, code_vars, current_block, current_address>>

-----------------------------------------------------------------------------
(***************************************************************************)
(* The tokens that a line stands for.                                      *)
(***************************************************************************)
WithCommas(tokens) ==
  FlattenSeq([k \in DOMAIN tokens |->
    IF k = 1 THEN <<tokens[k]>> ELSE <<Operator(","), tokens[k]>>])

WrittenTerm(term) ==
  <<term.operand>> \o FlattenSeq([k \in DOMAIN term.factors |->
                                    <<Operator(term.factors[k].op), term.factors[k].operand>>])

WrittenExpression(expression) ==
  FlattenSeq([k \in DOMAIN expression |->
    (IF expression[k].sign = -1 THEN <<Operator("-")>>
     ELSE IF k = 1 THEN <<>> ELSE <<Operator("+")>>) \o WrittenTerm(expression[k])])

WrittenValue(line) ==
  IF line.data = NoData THEN WrittenExpression(line.expression)
                        ELSE <<Data("DATA_BIN", line.data)>>

RegisterName(id) == Name(CHOOSE name \in DOMAIN RegisterId : RegisterId[name] = id)

WrittenF2(line) ==
  WithCommas(CASE Syntax(line.mnemonic) = "REG"   -> <<RegisterName(line.r1)>>
               [] Syntax(line.mnemonic) = "REG_N" -> <<RegisterName(line.r1), Number(line.r2)>>
               [] OTHER -> <<RegisterName(line.r1), RegisterName(line.r2)>>)

WrittenFS34(line) ==
  (CASE line.addressing = "LITERAL_POOL" -> <<Operator("=")>>
     [] line.addressing = "IMMEDIATE"    -> <<Operator("#")>>
     [] line.addressing = "INDIRECT"     -> <<Operator("@")>>
     [] OTHER                            -> <<>>)
  \o WrittenValue(line) \o (IF line.indexed THEN <<Operator(","), Name("X")>> ELSE <<>>)

WrittenMnemonic(line) ==
  CASE line.kind \in {"F1", "F2", "FS34"} -> line.mnemonic
    [] line.kind = "INIT"    -> line.width
    [] line.kind = "RESERVE" -> IF line.width = "WORD" THEN "RESW" ELSE "RESB"
    [] OTHER                 -> line.kind

WrittenOperands(line) ==
  CASE line.kind = "F2"   -> WrittenF2(line)
    [] line.kind = "FS34" -> WrittenFS34(line)
    [] line.kind = "INIT" -> WrittenValue(line)
    [] line.kind = "USE"  ->
         IF line.block_name = DefaultBlock THEN <<>> ELSE <<Name(line.block_name)>>
    [] line.kind = "EQU" /\ line.assign_current_address -> <<Operator("*")>>
    [] line.kind \in {"EXTDEF", "EXTREF"} ->
         WithCommas([k \in DOMAIN line.symbol_list |-> Name(line.symbol_list[k])])
    [] OTHER -> WrittenExpression(line.expression)

Written(line) ==
  IF line.kind = "EMPTY" THEN <<>>
  ELSE (IF line.label = NoLabel THEN <<>> ELSE <<Name(line.label)>>)
       \o (IF line.kind = "FS34" /\ line.extended THEN <<Operator("+")>> ELSE <<>>)
       \o <<Name(WrittenMnemonic(line))>> \o WrittenOperands(line)

TextOf(program) ==
  [case_sensitive |-> FALSE, allow_brackets |-> TRUE,
   lines |-> [k \in DOMAIN program |->
                TextLine(Written(program[k]), program[k].label = NoLabel, FALSE)]]

Token ==
  [type : {"NAME"}, name : Names] \cup [type : {"INTEGER"}, integer : Nat]
    \cup [type : {"OPERATOR"}, operator : STRING]
    \cup [type : {"DATA_BIN", "DATA_FLOAT"}, data : Seq(Int)] \cup [type : {"COMMENT"}]

\* A file whose lines are tokens.
IsText(file) ==
  /\ file.lines \in Seq({file.lines[k] : k \in DOMAIN file.lines})
  /\ \A k \in DOMAIN file.lines : file.lines[k].tokens \in Seq(Token)

ASSUME TextsAssumption ==
  /\ Names \subseteq STRING
  /\ \A program \in Programs : IsText(TextOf(program))
  /\ \A file \in OtherTexts : IsText(file)

-----------------------------------------------------------------------------
Init ==
  /\ \/ \E program \in Programs : meant = program /\ text = TextOf(program)
     \/ meant = <<>> /\ text \in OtherTexts
  /\ TablesInit /\ CodeInit

Parse ==
  /\ phase = "parse"
  /\ \E parsed \in {ParseFile(text)} :
       \/ parsed = {} /\ phase' = "failed" /\ UNCHANGED nodes
       \/ nodes' \in parsed /\ phase' = "tables"
  /\ UNCHANGED <<position, table_vars, code_vars, current_block, current_address>>

Next ==
  /\ Parse \/ (BuildTables /\ UNCHANGED code_vars) \/ GenerateCode
  /\ UNCHANGED <<text, meant>>

Spec == Init /\ [][Next]_vars

-----------------------------------------------------------------------------
(***************************************************************************)
(* The parser.                                                             *)
(***************************************************************************)
\* A token as it is read: a mnemonic in lower case is one in upper case, and the
\* bytes of a constant count, not how they were written.
Read(token) ==
  CASE IsData(token) -> Data("DATA_BIN", token.data)
    [] IsName(token) /\ ~text.case_sensitive /\ token.name \in DOMAIN Uppercase ->
         Name(Uppercase[token.name])
    [] OTHER -> token

\* What may be left out of a line: comment, brackets, and the '+' of an instruction
\* without operand.
Matters(line, token) ==
  /\ token.type # "COMMENT"
  /\ ~IsOperator(token, {"[", "]"})
  /\ IsOperator(token, {"+"}) => ~(line.kind = "FS34" /\ line.syntax = "NONE")

SaysWhatIsWritten(line, text_line) ==
  LET mattering == SelectSeq(text_line.tokens, LAMBDA token : Matters(line, token))
      written == Written(line)
  IN  [k \in DOMAIN written |-> Read(written[k])]
        = [k \in DOMAIN mattering |-> Read(mattering[k])]

\* The parser leaves nothing of a file unread and makes nothing up: the lines it
\* accepts stand for all the tokens of the text, in their order.  A text that was
\* written for a program is accepted, and read as that program.
LinesSayWhatIsWritten ==
  /\ phase = "tables" /\ position = 1 =>
       /\ Len(nodes) = Len(text.lines)
       /\ \A k \in DOMAIN nodes : SaysWhatIsWritten(nodes[k], text.lines[k])
       /\ meant # <<>> => nodes = meant
  /\ phase = "failed" /\ nodes = <<>> => meant = <<>>

-----------------------------------------------------------------------------
(***************************************************************************)
(* The two passes.                                                         *)
(***************************************************************************)
IsLabelled(node) ==
  node.label # NoLabel /\ (node.kind = "EQU" => node.assign_current_address)

\* The second pass comes to every label and every literal at the address that the
\* first pass gave it and that operands were encoded with, across ORG, USE and the
\* pools inserted on the way.
PassesAgree ==
  \A i \in DOMAIN listing :
    /\ IsLabelled(nodes[i]) => symbol_table[nodes[i].label].address = listing[i]
    /\ nodes[i].kind = "LITERAL"
         => symbol_table[LiteralSymbolName(nodes[i].literal_id)].address = listing[i]

\* What a symbol stands for never changes once it is defined: expressions that
\* the first pass has already evaluated with it would be wrong.
DefinitionsStand ==
  [][\A name \in DOMAIN symbol_table :
       symbol_table[name].defined =>
         LET before == symbol_table[name]
             after == symbol_table'[name]
         IN  /\ <<after.type, after.block, after.block_address, after.relative>>
                  = <<before.type, before.block, before.block_address, before.relative>>
             /\ before.resolved => after.address = before.address]_vars

\* The addresses a line takes up.
Extent(i) ==
  LET node == nodes[i]
      size == CASE node.kind = "RESERVE" -> node.reservation_size
                                              * (IF node.width = "WORD" THEN 3 ELSE 1)
                [] node.kind = "LITERAL" -> Len(literal_table[node.literal_id + 1])
                [] node.kind \in {"F1", "F2", "FS34", "INIT"} -> NodeSize(node)
                [] OTHER -> 0
  IN  [first |-> listing[i], next |-> listing[i] + size]

\* No two lines of an assembled program share an address, reserved memory
\* included, wherever ORG and the blocks put them; all are inside the program.
LinesAreDisjoint ==
  phase = "done" =>
    \A i \in DOMAIN listing : Extent(i).first < Extent(i).next =>
      /\ start_address <= Extent(i).first /\ Extent(i).next <= end_address
      /\ \A j \in DOMAIN listing :
           i < j /\ Extent(j).first < Extent(j).next =>
             Extent(i).next <= Extent(j).first \/ Extent(j).next <= Extent(i).first

-----------------------------------------------------------------------------
(***************************************************************************)
(* The output.                                                             *)
(***************************************************************************)
Output == Saved(object_file)

ExportsInside ==
  \A name \in DOMAIN Output.exports :
    start_address <= Output.exports[name] /\ Output.exports[name] < end_address

\* The linker takes what the assembler writes, and leaves it as it is when it need
\* not move it: every relocated field is whole within a text section and has
\* one set of records.  (A symbol exported from outside of the program, as by
\* "last EQU *" on its last line, is what the linker refuses.)
OutputLinks ==
  phase = "done" /\ ExportsInside =>
    \E linked \in L!LinkFiles(FALSE, TRUE, start_address, <<Output>>) :
      L!SameUpToOrder(linked, Output)

-----------------------------------------------------------------------------
(***************************************************************************)
(* What the program means once it is linked to an address.                 *)
(***************************************************************************)
Linked(load) == L!LinkFiles(FALSE, FALSE, load, <<Output, Library>>)

SymbolMeaning(load, name) ==
  LET entry == symbol_table[name]
  IN  IF entry.type = "EXTERNAL"
      THEN load + Output.code_size + Library.exports[name] - Library.start_address
      ELSE IF entry.relative THEN entry.address + load - start_address ELSE entry.address

OperandMeaning(load, operand) ==
  IF operand.type = "INTEGER" THEN operand.integer ELSE SymbolMeaning(load, operand.name)

TermMeaning(load, term) ==
  FoldLeft(LAMBDA value, factor :
             IF factor.op = "*" THEN value * OperandMeaning(load, factor.operand)
                                ELSE value \div OperandMeaning(load, factor.operand),
           OperandMeaning(load, term.operand), term.factors)

Meaning(load, expression) ==
  FoldLeft(LAMBDA value, term : value + (term.sign * TermMeaning(load, term)), 0, expression)

\* Register B holds what the BASE directive in force says.
BaseMeaning(load, i) ==
  LET directives == {k \in 1 .. i - 1 : nodes[k].kind \in {"BASE", "NOBASE"}}
  IN  IF directives = {} THEN 0 ELSE Meaning(load, nodes[Max(directives)].expression)

LoadedByte(program, address) ==
  IF address \in L!TextAddresses(program) THEN L!ByteAt(program, address) ELSE 0

LoadedBytes(program, address, size) ==
  [k \in 1 .. size |-> LoadedByte(program, address + k - 1)]

\* The instance that the machine decodes at an address, and the target address
\* it computes (TargetAddress of Machine, without what X adds).
DecodedAt(program, address) ==
  Decode(DefaultInstructions, LoadedByte(program, address), LoadedByte(program, address + 1),
         LoadedByte(program, address + 2), LoadedByte(program, address + 3))

Target(instance, address, register_b) ==
  TrimWord((IF instance.p THEN SignExtendF3Operand(instance.address) + address + 3
                          ELSE instance.address)
           + (IF instance.b THEN register_b ELSE 0))

LiteralMeaning(load, node) ==
  LET size == LiteralSize(node.syntax)
  IN  IF node.data = NoData
      THEN BytesOf(Meaning(load, node.expression) % ByteSize ^ size, size)
      ELSE Padded(node.data, size)

HasAddressing(instance, addressing) ==
  CASE addressing = "IMMEDIATE" -> ~instance.n /\ instance.i
    [] addressing = "INDIRECT"  -> instance.n /\ ~instance.i
    [] OTHER                    -> instance.n = instance.i

\* The machine refuses other combinations (ExecuteInvalidAddressing of Machine).
IsExecuted(instance) ==
  LET syntax == Syntax(instance.mnemonic)
      immediate == ~instance.n /\ instance.i
  IN  /\ instance.x => instance.n = instance.i
      /\ IsStore(syntax) \/ syntax = "LOAD_F" => ~immediate

InstructionMeans(program, load, i) ==
  LET node == nodes[i]
      address == listing[i] + load - start_address
      instance == DecodedAt(program, address)
      target == Target(instance, address, BaseMeaning(load, i))
  IN  /\ instance.format = node.kind /\ instance.mnemonic = node.mnemonic
      /\ node.kind = "FS34" => IsExecuted(instance)
      /\ node.kind = "F2" => instance.r1 = node.r1 /\ instance.r2 = node.r2
      /\ node.kind = "FS34" /\ node.syntax # "NONE" =>
           /\ instance.x = node.indexed
           /\ HasAddressing(instance, node.addressing)
           /\ IF UsesLiteral(node)
              THEN LoadedBytes(program, target, LiteralSize(node.syntax))
                     = LiteralMeaning(load, node)
              ELSE target = TrimWord(Meaning(load, node.expression))

DataMeans(program, load, i) ==
  LET node == nodes[i]
      address == listing[i] + load - start_address
      size == InitWidth(node)
  IN  IF node.data # NoData THEN LoadedBytes(program, address, Len(node.data)) = node.data
      ELSE LoadedBytes(program, address, size)
             = BytesOf(Meaning(load, node.expression) % ByteSize ^ size, size)

\* Wherever the program is linked to, if the linker succeeds: each instruction
\* decodes to the one its line names and addresses the value of its operand at
\* that place, in a way that the machine executes, and a constant has the value of
\* its expression there.
ProgramMeans ==
  phase = "done" =>
    \A load \in LoadAddresses : \A program \in Linked(load) : \A i \in DOMAIN nodes :
      /\ nodes[i].kind \in {"F1", "F2", "FS34"} => InstructionMeans(program, load, i)
      /\ nodes[i].kind = "INIT" => DataMeans(program, load, i)

=============================================================================
