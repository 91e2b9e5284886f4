---------------------------- MODULE MCAssembler -----------------------------
(***************************************************************************)
(* Two families of programs and two of texts.  The layouts are all orders  *)
(* of a few short lines that define symbols, move the address, change the  *)
(* block or write a pool.  The operands are one instruction or constant    *)
(* with every kind of expression, addressing and base, at the distances    *)
(* from its target where one addressing stops reaching and the next is     *)
(* chosen.  The edited lines are lines of every kind with one token        *)
(* inserted, replaced or left out; the files are a few lines in any order. *)
(***************************************************************************)
EXTENDS Assembler

Label(name) == <<Plus(Name(name))>>
Constant(value) == <<Plus(Number(value))>>

MCLibrary ==
  [start_address |-> 0, code_size |-> 3, entry_point |-> 0, text |-> <<>>,
   exports |-> [ext |-> 1], imports |-> {}, relocations |-> <<>>]

Program(start, body) ==
  <<Start("p", Constant(start))>> \o body \o <<End(Label("p"))>>

-----------------------------------------------------------------------------
LiteralByte ==
  InstructionFS34(NoLabel, "LDCH", "LOAD_B", "LITERAL_POOL", FALSE, FALSE, Constant(5))

LayoutLines ==
  { InitData("a", "BYTE", <<7>>),
    InitValue("b", "WORD", Label("a")),
    LiteralByte,
    Plain("LTORG"),
    Use("blk"), Use(DefaultBlock),
    Org(Constant(8)),
    EquHere("c"),
    Reserve("e", "WORD", Constant(2)) }

RareLines ==
  { InitData("a", "WORD", <<1, 2, 3, 4>>),
    Equ("d", <<Plus(Name("a")), Plus(Number(1))>>),
    Equ("d", <<Plus(Name("a")), Minus(Name("p"))>>),
    Org(<<Plus(Name("d"))>>),
    Reserve("d", "BYTE", Constant(AddressSize - 4)),
    InitValue(NoLabel, "WORD", Label("d")),
    Symbols("EXTDEF", <<"a", "d">>),
    Symbols("EXTREF", <<"a">>),
    InstructionF1("f", "FIX"),
    InstructionF2(NoLabel, "ADDR", 3, 5),
    InstructionF2(NoLabel, "SHIFTL", 3, 15),
    InstructionFS34(NoLabel, "RSUB", "NONE", "SIMPLE", FALSE, FALSE, <<>>),
    InstructionFS34("f", "LDCH", "LOAD_B", "INDIRECT", TRUE, FALSE, Label("a")),
    LiteralData(InstructionFS34(NoLabel, "LDF", "LOAD_F", "LITERAL_POOL", FALSE, FALSE, <<>>),
                <<64, 1>>) }

Layouts ==
  { Program(2, body) : body \in [1 .. 4 -> LayoutLines] }
    \cup { Program(2, <<InitData("a", "BYTE", <<7>>)>> \o body) :
             body \in { <<line, other, rare>> : line, other \in LayoutLines, rare \in RareLines }
                 \cup { <<rare, other>> : other \in LayoutLines, rare \in RareLines } }

-----------------------------------------------------------------------------
Expressions ==
  { Label("t"),
    <<Plus(Name("t")), Plus(Number(1))>>,
    <<Plus(Name("t")), Minus(Name("p"))>>,
    <<Plus(Name("t")), Plus(Name("t"))>>,
    Label("ext"),
    <<Plus(Name("ext")), Plus(Number(4095))>>,
    <<Plus(Name("ext")), Minus(Name("p"))>>,
    <<Plus(Name("ext")), Minus(Name("t"))>>,
    <<Minus(Name("t")), Plus(Number(9)), Plus(Name("p"))>>,
    <<Term(1, Number(4096), <<[op |-> "*", operand |-> Number(3)],
                              [op |-> "/", operand |-> Number(2)]>>)>> }
  \cup { Constant(value) : value \in {4095, 4096, 32767, 32768, 1048575, 1048576} }

Instruction(addressing, extended, indexed, expression) ==
  InstructionFS34(NoLabel, "LDA", "LOAD_W", addressing, extended, indexed, expression)

Operands1 ==
  { Instruction(mode[1], extended, mode[2], expression) :
      mode \in {<<"IMMEDIATE", FALSE>>, <<"INDIRECT", FALSE>>, <<"SIMPLE", FALSE>>, <<"SIMPLE", TRUE>>},
      extended \in BOOLEAN, expression \in Expressions }
  \cup { Instruction("LITERAL_POOL", FALSE, FALSE, Constant(5)),
         LiteralData(Instruction("LITERAL_POOL", FALSE, FALSE, <<>>), <<1, 2>>),
         Instruction("LITERAL_POOL", TRUE, FALSE, Constant(5)) }
  \cup { InitValue(NoLabel, width, expression) :
           width \in {"BYTE", "WORD"}, expression \in Expressions }

Bases == { <<>>, <<Base(Label("p"))>>, <<Base(Constant(1))>>, <<Base(Constant(4096))>>,
           <<Base(Label("p")), Plain("NOBASE")>> }

\* Three bytes right before the operand leave too little room in its text section.
Surrounded(line) == <<InitData(NoLabel, "BYTE", <<1, 2, 3>>), line>>

Gap(size) == <<Reserve(NoLabel, "BYTE", Constant(size))>>

Target1 == <<InitData("t", "BYTE", <<7>>)>>

Behind == { Target1 \o Gap(size) \o Surrounded(line) : size \in {2041, 2042}, line \in Operands1 }
Ahead ==
  { Surrounded(line) \o Gap(size) \o Target1 :
      size \in {2047, 2048, 3989, 3990, 4089, 4090}, line \in Operands1 }

OperandProgram(start, directives, body) ==
  Program(start, <<Symbols("EXTREF", <<"ext">>)>> \o directives \o body)

OperandPrograms ==
  { OperandProgram(100, directives, body) : directives \in Bases, body \in Behind \cup Ahead }
  \cup { OperandProgram(0, <<>>, body) : body \in Behind \cup Ahead }

MCPrograms == Layouts \cup OperandPrograms

-----------------------------------------------------------------------------
SampleLines ==
  { InstructionF1("t", "FIX"),
    InstructionF2(NoLabel, "CLEAR", 1, 0),
    InstructionF2(NoLabel, "RMO", 0, 3),
    InstructionF2("t", "SHIFTR", 4, 9),
    InstructionFS34(NoLabel, "RSUB", "NONE", "SIMPLE", FALSE, FALSE, <<>>),
    InstructionFS34(NoLabel, "LDA", "LOAD_W", "SIMPLE", TRUE, TRUE, Label("a")),
    InstructionFS34(NoLabel, "LDCH", "LOAD_B", "IMMEDIATE", FALSE, FALSE,
                    <<Plus(Name("a")), Minus(Name("p"))>>),
    InstructionFS34(NoLabel, "COMP", "LOAD_W", "INDIRECT", FALSE, FALSE, Label("a")),
    InstructionFS34("t", "LDA", "LOAD_W", "LITERAL_POOL", FALSE, FALSE, Constant(4)),
    LiteralData(InstructionFS34(NoLabel, "LDF", "LOAD_F", "LITERAL_POOL", FALSE, FALSE, <<>>),
                <<64, 1>>),
    InstructionFS34(NoLabel, "STA", "STORE_W", "SIMPLE", FALSE, TRUE, Label("a")),
    InstructionFS34(NoLabel, "STF", "STORE_F", "INDIRECT", FALSE, FALSE, Label("a")),
    Org(Constant(40)),
    EquHere("t"),
    Equ("t", <<Plus(Name("a")), Plus(Number(1))>>),
    Use(DefaultBlock),
    Plain("LTORG"),
    Base(Label("a")),
    Plain("NOBASE"),
    Symbols("EXTDEF", <<"a", "b">>),
    Symbols("EXTREF", <<"ext">>),
    InitData("t", "BYTE", <<7>>),
    InitValue(NoLabel, "WORD", <<Term(1, Number(3), <<[op |-> "*", operand |-> Number(2)]>>)>>),
    Reserve("t", "WORD", Constant(2)),
    Plain("EMPTY") }

Samples == {TextLine(Written(line), line.label = NoLabel, FALSE) : line \in SampleLines}

Tokens ==
  { Name("a"), Name("X"), Name("lda"), Name("toolong"), Number(3), Number(20),
    Data("DATA_BIN", <<1>>), Data("DATA_BIN", <<1, 2, 3, 4, 5, 6, 7>>),
    Data("DATA_FLOAT", <<64, 8, 0, 0, 0, 0>>) }
  \cup {Operator(operator) : operator \in {"+", "-", "*", ",", "[", "]", "=", "#", "@"}}

EditedTokens(tokens) ==
  { RemoveAt(tokens, k) : k \in DOMAIN tokens }
  \cup { ReplaceAt(tokens, k, token) : k \in DOMAIN tokens, token \in Tokens }
  \cup { InsertAt(tokens, k, token) : k \in 1 .. Len(tokens) + 1, token \in Tokens }
  \cup { Append(tokens, Comment) }

EditedLines ==
  UNION { { [line EXCEPT !.tokens = tokens] : tokens \in EditedTokens(line.tokens) } :
            line \in Samples }
  \cup { [line EXCEPT !.indented = ~@] : line \in Samples }
  \cup { [line EXCEPT !.apart = TRUE] : line \in Samples }

\* Lines whose reading depends on the options.
OptionLines ==
  { TextLine(<<Name("lda"), Operator("#"), Operator("["), Name("a"), Operator("]")>>, TRUE, FALSE),
    TextLine(<<Name("LDA"), Operator("="), Operator("["), Number(3), Operator("]")>>, TRUE, FALSE),
    TextLine(<<Name("lda"), Name("a"), Operator(","), Name("x")>>, TRUE, FALSE),
    TextLine(<<Name("ltorg")>>, TRUE, FALSE),
    TextLine(<<Operator("+"), Name("RSUB")>>, TRUE, FALSE),
    TextLine(<<Operator("+"), Name("LDA"), Name("a"), Operator("/"), Number(1)>>, TRUE, FALSE) }

\* The lines of a program as text.
TextLines(program) == TextOf(program).lines
StartLine == Head(TextLines(<<Start("p", Constant(2))>>))
EndLine   == Head(TextLines(<<End(Label("p"))>>))

Around(line) ==
  <<StartLine, line>>
    \o TextLines(<<InitData("a", "BYTE", <<7>>), InitData("b", "BYTE", <<8>>),
                   End(Label("p"))>>)

FileOf(lines) == [case_sensitive |-> FALSE, allow_brackets |-> TRUE, lines |-> lines]

FileLines ==
  { StartLine, EndLine, TextLine(<<Comment>>, FALSE, FALSE),
    Head(TextLines(<<InitData(NoLabel, "BYTE", <<7>>)>>)),
    TextLine(<<Name("p")>>, FALSE, FALSE) }

MCOtherTexts ==
  { FileOf(Around(line)) : line \in EditedLines }
  \cup { [FileOf(Around(line)) EXCEPT !.case_sensitive = sensitive, !.allow_brackets = brackets] :
           line \in OptionLines, sensitive, brackets \in BOOLEAN }
  \cup { FileOf(lines) : lines \in UNION {[1 .. size -> FileLines] : size \in 0 .. 4} }

MCUppercase == [lda |-> "LDA", ltorg |-> "LTORG", p |-> "P", a |-> "A", b |-> "B", t |-> "T", x |-> "X"]
MCNames == {"p", "a", "b", "c", "d", "e", "f", "t", "ext", "x", "X", "lda", "toolong", "LDA"}
MCTokenNames == MCNames \cup Mnemonic \cup Directive \cup DOMAIN RegisterId \cup {"blk", "ltorg"}

\* What the proofs take from the names of literals, for a few of them.
ASSUME MCLiteralNames ==
  \A id \in 0 .. 20 :
    /\ LiteralSymbolName(id) \notin Names
    /\ \A other \in 0 .. id - 1 : LiteralSymbolName(other) # LiteralSymbolName(id)
=============================================================================
