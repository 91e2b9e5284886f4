------------------------------- MODULE Parser -------------------------------
(***************************************************************************)
(* The parser of the assembler (parser.cc): from the tokens of a file to   *)
(* its lines.  The parser has no state from one line to the next but what  *)
(* START and END may be followed by, so that it is written as the set of   *)
(* what may come of a text: the line, or none when the text is in error.   *)
(*                                                                         *)
(* A line of text has its tokens, whether the first is not in column 0     *)
(* ("indented"), and whether a '+' is set apart from the mnemonic.  A file *)
(* has the options that it is parsed with and its lines.                   *)
(***************************************************************************)
EXTENDS Lines, InstructionSet

CONSTANT Uppercase  \* the names with lowercase letters and the same in uppercase

\* The tokens besides Name and Number.
Operator(operator) == [type |-> "OPERATOR", operator |-> operator]
Data(type, data)   == [type |-> type, data |-> data]  \* DATA_BIN or DATA_FLOAT
Comment            == [type |-> "COMMENT"]

TextLine(tokens, indented, apart) ==
  [tokens |-> tokens, indented |-> indented, apart |-> apart]

IsOperator(token, operators) == token.type = "OPERATOR" /\ token.operator \in operators
IsName(token)                == token.type = "NAME"
IsValue(token)               == token.type \in {"NAME", "INTEGER"}
IsData(token)                == token.type \in {"DATA_BIN", "DATA_FLOAT"}

StartsWith(tokens, operators) == tokens # <<>> /\ IsOperator(Head(tokens), operators)

-----------------------------------------------------------------------------
(***************************************************************************)
(* Expressions.  One goes on up to the first operator that is not          *)
(* arithmetic, and has values and operators in turn.                       *)
(***************************************************************************)
Arithmetic == {"+", "-", "*", "/"}

ExpressionLength(tokens) ==
  LET Ends(token) == token.type = "OPERATOR" /\ token.operator \notin Arithmetic
  IN  SelectInSeq(Append(tokens, Operator("end")), Ends) - 1

Unsigned(tokens) == IF StartsWith(tokens, {"-"}) THEN Tail(tokens) ELSE tokens

IsExpression(tokens) ==
  LET body == Unsigned(tokens)
  IN  /\ Len(body) % 2 = 1
      /\ \A k \in DOMAIN body : IF k % 2 = 1 THEN IsValue(body[k])
                                             ELSE IsOperator(body[k], Arithmetic)

\* The terms of an expression, which Solve finds in its tokens.
Terms(tokens) ==
  LET body == Unsigned(tokens)
      OperatorAt(k) == IF k > 1 THEN body[k - 1].operator
                       ELSE IF body = tokens THEN "+" ELSE "-"
      AddValue(terms, k) ==
        IF OperatorAt(k) \in {"*", "/"}
        THEN [terms EXCEPT ![Len(terms)].factors =
                Append(@, [op |-> OperatorAt(k), operand |-> body[k]])]
        ELSE Append(terms, Term(IF OperatorAt(k) = "-" THEN -1 ELSE 1, body[k], <<>>))
  IN  FoldLeft(AddValue, <<>>, [n \in 1 .. (Len(body) + 1) \div 2 |-> 2 * n - 1])

\* What comes of a text: a line or an expression, or nothing when it is in error.
When(accepted, result) == IF accepted THEN {result} ELSE {}

\* The expression that tokens begin with, and the tokens after it; in brackets
\* if it may be and is.
ParseExpression(brackets, tokens) ==
  LET bracketed == brackets /\ StartsWith(tokens, {"["})
      inner == IF bracketed THEN Tail(tokens) ELSE tokens
      size  == ExpressionLength(inner)
      taken == SubSeq(inner, 1, size)
      after == SubSeq(inner, size + 1, Len(inner))
  IN  When(IsExpression(taken) /\ (bracketed => StartsWith(after, {"]"})),
           [expression |-> Terms(taken), rest |-> IF bracketed THEN Tail(after) ELSE after])

\* An expression up to the end of the line.
WholeExpression(tokens) ==
  {parsed.expression : parsed \in {p \in ParseExpression(FALSE, tokens) : p.rest = <<>>}}

-----------------------------------------------------------------------------
(***************************************************************************)
(* Instructions.  A '+' before one without operand is forgotten.           *)
(***************************************************************************)
Syntax(mnemonic) ==
  CASE mnemonic \in {"CLEAR", "TIXR", "NOT"}                           -> "REG"
    [] mnemonic \in {"SHIFTL", "SHIFTR"}                               -> "REG_N"
    [] mnemonic \in {"RSUB"} \cup F1Mnemonic                           -> "NONE"
    [] mnemonic \in {"LDCH", "TD", "RD", "WD"}                         -> "LOAD_B"
    [] mnemonic \in {"STCH", "STSW"}                                   -> "STORE_B"
    [] mnemonic \in {"STA", "STB", "STL", "STS", "STT", "STX", "STIL"} -> "STORE_W"
    [] mnemonic \in {"ADDF", "SUBF", "MULF", "DIVF", "COMPF", "LDF"}   -> "LOAD_F"
    [] mnemonic = "STF"                                                -> "STORE_F"
    [] OTHER -> IF mnemonic \in F2Mnemonic THEN "REG_REG" ELSE "LOAD_W"

IsStore(syntax) == syntax \in {"STORE_B", "STORE_W", "STORE_F"}

RegisterId == [A |-> 0, X |-> 1, L |-> 2, B |-> 3, S |-> 4, T |-> 5]

IsRegister(token) == IsName(token) /\ token.name \in DOMAIN RegisterId

\* Mutant: the number of a shift is cut to its field without a word.
IsSecondUnlimited(syntax, token) ==
  CASE syntax = "REG_REG" -> IsRegister(token)
    [] syntax = "REG_N"   -> token.type = "INTEGER"

\* Whether the second operand is what the syntax asks for.
IsSecond(syntax, token) ==
  CASE syntax = "REG_REG" -> IsRegister(token)
    [] syntax = "REG_N"   -> token.type = "INTEGER" /\ token.integer < 16

SecondOperand(token) ==
  IF token.type = "INTEGER" THEN token.integer % 16 ELSE RegisterId[token.name]

ParseF2(label, mnemonic, operands) ==
  LET syntax == Syntax(mnemonic)
  IN  When(/\ Len(operands) = IF syntax = "REG" THEN 1 ELSE 3
           /\ IsRegister(operands[1])
           /\ syntax # "REG" =>
                IsOperator(operands[2], {","}) /\ IsSecond(syntax, operands[3]),
           InstructionF2(label, mnemonic, RegisterId[operands[1].name],
                         IF syntax = "REG" THEN 0 ELSE SecondOperand(operands[3])))

Addressing(operands) == CASE StartsWith(operands, {"="}) -> "LITERAL_POOL"
                          [] StartsWith(operands, {"#"}) -> "IMMEDIATE"
                          [] StartsWith(operands, {"@"}) -> "INDIRECT"
                          [] OTHER                       -> "SIMPLE"

IsAddressingAllowed(syntax, addressing) ==
  /\ IsStore(syntax) => addressing \notin {"IMMEDIATE", "LITERAL_POOL"}
  /\ syntax = "LOAD_F" => addressing # "IMMEDIATE"

\* The bytes of a literal; "=" of a float instruction has nothing else.
IsLiteralData(syntax, token) ==
  CASE syntax = "LOAD_B" -> token.type = "DATA_BIN" /\ Len(token.data) <= 1
    [] syntax = "LOAD_W" -> token.type = "DATA_BIN" /\ Len(token.data) <= 3
    [] syntax = "LOAD_F" -> IsData(token) /\ Len(token.data) <= 6

\* ",X" after the expression, which only simple addressing may have.
IsIndex(addressing, tokens) ==
  /\ Len(tokens) = 2 /\ addressing = "SIMPLE"
  /\ IsOperator(tokens[1], {","}) /\ tokens[2] = Name("X")

ParseFS34(file, label, mnemonic, extended, operands) ==
  LET syntax     == Syntax(mnemonic)
      addressing == Addressing(operands)
      tokens     == IF addressing = "SIMPLE" THEN operands ELSE Tail(operands)
      literal    == addressing = "LITERAL_POOL"
      Instruction(indexed, expression) ==
        InstructionFS34(label, mnemonic, syntax, addressing, extended, indexed, expression)
  IN  IF syntax = "NONE"
      THEN When(operands = <<>>,
                InstructionFS34(label, mnemonic, syntax, "SIMPLE", FALSE, FALSE, <<>>))
      ELSE IF tokens = <<>> \/ ~IsAddressingAllowed(syntax, addressing) THEN {}
      ELSE IF literal /\ (syntax = "LOAD_F" \/ IsData(Head(tokens)))
      THEN When(Len(tokens) = 1 /\ IsLiteralData(syntax, Head(tokens)),
                LiteralData(Instruction(FALSE, <<>>), Head(tokens).data))
      ELSE { Instruction(parsed.rest # <<>>, parsed.expression) :
               parsed \in {p \in ParseExpression(file.allow_brackets /\ addressing # "SIMPLE", tokens) :
                             p.rest = <<>> \/ IsIndex(addressing, p.rest)} }

-----------------------------------------------------------------------------
(***************************************************************************)
(* Directives.                                                             *)
(***************************************************************************)
Directive == {"START", "END", "ORG", "EQU", "USE", "LTORG", "BASE", "NOBASE", "EXTDEF",
              "EXTREF", "BYTE", "WORD", "RESB", "RESW"}

MaxNameLength == 6

Unlabelled == {"END", "ORG", "USE", "LTORG", "BASE", "NOBASE", "EXTDEF", "EXTREF"}

\* The label that a directive must have or must not have.
IsLabelAllowed(directive, label) ==
  /\ directive \in Unlabelled => label = NoLabel
  /\ directive \in {"START", "EQU"} => label # NoLabel
  /\ directive = "START" => Len(label) <= MaxNameLength

\* Names with commas between them.
IsSymbolList(tokens) ==
  /\ Len(tokens) % 2 = 1
  /\ \A k \in DOMAIN tokens :
       IF k % 2 = 0 THEN IsOperator(tokens[k], {","})
       ELSE IsName(tokens[k]) /\ Len(tokens[k].name) <= MaxNameLength

SymbolList(tokens) == [n \in 1 .. (Len(tokens) + 1) \div 2 |-> tokens[2 * n - 1].name]

ParseUse(operands) ==
  IF operands = <<>> THEN {Use(DefaultBlock)}
  ELSE When(Len(operands) = 1 /\ IsName(operands[1]), Use(operands[1].name))

ParseEqu(label, operands) ==
  IF StartsWith(operands, {"*"}) THEN When(Len(operands) = 1, EquHere(label))
  ELSE {Equ(label, expression) : expression \in WholeExpression(operands)}

ParseMemInit(label, width, operands) ==
  IF operands # <<>> /\ IsData(Head(operands))
  THEN When(Len(operands) = 1, InitData(label, width, Head(operands).data))
  ELSE {InitValue(label, width, expression) : expression \in WholeExpression(operands)}

ParseMemReserve(label, width, operands) ==
  {Reserve(label, width, expression) : expression \in WholeExpression(operands)}

ParseDirective(label, directive, operands) ==
  IF ~IsLabelAllowed(directive, label) THEN {}
  ELSE CASE directive \in {"LTORG", "NOBASE"} -> When(operands = <<>>, Plain(directive))
         [] directive \in {"EXTDEF", "EXTREF"} ->
              When(IsSymbolList(operands), Symbols(directive, SymbolList(operands)))
         [] directive = "USE"  -> ParseUse(operands)
         [] directive = "EQU"  -> ParseEqu(label, operands)
         [] directive = "BYTE" -> ParseMemInit(label, "BYTE", operands)
         [] directive = "WORD" -> ParseMemInit(label, "WORD", operands)
         [] directive = "RESB" -> ParseMemReserve(label, "BYTE", operands)
         [] directive = "RESW" -> ParseMemReserve(label, "WORD", operands)
         [] OTHER -> {Line(directive, label, expression) :
                        expression \in WholeExpression(operands)}

-----------------------------------------------------------------------------
(***************************************************************************)
(* Lines and files.                                                        *)
(***************************************************************************)
WithoutComment(tokens) ==
  IF tokens # <<>> /\ Last(tokens).type = "COMMENT" THEN Front(tokens) ELSE tokens

\* A name in column 0 is a label, whatever it is.
HasLabel(line, tokens) == ~line.indented /\ IsName(Head(tokens))

ParseMnemonic(file, label, extended, name, operands) ==
  LET mnemonic == IF ~file.case_sensitive /\ name \in DOMAIN Uppercase
                  THEN Uppercase[name] ELSE name
  IN  IF mnemonic \in Directive
      THEN IF extended THEN {} ELSE ParseDirective(label, mnemonic, operands)
      ELSE IF mnemonic \notin Mnemonic \/ (extended /\ FormatOf(mnemonic) # "FS34") THEN {}
      ELSE CASE FormatOf(mnemonic) = "F1"   -> When(operands = <<>>, InstructionF1(label, mnemonic))
             [] FormatOf(mnemonic) = "F2"   -> ParseF2(label, mnemonic, operands)
             [] FormatOf(mnemonic) = "FS34" ->
                  ParseFS34(file, label, mnemonic, extended, operands)

ParseLine(file, line) ==
  LET tokens   == WithoutComment(line.tokens)
      labelled == HasLabel(line, tokens)
      body     == IF labelled THEN Tail(tokens) ELSE tokens
      extended == StartsWith(body, {"+"})
      code     == IF extended THEN Tail(body) ELSE body
  IN  IF tokens = <<>> THEN {Plain("EMPTY")}
      ELSE IF code = <<>> \/ ~IsName(Head(code)) \/ (extended /\ line.apart) THEN {}
      ELSE ParseMnemonic(file, IF labelled THEN Head(tokens).name ELSE NoLabel, extended,
                         Head(code).name, Tail(code))

\* START comes before all other code and END after it, each once.
IsFramed(lines) ==
  LET code == {k \in DOMAIN lines : lines[k].kind # "EMPTY"}
  IN  /\ code # {} /\ lines[Min(code)].kind = "START" /\ lines[Max(code)].kind = "END"
      /\ \A k \in code \ {Min(code), Max(code)} : lines[k].kind \notin {"START", "END"}

\* The lines of a file; a line in error makes the whole file one.
ParseFile(file) ==
  LET parsed == [k \in DOMAIN file.lines |-> ParseLine(file, file.lines[k])]
      lines  == [k \in DOMAIN parsed |-> CHOOSE line \in parsed[k] : TRUE]
  IN  When((\A k \in DOMAIN parsed : parsed[k] # {}) /\ IsFramed(lines), lines)

=============================================================================
