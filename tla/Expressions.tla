----------------------------- MODULE Expressions -----------------------------
(***************************************************************************)
(* The symbol table of the assembler (symbol_table.cc) and the expressions *)
(* over it (expression_util.cc).  An expression is a sum of terms, a term  *)
(* an operand with the operands it is multiplied with or divided by; the   *)
(* tokens of the code have no other form after parsing.                    *)
(***************************************************************************)
EXTENDS Integers, Sequences, SequencesExt

CONSTANT IntegerLimit  \* values of an expression are in -IntegerLimit .. IntegerLimit - 1 (2^31)

ASSUME ExpressionsAssumption == IntegerLimit \in Nat \ {0}

Number(value) == [type |-> "INTEGER", integer |-> value]
Name(name)    == [type |-> "NAME", name |-> name]

Term(sign, operand, factors) == [sign |-> sign, operand |-> operand, factors |-> factors]
Plus(operand)  == Term(1, operand, <<>>)
Minus(operand) == Term(-1, operand, <<>>)

Operands(expression) ==
  UNION {{term.operand} \cup {factor.operand : factor \in ToSet(term.factors)} :
           term \in ToSet(expression)}

NamesOf(expression) ==
  {operand.name : operand \in {o \in Operands(expression) : o.type = "NAME"}}

-----------------------------------------------------------------------------
(***************************************************************************)
(* Symbols.  A symbol in a block other than the default one has its        *)
(* address only after the first pass: until then it is not resolved.       *)
(***************************************************************************)
NewEntry ==
  [type |-> "UNKNOWN", referenced |-> FALSE, relative |-> FALSE, defined |-> FALSE,
   resolved |-> FALSE, exported |-> FALSE, address |-> 0, block |-> -1, block_address |-> 0]

FindOrCreateNew(symbol_table, name) ==
  IF name \in DOMAIN symbol_table THEN symbol_table[name] ELSE NewEntry

WithEntry(symbol_table, name, entry) ==
  [n \in DOMAIN symbol_table \cup {name} |-> IF n = name THEN entry ELSE symbol_table[n]]

Undefined(entry) ==
  entry.type = "UNKNOWN" \/ (entry.type = "INTERNAL" /\ ~entry.defined)

-----------------------------------------------------------------------------
(***************************************************************************)
(* Solve: the value of an expression, whether it moves with the program    *)
(* ("relative"), and how often each symbol is left for the linker to add.  *)
(* Once an imported symbol occurs, that holds for exported ones, too.      *)
(***************************************************************************)
ValidateExpressionSymbols(expression, symbol_table, allow_external) ==
  \A name \in NamesOf(expression) :
    /\ name \in DOMAIN symbol_table
    /\ ~Undefined(symbol_table[name])
    /\ symbol_table[name].type = "EXTERNAL" => allow_external
    /\ symbol_table[name].type = "INTERNAL" => symbol_table[name].resolved

HasExternal(expression, symbol_table) ==
  \E name \in NamesOf(expression) : symbol_table[name].type = "EXTERNAL"

InRange(value) == -IntegerLimit <= value /\ value < IntegerLimit

NoTerm == [ok |-> FALSE, value |-> 0, relative |-> FALSE, external |-> ""]

\* A term of one operand.
SolveSingle(operand, symbol_table, has_external) ==
  IF operand.type = "INTEGER" THEN [NoTerm EXCEPT !.ok = TRUE, !.value = operand.integer]
  ELSE LET entry == symbol_table[operand.name]
       IN  IF has_external /\ (entry.type = "EXTERNAL" \/ entry.exported)
           THEN [NoTerm EXCEPT !.ok = TRUE, !.relative = TRUE, !.external = operand.name]
           ELSE [NoTerm EXCEPT !.ok = ~(has_external /\ entry.relative),
                               !.value = entry.address, !.relative = entry.relative]

\* An operand of '*' and '/'.
IsFactor(operand, symbol_table) ==
  operand.type = "NAME" =>
    symbol_table[operand.name].type = "INTERNAL" /\ ~symbol_table[operand.name].relative

FactorValue(operand, symbol_table) ==
  IF operand.type = "INTEGER" THEN operand.integer ELSE symbol_table[operand.name].address

\* No operand is negative, so that \div is the division of the code.
ApplyFactor(solved, factor, symbol_table) ==
  LET operand == FactorValue(factor.operand, symbol_table)
      value == CASE factor.op = "*" -> solved.value * operand
                 [] factor.op = "/" -> solved.value \div operand
  IN  IF /\ solved.ok
         /\ IsFactor(factor.operand, symbol_table)
         /\ factor.op = "/" => operand # 0
      THEN [solved EXCEPT !.ok = InRange(operand) /\ InRange(value), !.value = value]
      ELSE NoTerm

SolveTerm(term, symbol_table) ==
  IF ~IsFactor(term.operand, symbol_table) THEN NoTerm
  ELSE LET first == FactorValue(term.operand, symbol_table)
       IN  FoldLeft(LAMBDA solved, factor : ApplyFactor(solved, factor, symbol_table),
                    [NoTerm EXCEPT !.ok = InRange(first), !.value = first], term.factors)

AddTerm(sum, term, symbol_table, has_external) ==
  LET solved == IF term.factors = <<>>
                THEN SolveSingle(term.operand, symbol_table, has_external)
                ELSE SolveTerm(term, symbol_table)
      value == sum.value + (term.sign * solved.value)
  IN  [ok |-> sum.ok /\ solved.ok /\ InRange(value),
       value |-> value,
       relative_count |-> sum.relative_count + (IF solved.relative THEN term.sign ELSE 0),
       externals |-> [name \in DOMAIN sum.externals |->
         sum.externals[name] + (IF name = solved.external THEN term.sign ELSE 0)]]

Unsolved == [ok |-> FALSE, value |-> 0, relative |-> FALSE, externals |-> <<>>]

Solve(expression, symbol_table, allow_external) ==
  IF ~ValidateExpressionSymbols(expression, symbol_table, allow_external) THEN Unsolved
  ELSE LET has_external == HasExternal(expression, symbol_table)
           sum == FoldLeft(LAMBDA s, term : AddTerm(s, term, symbol_table, has_external),
                           [ok |-> TRUE, value |-> 0, relative_count |-> 0,
                            externals |-> [name \in NamesOf(expression) |-> 0]],
                           expression)
       IN  IF sum.ok /\ sum.relative_count \in {0, 1}
           THEN [ok |-> TRUE, value |-> sum.value, relative |-> sum.relative_count = 1,
                 externals |-> sum.externals]
           ELSE Unsolved

\* The symbols that Solve returns, each with its sign, as often as it counts.
ExternalSymbols(solved) ==
  LET Magnitude(n) == IF n < 0 THEN -n ELSE n
  IN  FlattenSeq([k \in 1 .. Cardinality(DOMAIN solved.externals) |->
        LET name == SetToSeq(DOMAIN solved.externals)[k]
            count == solved.externals[name]
        IN  [i \in 1 .. Magnitude(count) |-> [sign |-> count > 0, name |-> name]]])

\* SolveAbsoluteExpression and SolveRelativeExpression of the first pass and
\* CheckExpressionLimits of both.
InLimits(solved, minimum, maximum) ==
  solved.ok /\ minimum <= solved.value /\ solved.value <= maximum

=============================================================================
