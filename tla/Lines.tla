-------------------------------- MODULE Lines --------------------------------
(***************************************************************************)
(* The lines of a program after parsing (node.cc).  A line is a record     *)
(* with the node's fields.  Its kind is the class of the node: INIT and    *)
(* RESERVE are BYTE/WORD and RESB/RESW, EMPTY is a line without code, and  *)
(* LITERAL one that the first pass inserts itself.                         *)
(***************************************************************************)
EXTENDS Expressions

NoLabel == ""
NoData  == <<-1>>

\* The block of USE without a name.
DefaultBlock == "<default>"

\* A record with more fields, or a table with more entries.
With(record, fields) ==
  [field \in DOMAIN record \cup DOMAIN fields |->
     IF field \in DOMAIN record THEN record[field] ELSE fields[field]]

Line(kind, label, expression) == [kind |-> kind, label |-> label, expression |-> expression]

Start(name, expression) == Line("START", name, expression)
End(expression)         == Line("END", NoLabel, expression)
Org(expression)         == Line("ORG", NoLabel, expression)
Base(expression)        == Line("BASE", NoLabel, expression)
Plain(kind)             == Line(kind, NoLabel, <<>>)  \* LTORG, NOBASE, EMPTY
Use(block_name)         == With(Plain("USE"), [block_name |-> block_name])
Symbols(kind, list)     == With(Plain(kind), [symbol_list |-> list])  \* EXTDEF, EXTREF
EquHere(label)          == With(Line("EQU", label, <<>>), [assign_current_address |-> TRUE])
Equ(label, expression)  ==
  With(Line("EQU", label, expression), [assign_current_address |-> FALSE])
InitData(label, width, data) ==
  With(Line("INIT", label, <<>>), [width |-> width, data |-> data])
InitValue(label, width, expression) ==
  With(Line("INIT", label, expression), [width |-> width, data |-> NoData])
Reserve(label, width, expression) ==
  With(Line("RESERVE", label, expression), [width |-> width])
InstructionF1(label, mnemonic) == With(Line("F1", label, <<>>), [mnemonic |-> mnemonic])
InstructionF2(label, mnemonic, r1, r2) ==
  With(Line("F2", label, <<>>), [mnemonic |-> mnemonic, r1 |-> r1, r2 |-> r2])
InstructionFS34(label, mnemonic, syntax, addressing, extended, indexed, expression) ==
  With(Line("FS34", label, expression),
       [mnemonic |-> mnemonic, syntax |-> syntax, addressing |-> addressing,
        extended |-> extended, indexed |-> indexed, data |-> NoData])
LiteralData(instruction, data) == [instruction EXCEPT !.data = data]

InternalLiteral(literal_id) == With(Plain("LITERAL"), [literal_id |-> literal_id])

=============================================================================
