------------------------------- MODULE Linker -------------------------------
(***************************************************************************)
(* The linker (linker.cc, symbol_table.cc, relocation_table.cc and the     *)
(* driver main_ld.cc).  LinkFiles is a pure function of its input files;   *)
(* the state machine is a build directory, in which every run of sicld     *)
(* takes some of the files there, the outputs of earlier runs included,    *)
(* and adds one if it succeeds.                                            *)
(***************************************************************************)
EXTENDS ObjectFile, FiniteSetsExt, SequencesExt

CONSTANTS Modules,         \* object files the assembler may have left: a set of sequences
          StartAddresses,  \* values of sicld -a
          MaxInputs,       \* bound: files given to one run
          MaxFiles         \* bound: files in the directory

VARIABLE directory  \* sequence of [file, origin, relocatable]; see Init

-----------------------------------------------------------------------------
(***************************************************************************)
(* OrderInputFiles: the files are laid out one after the other.            *)
(***************************************************************************)
FileStart(start_address, files, i) ==
  start_address + SumFunction([j \in 1 .. i - 1 |-> files[j].code_size])

\* Mutant: a file is moved the other way.
AdjustmentReversed(start_address, files, i) ==
  files[i].start_address - FileStart(start_address, files, i)

Adjustment(start_address, files, i) ==
  FileStart(start_address, files, i) - files[i].start_address

OrderInputFiles(compatibility_mode, start_address, files) ==
  /\ \A i \in DOMAIN files :
       FileStart(start_address, files, i) + files[i].code_size <= AddressLimit
  /\ compatibility_mode => \A i \in DOMAIN files : files[i].start_address = 0

-----------------------------------------------------------------------------
(***************************************************************************)
(* BuildSymbolTable.  A symbol is DEFINED at an address or UNDEFINED.      *)
(***************************************************************************)
UNDEFINED == -1

Definers(files, name) == {i \in DOMAIN files : name \in DOMAIN files[i].exports}

SymbolTable(start_address, files) ==
  [name \in UNION {files[i].imports \cup DOMAIN files[i].exports : i \in DOMAIN files} |->
     IF Definers(files, name) = {} THEN UNDEFINED
     ELSE LET i == CHOOSE i \in Definers(files, name) : TRUE
          IN  files[i].exports[name] + Adjustment(start_address, files, i)]

BuildSymbolTable(partial_link, files) ==
  LET names == UNION {files[i].imports \cup DOMAIN files[i].exports : i \in DOMAIN files}
  IN  /\ \A name \in names : Cardinality(Definers(files, name)) <= 1
      /\ \A i \in DOMAIN files : \A name \in DOMAIN files[i].exports :
           /\ files[i].start_address <= files[i].exports[name]
           /\ files[i].exports[name] < EndAddress(files[i])
      /\ ~partial_link => \A name \in names : Definers(files, name) # {}

-----------------------------------------------------------------------------
(***************************************************************************)
(* BuildRelocationTable: the relocation records of all files by their new  *)
(* address.  The symbol records of an address add up to one entry.         *)
(***************************************************************************)
MovedRelocations(start_address, files) ==
  FlattenSeq([i \in DOMAIN files |->
    [k \in DOMAIN files[i].relocations |->
       [files[i].relocations[k] EXCEPT !.address = @ + Adjustment(start_address, files, i)]]])

BuildRelocationTable(start_address, files) ==
  /\ \A i \in DOMAIN files : \A k \in DOMAIN files[i].relocations :
       LET section == files[i].relocations[k]
       IN  /\ files[i].start_address <= section.address
           /\ section.address < EndAddress(files[i])
           /\ section.nibbles \in 1 .. 10
  /\ LET records == MovedRelocations(start_address, files)
     IN  \A k, l \in DOMAIN records :
           k # l /\ records[k].address = records[l].address
             => /\ records[k].type = "SYMBOL" /\ records[l].type = "SYMBOL"
                /\ records[k].nibbles = records[l].nibbles

\* The entry of an address: its first record and the symbols of all of them.
RelocationEntry(records, address) ==
  LET here == SelectSeq(records, LAMBDA record : record.address = address)
  IN  [type |-> here[1].type, nibbles |-> here[1].nibbles, records |-> here]

-----------------------------------------------------------------------------
(***************************************************************************)
(* PatchTextSection.                                                       *)
(***************************************************************************)
\* 1 << (nibbles * 4) on a 32-bit int: undefined from 8 nibbles on, where the
\* processor takes the count modulo 32.
FieldLimit(nibbles) == 16 ^ (IF nibbles >= 8 THEN nibbles - 8 ELSE nibbles) - 1

FieldSize(nibbles) == (nibbles + 1) \div 2

\* The value of the lower nibbles of the bytes of a field.
FieldValue(nibbles, bytes) ==
  FoldLeft(LAMBDA value, byte : (value * 256) + byte, 0,
           IF nibbles % 2 = 1 THEN [bytes EXCEPT ![1] = @ % 16] ELSE bytes)

FieldBytes(nibbles, bytes, value) ==
  [k \in 1 .. FieldSize(nibbles) |->
     ((value \div 256 ^ (FieldSize(nibbles) - k)) % 256)
       + (IF k = 1 /\ nibbles % 2 = 1 THEN bytes[1] - (bytes[1] % 16) ELSE 0)]

\* A field that does not fit into the section, or a value out of range, is an
\* error; the result is the new data of the section.
PatchFits(section, address, nibbles, adjustment) ==
  LET position == address - section.address
  IN  /\ position + FieldSize(nibbles) <= Len(section.data)
      /\ LET bytes == SubSeq(section.data, position + 1, position + FieldSize(nibbles))
         IN  FieldValue(nibbles, bytes) + adjustment \in 0 .. FieldLimit(nibbles)

PatchTextSection(section, address, nibbles, adjustment) ==
  LET position == address - section.address
      bytes == SubSeq(section.data, position + 1, position + FieldSize(nibbles))
      patched == FieldBytes(nibbles, bytes, FieldValue(nibbles, bytes) + adjustment)
  IN  [section EXCEPT !.data = [k \in DOMAIN @ |->
         IF k - position \in DOMAIN patched THEN patched[k - position] ELSE @[k]]]

-----------------------------------------------------------------------------
(***************************************************************************)
(* SolveSymbolRelocation.                                                  *)
(***************************************************************************)
Signed(sign, value) == IF sign THEN value ELSE -value

Symbols(entry) == [k \in DOMAIN entry.records |-> entry.records[k].symbol]

SumSymbols(entry, Value(_)) ==
  FoldLeft(LAMBDA sum, symbol : sum + Signed(symbol[1], Value(symbol[2])), 0, Symbols(entry))

RelativeCount(entry) == SumSymbols(entry, LAMBDA name : 1)

AllSymbolsKnown(symbol_table, entry) ==
  \A symbol \in ToSet(Symbols(entry)) : symbol_table[symbol[2]] # UNDEFINED

SymbolsSolvable(compatibility_mode, symbol_table, entry) ==
  /\ \A symbol \in ToSet(Symbols(entry)) : symbol[2] \in DOMAIN symbol_table
  /\ ~compatibility_mode => RelativeCount(entry) \in {0, 1}

-----------------------------------------------------------------------------
(***************************************************************************)
(* CopyAndPatchCode: every relocation entry whose address lies in a text   *)
(* section, in the order of the addresses, patches the section's copy if   *)
(* its symbols are known, and is written out again if the field still      *)
(* depends on where the output goes.                                       *)
(***************************************************************************)
LinkContext(compatibility_mode, start_address, files) ==
  [compatibility_mode |-> compatibility_mode,
   symbol_table |-> SymbolTable(start_address, files),
   records |-> MovedRelocations(start_address, files)]

EntryAdjustment(context, adjustment, entry) ==
  IF entry.type = "SIMPLE" THEN adjustment
  ELSE SumSymbols(entry, LAMBDA name :
         IF context.symbol_table[name] = UNDEFINED THEN 0 ELSE context.symbol_table[name])

Solvable(context, entry) ==
  entry.type = "SYMBOL"
    => SymbolsSolvable(context.compatibility_mode, context.symbol_table, entry)

IsPatched(context, entry) ==
  entry.type = "SIMPLE" \/ AllSymbolsKnown(context.symbol_table, entry)

\* Mutant: the difference of two symbols is taken for an address.
WrittenRelocationsAlwaysRelative(context, entry, address) ==
  IF context.compatibility_mode THEN <<>>
  ELSE IF ~IsPatched(context, entry) THEN entry.records
  ELSE <<RelocationSimple(address, entry.nibbles)>>

WrittenRelocations(context, entry, address) ==
  IF context.compatibility_mode THEN <<>>
  ELSE IF ~IsPatched(context, entry) THEN entry.records
  ELSE IF entry.type = "SIMPLE" \/ RelativeCount(entry) = 1
       THEN <<RelocationSimple(address, entry.nibbles)>>
  ELSE <<>>

ApplyRelocation(context, adjustment, copied, address) ==
  LET entry == RelocationEntry(context.records, address)
      value == EntryAdjustment(context, adjustment, entry)
      solvable == Solvable(context, entry)
      patch == solvable /\ IsPatched(context, entry)
      fits == patch => PatchFits(copied.section, address, entry.nibbles, value)
  IN  [section |-> IF patch /\ fits
                   THEN PatchTextSection(copied.section, address, entry.nibbles, value)
                   ELSE copied.section,
       relocations |-> IF solvable /\ fits
                       THEN copied.relocations \o WrittenRelocations(context, entry, address)
                       ELSE copied.relocations,
       success |-> copied.success /\ solvable /\ fits]

CopySection(context, adjustment, text_section) ==
  LET section == [text_section EXCEPT !.address = @ + adjustment]
      range == section.address .. section.address + Len(section.data) - 1
      addresses == SetToSortSeq({record.address : record \in ToSet(context.records)} \cap range, <)
  IN  FoldLeft(LAMBDA copied, address : ApplyRelocation(context, adjustment, copied, address),
               [section |-> section, relocations |-> <<>>, success |-> TRUE], addresses)

CopyAndPatchCode(context, start_address, files) ==
  FlattenSeq([i \in DOMAIN files |->
    [k \in DOMAIN files[i].text |->
       CopySection(context, Adjustment(start_address, files, i), files[i].text[k])]])

-----------------------------------------------------------------------------
(***************************************************************************)
(* LinkFiles: the set of its outputs, empty when it reports an error.      *)
(***************************************************************************)
ValidEntryPoint(file) ==
  file.start_address <= file.entry_point /\ file.entry_point < EndAddress(file)

\* WriteOutputSymbols.
DefinedSymbols(symbol_table) ==
  [name \in {n \in DOMAIN symbol_table : symbol_table[n] # UNDEFINED} |-> symbol_table[name]]

\* Mutant: the import sections are not written.
UndefinedSymbolsForgotten(symbol_table) == {}

UndefinedSymbols(symbol_table) == {n \in DOMAIN symbol_table : symbol_table[n] = UNDEFINED}

LinkFiles(compatibility_mode, partial_link, start_address, files) ==
  LET context == LinkContext(compatibility_mode, start_address, files)
      copied == CopyAndPatchCode(context, start_address, files)
  IN  IF /\ ~(compatibility_mode /\ partial_link)
         /\ ValidEntryPoint(files[1])
         /\ OrderInputFiles(compatibility_mode, start_address, files)
         /\ BuildSymbolTable(partial_link, files)
         /\ BuildRelocationTable(start_address, files)
         /\ \A k \in DOMAIN copied : copied[k].success
      THEN {[start_address |-> start_address,
            code_size |-> FileStart(start_address, files, Len(files) + 1) - start_address,
            entry_point |-> files[1].entry_point + Adjustment(start_address, files, 1),
            text |-> [k \in DOMAIN copied |-> copied[k].section],
            exports |-> DefinedSymbols(context.symbol_table),
            imports |-> UndefinedSymbols(context.symbol_table),
            relocations |-> FlattenSeq([k \in DOMAIN copied |-> copied[k].relocations])]}
      ELSE {}

-----------------------------------------------------------------------------
(***************************************************************************)
(* The build directory.  "origin" lists the assembler's files a file is    *)
(* made of; the output of the compatibility mode cannot be linked again.   *)
(***************************************************************************)
Init ==
  \E modules \in Modules :
    directory = [i \in DOMAIN modules |->
                   [file |-> modules[i], origin |-> <<modules[i]>>, relocatable |-> TRUE]]

\* One run of sicld.  Any order of the files is allowed, and none is given twice.
RunLinker(compatibility_mode, partial_link, start_address, inputs) ==
  LET files == [k \in DOMAIN inputs |-> directory[inputs[k]].file]
  IN  /\ Len(directory) < MaxFiles
      /\ \A k \in DOMAIN inputs : directory[inputs[k]].relocatable
      /\ \E output \in LinkFiles(compatibility_mode, partial_link, start_address, files) :
           directory' = Append(directory,
             [file |-> Saved(output),
              origin |-> FlattenSeq([k \in DOMAIN inputs |-> directory[inputs[k]].origin]),
              relocatable |-> ~compatibility_mode])

Inputs ==
  {inputs \in UNION {[1 .. n -> DOMAIN directory] : n \in 1 .. MaxInputs} :
     IsInjective(inputs)}

Next ==
  \E compatibility_mode, partial_link \in BOOLEAN, start_address \in StartAddresses,
     inputs \in Inputs :
       RunLinker(compatibility_mode, partial_link, start_address, inputs)

Spec == Init /\ [][Next]_directory

TypeOK ==
  \A k \in DOMAIN directory :
    /\ IsObjectFile(directory[k].file)
    /\ directory[k].file.start_address < AddressLimit
    /\ directory[k].relocatable \in BOOLEAN

-----------------------------------------------------------------------------
(***************************************************************************)
(* What a linked file means, whatever runs of the linker made it: its      *)
(* modules lie one after the other, and every field with relocation        *)
(* records holds what the assembler put there plus what its records add.   *)
(***************************************************************************)
Shift(entry, i) == Adjustment(entry.file.start_address, entry.origin, i)

\* Where a symbol of the modules ended up.
FinalAddress(entry, name) ==
  LET i == CHOOSE i \in Definers(entry.origin, name) : TRUE
  IN  entry.origin[i].exports[name] + Shift(entry, i)

Known(entry, name) == Definers(entry.origin, name) # {}

ByteAt(file, address) ==
  LET k == CHOOSE k \in DOMAIN file.text :
             address - file.text[k].address + 1 \in DOMAIN file.text[k].data
  IN  file.text[k].data[address - file.text[k].address + 1]

TextAddresses(file) ==
  UNION {{file.text[k].address + j - 1 : j \in DOMAIN file.text[k].data} :
           k \in DOMAIN file.text}

Field(file, address, nibbles) ==
  [k \in 1 .. FieldSize(nibbles) |-> ByteAt(file, address + k - 1)]

\* The records of the field of module i at an address.
RecordsAt(module, address) ==
  SelectSeq(module.relocations, LAMBDA record : record.address = address)

FieldChange(entry, i, records) ==
  IF records[1].type = "SIMPLE" THEN Shift(entry, i)
  ELSE IF \E k \in DOMAIN records : ~Known(entry, records[k].symbol[2]) THEN 0
  ELSE FoldLeft(LAMBDA sum, record :
                  sum + Signed(record.symbol[1], FinalAddress(entry, record.symbol[2])),
                0, records)

\* Every symbol of the modules is exported at its final address, or imported if
\* no module defines it.
SymbolsMean(entry) ==
  LET names == UNION {entry.origin[i].imports \cup DOMAIN entry.origin[i].exports :
                        i \in DOMAIN entry.origin}
  IN  /\ entry.file.imports = {name \in names : ~Known(entry, name)}
      /\ entry.file.exports =
           [name \in {n \in names : Known(entry, n)} |-> FinalAddress(entry, name)]

\* Every byte outside the relocated fields is copied, every field is changed as
\* its records say, symbols are where their modules are, and nothing else is in
\* the file, also when the file was linked in several steps and an earlier step
\* patched part of its fields.
LinkedProgramMeans ==
  \A e \in DOMAIN directory :
    LET entry == directory[e]
        modules == entry.origin
        Moved(i, address) == address + Shift(entry, i)
        Covered(i) == UNION {record.address .. record.address + FieldSize(record.nibbles) - 1 :
                               record \in ToSet(modules[i].relocations)}
    IN  /\ TextAddresses(entry.file)
             = UNION {{Moved(i, a) : a \in TextAddresses(modules[i])} : i \in DOMAIN modules}
        /\ SymbolsMean(entry)
        /\ \A i \in DOMAIN modules : \A a \in TextAddresses(modules[i]) \ Covered(i) :
             ByteAt(entry.file, Moved(i, a)) = ByteAt(modules[i], a)
        /\ \A i \in DOMAIN modules : \A record \in ToSet(modules[i].relocations) :
             LET old == Field(modules[i], record.address, record.nibbles)
                 new == Field(entry.file, Moved(i, record.address), record.nibbles)
             IN  /\ FieldValue(record.nibbles, new)
                      = FieldValue(record.nibbles, old)
                        + FieldChange(entry, i, RecordsAt(modules[i], record.address))
                 /\ record.nibbles % 2 = 1 => new[1] \div 16 = old[1] \div 16

SameUpToOrder(file, other) ==
  /\ [file EXCEPT !.relocations = <<>>] = [other EXCEPT !.relocations = <<>>]
  /\ ToSet(file.relocations) = ToSet(other.relocations)

\* An output that keeps its relocation records can be linked again: the linker
\* accepts it, and linking it alone to the address it is at gives it back.
OutputsAreValidInputs ==
  \A e \in DOMAIN directory :
    directory[e].relocatable /\ directory[e].origin # <<directory[e].file>> =>
      LET file == directory[e].file
      IN  \E again \in LinkFiles(FALSE, TRUE, file.start_address, <<file>>) :
            SameUpToOrder(again, file)

=============================================================================
