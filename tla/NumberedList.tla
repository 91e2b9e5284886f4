---------------------------- MODULE NumberedList ----------------------------
(***************************************************************************)
(* The simulator's user-visible lists (simulator_breakpoint.cc and         *)
(* simulator_watchlist.cc): a list of heap objects with a map that finds   *)
(* an object by its number and one that finds it by its name.  Objects are *)
(* pointers; numbers are given on Add and again on Print.                  *)
(***************************************************************************)
EXTENDS Integers, Sequences, FiniteSets, SequencesExt

CONSTANTS Pointers,  \* bound: the objects that fit into memory
          Names,
          NoName     \* the empty name

ASSUME NumberedListAssumption == NoName \notin Names

EmptyMap == <<>>

\* std::map: insert leaves an entry that is there alone.
MapInsert(map, key, value) ==
  [k \in DOMAIN map \cup {key} |-> IF k \in DOMAIN map THEN map[k] ELSE value]

MapErase(map, key) == Restrict(map, DOMAIN map \ {key})

EmptyList == [items |-> <<>>, number_map |-> EmptyMap, name_map |-> EmptyMap, next_number |-> 0]

PointersOf(list) == {item.pointer : item \in ToSet(list.items)}

\* new: any free object; which one makes no difference.
CanAllocate(list) == PointersOf(list) # Pointers
NewPointer(list) == CHOOSE pointer \in Pointers : pointer \notin PointersOf(list)

NameIsTaken(list, name) == name # NoName /\ name \in DOMAIN list.name_map

AddItem(list, address, name) ==
  LET pointer == NewPointer(list)
  IN  [items |-> Append(list.items, [pointer |-> pointer, number |-> list.next_number,
                                     address |-> address, name |-> name]),
       number_map |-> MapInsert(list.number_map, list.next_number, pointer),
       name_map |-> IF name = NoName THEN list.name_map
                    ELSE MapInsert(list.name_map, name, pointer),
       next_number |-> list.next_number + 1]

\* list_iter: where the object is in the list.
Position(list, pointer) ==
  CHOOSE k \in DOMAIN list.items : list.items[k].pointer = pointer

ItemAt(list, pointer) == list.items[Position(list, pointer)]

\* Mutant: the number is taken back.
RemoveItemAndNumber(list, pointer) ==
  LET item == ItemAt(list, pointer)
  IN  [items |-> RemoveAt(list.items, Position(list, pointer)),
       number_map |-> MapErase(list.number_map, item.number),
       name_map |-> MapErase(list.name_map, item.name),
       next_number |-> list.next_number - 1]

\* Mutant: the name map keeps the removed object.
RemoveItemKeepsName(list, pointer) ==
  [list EXCEPT !.items = RemoveAt(@, Position(list, pointer)),
               !.number_map = MapErase(@, ItemAt(list, pointer).number)]

RemoveItem(list, pointer) ==
  LET item == ItemAt(list, pointer)
  IN  [items |-> RemoveAt(list.items, Position(list, pointer)),
       number_map |-> MapErase(list.number_map, item.number),
       name_map |-> MapErase(list.name_map, item.name),
       next_number |-> list.next_number]

\* Print: a list with holes in its numbers is numbered from 0 again.
Renumber(list) ==
  IF list.next_number = Len(list.items) THEN list
  ELSE [list EXCEPT !.items = [k \in DOMAIN @ |-> [@[k] EXCEPT !.number = k - 1]],
                    !.number_map = [n \in 0 .. Len(list.items) - 1 |-> list.items[n + 1].pointer],
                    !.next_number = Len(list.items)]

\* What the printed list tells the user: which object each number is.
PrintedNumbers(list) ==
  [n \in {item.number : item \in ToSet(list.items)} |->
     (CHOOSE item \in ToSet(list.items) : item.number = n).pointer]

\* The maps hold exactly the objects of the list, and every object has a number
\* of its own, so that each can be found and removed and none that is gone is.
IsConsistent(list) ==
  /\ \A j, k \in DOMAIN list.items : j < k =>
       /\ list.items[j].pointer # list.items[k].pointer
       /\ list.items[j].number < list.items[k].number
  /\ \A item \in ToSet(list.items) : item.number < list.next_number
  /\ list.number_map = PrintedNumbers(list)
  /\ DOMAIN list.name_map = {item.name : item \in ToSet(list.items)} \ {NoName}
  /\ \A name \in DOMAIN list.name_map : ItemAt(list, list.name_map[name]).name = name

=============================================================================
