---------------------------- MODULE KSDwarfUnwind ----------------------------
(***************************************************************************)
(* KSDwarfUnwind.c: ksdwarf_findFDE() goes through the entries of          *)
(* __eh_frame, ksdwarf_buildCFIRow() executes the instructions of the CIE  *)
(* and of the FDE up to an address, and ksdwarf_unwind() applies the row.  *)
(* Every entry and every instruction is one step.                          *)
(*                                                                         *)
(* An entry is a record: its kind, for a CIE whether its version is        *)
(* supported and its instructions, for an FDE its range, its CIE and its   *)
(* instructions.  Instructions that differ in how their operands are       *)
(* encoded are one.                                                        *)
(***************************************************************************)
EXTENDS KSDwarfRules, FiniteSets

CONSTANTS
  Sections,    \* what __eh_frame may contain: lists of entries
  Targets,     \* addresses to look up
  Known,       \* the registers of the frame
  Memory,      \* the words that can be read
  MaxRows,     \* MAX_STATE_STACK_DEPTH
  MaxExpr,     \* KSDWARF_EXPR_STACK_MAX
  Align        \* dataAlignmentFactor

Registers == {"sp", "fp", "ra"}   \* those below KSDWARF_MAX_REGISTERS

VARIABLES
  section,   \* the entries
  target,    \* targetPC
  state,     \* "find", "cie", "fde", "unwind" or "done"
  entry,     \* the entry that is looked at, or that was found
  next,      \* the next instruction
  location,  \* currentPC
  row,       \* the row that is being built
  initial,   \* initialState, once the CIE's instructions are executed
  rows,      \* stateStack
  result     \* what ksdwarf_unwind() returns

vars == <<section, target, state, entry, next, location, row, initial, rows, result>>

EmptyRow ==
  [cfaRule |-> "undefined", cfaRegister |-> "none", cfaOffset |-> 0, cfaExpression |-> <<>>,
   registers |-> [r \in Registers |-> Undefined]]

NotFound == [valid |-> FALSE]

TypeOK ==
  /\ state \in {"find", "cie", "fde", "unwind", "done"}
  /\ entry \in 1 .. Len(section) + 1
  /\ next \in Nat \ {0} /\ location \in Nat
  /\ Len(rows) <= MaxRows
  /\ \A r \in Registers : row.registers[r].type \in
       {"undefined", "same_value", "offset", "val_offset", "register", "expression", "val_expression"}

Init ==
  /\ section \in Sections /\ target \in Targets
  /\ state = "find" /\ entry = 1 /\ next = 1 /\ location = 0
  /\ row = EmptyRow /\ initial = EmptyRow /\ rows = <<>> /\ result = NotFound

-----------------------------------------------------------------------------
Entry    == section[entry]
CIE(fde) == section[fde.cie]
Covers(fde, a) == fde.start <= a /\ a < fde.start + fde.range

\* parseCIE(), and the checks before it: the CIE comes first, is in the same
\* format and of a version that is known.
parseCIE(fde) == fde.cie < entry /\ CIE(fde).bits = fde.bits /\ CIE(fde).version \in {1, 3}

\* ksdwarf_findFDE(), an entry: the end, a CIE, an FDE that does not cover the
\* address or whose CIE is of no use, or the one that is looked for, where
\* the instructions of its CIE begin.
findFDE ==
  /\ state = "find"
  /\ IF entry > Len(section) \/ Entry.kind \in {"end", "too_long"} THEN
       state' = "done" /\ UNCHANGED <<entry, location>>
     ELSE IF Entry.kind = "cie" \/ ~ parseCIE(Entry) \/ ~ Covers(Entry, target) THEN
       entry' = entry + 1 /\ UNCHANGED <<state, location>>
     ELSE state' = "cie" /\ location' = Entry.start /\ UNCHANGED entry
  /\ UNCHANGED <<section, target, next, row, initial, rows, result>>

-----------------------------------------------------------------------------
(***************************************************************************)
(* executeCFIInstructions()                                                *)
(***************************************************************************)
Instructions == IF state = "cie" THEN CIE(Entry).instructions ELSE Entry.instructions

\* Mutant of Executes: stops at the address itself.
ExecutesBefore == state \in {"cie", "fde"} /\ next <= Len(Instructions) /\ location < target

\* There is an instruction left, and the address has not been passed.
Executes == state \in {"cie", "fde"} /\ next <= Len(Instructions) /\ location <= target

\* What an instruction does to a row.  A register that is not kept is skipped;
\* when the CIE's own instructions restore a register, it becomes undefined.
Applied(i, to, start) ==
  LET Set(type, arg) == IF i[2] \in Registers THEN [to EXCEPT !.registers[i[2]] = Rule(type, arg)] ELSE to IN
  CASE i[1] \in {"undefined", "same_value"} -> Set(i[1], 0)
    [] i[1] = "offset"             -> Set("offset", i[3] * Align)
    [] i[1] = "val_offset"         -> Set("val_offset", i[3] * Align)
    [] i[1] \in {"register", "expression", "val_expression"} -> Set(i[1], i[3])
    [] i[1] = "restore"            -> Set(start.registers[i[2]].type, start.registers[i[2]].arg)
    [] i[1] = "def_cfa"            -> [to EXCEPT !.cfaRule = "offset", !.cfaRegister = i[2], !.cfaOffset = i[3]]
    [] i[1] = "def_cfa_register"   -> [to EXCEPT !.cfaRegister = i[2]]
    [] i[1] = "def_cfa_offset"     -> [to EXCEPT !.cfaOffset = i[2]]
    [] i[1] = "def_cfa_expression" -> [to EXCEPT !.cfaRule = "expression", !.cfaExpression = i[2]]
    [] i[1] \in {"nop", "args_size", "advance", "set_loc"} -> to

\* Mutant of Remember: one row too many.
RememberOneMore ==
  /\ rows' = IF Len(rows) <= MaxRows THEN Append(rows, row) ELSE rows
  /\ UNCHANGED <<row, location>>

\* DW_CFA_remember_state, unless the stack is full.
Remember ==
  /\ rows' = IF Len(rows) < MaxRows THEN Append(rows, row) ELSE rows
  /\ UNCHANGED <<row, location>>

\* DW_CFA_restore_state, unless the stack is empty.
Restore ==
  /\ row' = IF rows # <<>> THEN Last(rows) ELSE row
  /\ rows' = IF rows # <<>> THEN Front(rows) ELSE rows
  /\ UNCHANGED location

execute ==
  /\ Executes
  /\ LET i == Instructions[next] IN
     CASE i[1] = "remember_state" -> Remember
       [] i[1] = "restore_state"  -> Restore
       [] OTHER ->
            /\ row' = Applied(i, row, initial)
            /\ location' = IF i[1] = "advance" THEN location + i[2] ELSE IF i[1] = "set_loc" THEN i[2] ELSE location
            /\ UNCHANGED rows
  /\ next' = next + 1
  /\ UNCHANGED <<section, target, state, entry, initial, result>>

\* ksdwarf_buildCFIRow(): after the CIE's instructions, those of the FDE, from
\* its start and with a stack of their own.
buildCFIRow ==
  /\ state \in {"cie", "fde"} /\ ~ Executes
  /\ next' = 1 /\ rows' = <<>> /\ location' = Entry.start
  /\ IF state = "cie" THEN state' = "fde" /\ initial' = row ELSE state' = "unwind" /\ UNCHANGED initial
  /\ UNCHANGED <<section, target, entry, row, result>>

-----------------------------------------------------------------------------
\* ksdwarf_unwind(): the row is applied.
unwind ==
  /\ state = "unwind"
  /\ result' = unwindRow(row, Known, Memory, MaxExpr)
  /\ state' = "done"
  /\ UNCHANGED <<section, target, entry, next, location, row, initial, rows>>

Done == state = "done" /\ UNCHANGED vars

Next == findFDE \/ execute \/ buildCFIRow \/ unwind \/ Done

Spec == Init /\ [][Next]_vars

-----------------------------------------------------------------------------
(***************************************************************************)
(* What a row is: no stack, but the row before the matching remember_state *)
(***************************************************************************)
\* How many rows are remembered after each of the first n instructions.
Depths(is) ==
  LET d[n \in 0 .. Len(is)] ==
        IF n = 0 THEN 0
        ELSE IF is[n][1] = "remember_state" THEN d[n - 1] + 1
        ELSE IF is[n][1] = "restore_state" /\ d[n - 1] > 0 THEN d[n - 1] - 1 ELSE d[n - 1]
  IN d

\* The location after the first n instructions.
Locations(is, start) ==
  LET l[n \in 0 .. Len(is)] ==
        IF n = 0 THEN start
        ELSE IF is[n][1] = "advance" THEN l[n - 1] + is[n][2]
        ELSE IF is[n][1] = "set_loc" THEN is[n][2] ELSE l[n - 1]
  IN l

\* The row after the first n instructions.
Rows(is, from, start) ==
  LET depth == Depths(is)
      Matching(n) == CHOOSE m \in 1 .. n - 1 :
                       /\ is[m][1] = "remember_state" /\ depth[m] = depth[n - 1]
                       /\ \A k \in m .. n - 1 : depth[k] >= depth[m]
      r[n \in 0 .. Len(is)] ==
        IF n = 0 THEN from
        ELSE IF is[n][1] = "remember_state" THEN r[n - 1]
        ELSE IF is[n][1] = "restore_state" THEN (IF depth[n - 1] = 0 THEN r[n - 1] ELSE r[Matching(n) - 1])
        ELSE Applied(is[n], r[n - 1], start)
  IN r

\* The row that holds at an address: that of the instructions before the first
\* one that lies beyond it.
RowFor(is, start, a, from, first) ==
  LET l    == Locations(is, start)
      last == CHOOSE n \in 0 .. Len(is) : /\ n = Len(is) \/ l[n] > a
                                          /\ \A k \in 0 .. n - 1 : l[k] <= a
  IN  Rows(is, from, first)[last]

Deep(is) == \E n \in 1 .. Len(is) : Depths(is)[n] > MaxRows

\* The row that is applied is the one that CIE and FDE define for the address,
\* as long as no more rows are remembered at a time than the stack has room
\* for; and it is of the first FDE that covers the address.
CFIExact ==
  /\ state = "unwind" /\ ~ Deep(Entry.instructions) /\ ~ Deep(CIE(Entry).instructions) =>
       LET first == RowFor(CIE(Entry).instructions, Entry.start, target, EmptyRow, EmptyRow) IN
       row = RowFor(Entry.instructions, Entry.start, target, first, first)
  /\ state # "find" /\ entry <= Len(section) /\ Entry.kind = "fde" =>
       \A k \in 1 .. entry - 1 : section[k].kind = "fde" /\ Covers(section[k], target) =>
         CIE(section[k]).bits # section[k].bits \/ CIE(section[k]).version \notin {1, 3}
=============================================================================
