----------------------------- MODULE KSDwarfRules -----------------------------
(***************************************************************************)
(* How KSDwarfUnwind.c recovers a register from a row of call frame        *)
(* information: the rules, and the expressions in them.  No state.         *)
(*                                                                         *)
(* An address, an offset and a word of memory are numbers, a word is one   *)
(* address wide, and an expression is a list of operations.                *)
(***************************************************************************)
EXTENDS Integers, Sequences, SequencesExt

CONSTANT NoValue   \* what cannot be recovered

\* A rule for a register: its type, and what that type needs.
Rule(type, arg) == [type |-> type, arg |-> arg]
Undefined       == Rule("undefined", 0)

\* ksmem_copySafely() of one word: what is there, if it can be read.
Read(memory, a) == IF a \in DOMAIN memory THEN memory[a] ELSE NoValue

\* getRegisterValue(): sp, fp and, where there is one, lr are all that is known.
getRegisterValue(register, known) ==
  IF register \in DOMAIN known THEN known[register] ELSE NoValue

-----------------------------------------------------------------------------
(***************************************************************************)
(* evaluateDwarfExpression()                                               *)
(***************************************************************************)
\* exprPush() and exprPop(): the stack is limited, and never popped when empty.
exprPush(e, v, max) ==
  IF v = NoValue \/ Len(e.stack) >= max THEN [e EXCEPT !.ok = FALSE] ELSE [e EXCEPT !.stack = Append(@, v)]
exprPop(e, n) ==
  IF Len(e.stack) < n THEN [e EXCEPT !.ok = FALSE] ELSE [e EXCEPT !.stack = SubSeq(@, 1, Len(@) - n)]
FromTop(e, n) == e.stack[Len(e.stack) - n]

Plus(v, n) == IF v = NoValue THEN NoValue ELSE v + n

\* One operation of an expression.
Operate(e, op, cfa, known, memory, max) ==
  LET Replace(n, v(_)) == IF Len(e.stack) < n THEN [e EXCEPT !.ok = FALSE] ELSE exprPush(exprPop(e, n), v(e), max)
  IN
  CASE ~ e.ok              -> e
    [] e.ok /\ op[1] = "const"       -> exprPush(e, op[2], max)
    [] e.ok /\ op[1] = "plus_uconst" -> Replace(1, LAMBDA x : FromTop(x, 0) + op[2])
    [] e.ok /\ op[1] = "plus"        -> Replace(2, LAMBDA x : FromTop(x, 1) + FromTop(x, 0))
    [] e.ok /\ op[1] = "minus"       -> Replace(2, LAMBDA x : FromTop(x, 1) - FromTop(x, 0))
    [] e.ok /\ op[1] = "deref"       -> Replace(1, LAMBDA x : Read(memory, FromTop(x, 0)))
    [] e.ok /\ op[1] = "fbreg"       -> exprPush(e, IF cfa = 0 THEN NoValue ELSE cfa + op[2], max)
    [] e.ok /\ op[1] = "breg"        -> exprPush(e, Plus(getRegisterValue(op[2], known), op[3]), max)
    [] e.ok /\ op[1] = "stack_value" -> [e EXCEPT !.isValue = TRUE]
    [] e.ok /\ op[1] = "unsupported" -> [e EXCEPT !.ok = FALSE]

\* The value, if the operations leave exactly one, and whether it is marked as
\* the value itself.  There must be a first operation.
evaluateDwarfExpression(ops, cfa, known, memory, max) ==
  LET e == FoldLeft(LAMBDA x, op : Operate(x, op, cfa, known, memory, max),
                    [ok |-> ops # <<>>, stack |-> <<>>, isValue |-> FALSE], ops)
  IN  [value |-> IF e.ok /\ Len(e.stack) = 1 THEN e.stack[1] ELSE NoValue, isValue |-> e.isValue]

-----------------------------------------------------------------------------
\* applyRegisterRule(): a register whose value is unchanged counts as unknown.
applyRegisterRule(rule, cfa, known, memory, max) ==
  LET e == evaluateDwarfExpression(rule.arg, cfa, known, memory, max) IN
  CASE rule.type \in {"undefined", "same_value"} -> NoValue
    [] rule.type = "offset"         -> Read(memory, cfa + rule.arg)
    [] rule.type = "val_offset"     -> cfa + rule.arg
    [] rule.type = "register"       -> getRegisterValue(rule.arg, known)
    [] rule.type = "expression"     -> IF e.value = NoValue \/ e.isValue THEN e.value ELSE Read(memory, e.value)
    [] rule.type = "val_expression" -> e.value

\* The CFA of a row: a register and an offset, or an expression.
CFA(row, known, memory, max) ==
  CASE row.cfaRule = "offset"     -> Plus(getRegisterValue(row.cfaRegister, known), row.cfaOffset)
    [] row.cfaRule = "expression" -> evaluateDwarfExpression(row.cfaExpression, 0, known, memory, max).value
    [] row.cfaRule = "undefined"  -> NoValue

\* ksdwarf_unwind(), once the row is built: the return address, or none, and
\* the caller's registers.  A frame pointer that cannot be recovered is 0.
unwindRow(row, known, memory, max) ==
  LET cfa == CFA(row, known, memory, max)
      ra  == applyRegisterRule(row.registers["ra"], cfa, known, memory, max)
      fp  == applyRegisterRule(row.registers["fp"], cfa, known, memory, max) IN
  IF cfa = NoValue \/ ra = NoValue THEN [valid |-> FALSE]
  ELSE [valid |-> TRUE, ra |-> ra, sp |-> cfa, fp |-> IF fp = NoValue THEN 0 ELSE fp]
=============================================================================
