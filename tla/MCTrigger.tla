------------------------------- MODULE MCTrigger -------------------------------
(***************************************************************************)
(* Trigger with chars of two bits, a variable of four chars and one of one *)
(* char, and operands of every kind over them.                             *)
(***************************************************************************)
EXTENDS Trigger

Type(tt, size) == [tt |-> tt, size |-> size]
Literal(v) == [kind |-> "Literal", val |-> v]
Rpv == [kind |-> "Rpv"]
Var(a, tt, size) == [kind |-> "Var", addr |-> a, datatype |-> Type(tt, size)]
VarBit(a, tt, size, offset, bits) ==
    [kind |-> "VarBit", addr |-> a, datatype |-> Type(tt, size), bitoffset |-> offset, bitsize |-> bits]

MCInitialMemory == [a \in 0 .. 4 |-> IF a \in {1, 2} THEN {0, 1} ELSE {}]
MCAppWrites == {[addr |-> 0, char |-> {0}], [addr |-> 4, char |-> {1}]}
MCHostWrites == {
    [addr |-> 0, masked |-> TRUE, source |-> <<{1}, {1}>>, mask |-> <<{1}, {0, 1}>>],
    [addr |-> 3, masked |-> FALSE, source |-> <<{0, 1}>>, mask |-> <<{}>>]}

Fields ==
    {VarBit(0, "sint", 4, 0, 1), VarBit(0, "uint", 4, 3, 2), VarBit(0, "sint", 4, 1, 3),
     VarBit(0, "sint", 4, 3, 5), VarBit(0, "uint", 2, 0, 3), VarBit(0, "sint", 4, 0, 8)}
Conditions(c, a, b) == [condition |-> c, operands |-> <<a, b>>]

\* The numbers are 0 and 1, or 3 and -1.
Within(margin) ==
    [condition |-> "IsWithin",
     operands |-> <<Var(3, "uint", 1), VarBit(2, "sint", 2, 1, 2), Literal(margin)>>]

MCConfigs ==
    {Conditions("GreaterThan", f, Literal(1)) : f \in Fields}
    \union {Conditions(c, Var(0, "uint", 4), Var(4, "sint", 1)) : c \in RelationalOperators}
    \union {Conditions("Equal", Var(3, "sint", 2), VarBit(0, "boolean", 1, 0, 1)),
            Conditions("Equal", VarBit(0, "float", 4, 0, 8), Rpv),
            Conditions("LessThan", Rpv, VarBit(0, "float", 4, 0, 2)),
            Conditions("NotEqual", Var(4, "boolean", 1), VarBit(0, "uint", 4, 0, 0)),
            Conditions("LessThan", Var(0, "float", 4), Var(0, "uint", 4)),
            Conditions("ChangeMoreThan", Var(0, "uint", 1), Literal(1)),
            Conditions("ChangeMoreThan", Var(0, "uint", 1), Literal(-2)),
            Conditions("ChangeMoreThan", Var(0, "sint", 1), Literal(1)),
            [condition |-> "AlwaysTrue", operands |-> <<>>],
            Within(-2), Within(1)}

MCRpvValues == {Value("sint", -1), Value("uint", 2)}
=============================================================================
