------------------------------ MODULE Operands ------------------------------
(***************************************************************************)
(* The operands of instructions as the translator writes them and the       *)
(* machine reads them: an immediate, a register, or memory at base +        *)
(* displacement.                                                            *)
(***************************************************************************)
EXTENDS Integers, Sequences

Imm(v) == [kind |-> "imm", val |-> v, base |-> ""]
Reg(r) == [kind |-> "reg", val |-> 0, base |-> r]
Mem(r, d) == [kind |-> "mem", val |-> d, base |-> r]

IsSequence(s) == Len(s) \in Nat /\ s = [i \in 1..Len(s) |-> s[i]]
=============================================================================
