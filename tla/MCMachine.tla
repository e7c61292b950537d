----------------------------- MODULE MCMachine -----------------------------
(* An instance of Machine for TLC: words of eight bits. *)
EXTENDS Machine, Bitwise

(* Pages 0 and 1 can be read and written, page 2 is read-only, page 3 is not *)
(* there, and page 4 names a frame that does not exist.                      *)
MCPageTable ==
    LET E(frame, valid, ro) == [physicalPage |-> frame, valid |-> valid, readOnly |-> ro,
                                use |-> FALSE, dirty |-> FALSE]
    IN  <<E(1, TRUE, FALSE), E(3, TRUE, FALSE), E(0, TRUE, TRUE), E(2, FALSE, FALSE),
          E(7, TRUE, FALSE)>>

Fields(op, rs, rt, rd, funct, imm) ==
    [op |-> op, rs |-> rs, rt |-> rt, rd |-> rd, sa |-> 3, funct |-> funct, imm |-> imm, index |-> 2]

(* One word for each instruction code, or two or three where the operands matter. *)
MCInstructions ==
    {Fields(0, r[1], r[2], r[3], f, 0) :
        r \in {<<1, 2, 3>>, <<2, 1, 1>>}, f \in {1} \cup {g \in 0..63 : specialTable[g] # "RES"}}
    \cup {Fields(1, 1, rt, 0, 0, 3) : rt \in {0, 1, 2, 16, 17}}
    \cup {Fields(op, 1, 2, 0, 0, 14) : op \in (2..15) \cup {16, 20}}
    \cup {Fields(op, r[1], r[2], 0, 0, r[3]) :
            op \in {o \in 32..46 : opTable[o] # "RES"}, r \in {<<0, 1, 4>>, <<1, 2, 0>>, <<2, 1, 15>>}}

(* The operators on bits agree with those of Bitwise. *)
ASSUME BitsAssumption ==
    \A a, b \in Values : /\ BitAnd(a, b) = a & b
                         /\ BitOr(a, b) = a | b
                         /\ BitXor(a, b) = a ^^ b
=============================================================================
