------------------------------- MODULE MCMain -------------------------------
(***************************************************************************)
(* Small programs for the way from the assembler to libffi.  A byte has    *)
(* four values; an opcode is nop, hlt, or native of one of two functions.  *)
(***************************************************************************)
EXTENDS TVMMain

CONSTANTS programArena, ffiArena

MCArenas == {programArena, ffiArena}
MCCapacity == [a \in MCArenas |-> IF a = programArena THEN 7 ELSE 5]
MCRequests == 0 .. 12

Libc == <<1, 2>>
Libm == <<3>>
MCExports == [l \in {Libc, Libm} |-> IF l = Libc THEN {<<1>>, <<1, 2, 3>>, <<>>} ELSE {<<2>>}]

Cfun(symbol, rtype, atypes) == [symbol |-> symbol, rtype |-> rtype, atypes |-> atypes]

(* One of a long name, one the first library does not have, and one of a   *)
(* name and one of types too long for a field.                             *)
Cfuns == {Cfun(<<1>>, "u8", <<>>), Cfun(<<1, 2, 3>>, "u64", <<"u16", "u8">>),
          Cfun(<<2>>, "u16", <<"u32">>), Cfun(<<1, 3, 3, 1>>, "u32", <<"u8", "u16", "u32", "u64", "u8">>)}

LibLists == {<<>>, <<Libc>>, <<Libm, Libc>>, <<<<1>>>>, <<<<1, 2, 1, 2>>>>, <<Libc, Libm, Libc>>}
CfunLists == UNION {[1 .. n -> Cfuns] : n \in 0 .. 3} \union {[k \in 1 .. 4 |-> Cfun(<<1>>, "u8", <<>>)]}

(* References and data: none, an empty string, and more than a region.     *)
Consts == {[refs |-> <<>>, data |-> <<>>], [refs |-> <<0>>, data |-> <<>>],
           [refs |-> <<0, 2>>, data |-> <<3, 1, 2>>], [refs |-> <<0>>, data |-> [k \in 1 .. 8 |-> 1]],
           [refs |-> <<0, 1, 2, 3>>, data |-> <<1, 1, 1, 1>>]}

(* The last is one instruction too long for the array. *)
Codes == {<<>>, <<1>>, <<2, 3, 1, 3>>, <<3, 0, 3, 2>>, <<0, 2>>, <<0, 0, 2, 0, 1>>}

Program(libs, cfuns, consts, code) ==
  [libs |-> libs, cfuns |-> cfuns, refs |-> consts.refs, data |-> consts.data, code |-> code]

MCPrograms == {Program(l, f, c, x) : l \in LibLists, f \in CfunLists, c \in Consts, x \in Codes}
=============================================================================
