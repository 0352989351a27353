----------------------------- MODULE ProgramFile -----------------------------
(***************************************************************************)
(* The program file: what tasm_translator_generate_bin writes              *)
(* (src/include/tasm/tasm_translator.h) and tvm_load_program_from_file     *)
(* reads (src/include/tvm/tvm.h).  A file is a sequence of bytes; numbers  *)
(* are little-endian and keep their width, so lengths wrap.                *)
(*                                                                         *)
(* The loader is cut where it asks its arena for memory: one step for each *)
(* record.                                                                 *)
(***************************************************************************)
EXTENDS Arena, SequencesExt

CONSTANTS
  ByteValues,    \* 256
  ShortBytes,    \* sizeof(uint16_t)
  WordBytes,     \* sizeof(uint32_t)
  SizeBytes,     \* sizeof(size_t)
  OpcodeBytes,   \* sizeof(opcode_t)
  MaxLibs,       \* MAX_LIB_COUNT and TVM_METADATA_MAX_MODULE_CAPACITY: 32
  MaxCfuns,      \* TVM_METADATA_MAX_CFUN_CAPACITY: 512
  MaxCode,       \* MAX_PROGRAM_CAPACITY and TVM_PROGRAM_CAPACITY: 1024
  ProgramArena   \* vm.program.program_arena, of 1024 bytes

ASSUME ProgramArenaAssumption == ProgramArena \in Arenas

(* Every field has bytes.  What powers are is spelled out for proofs: the  *)
(* provers know nothing of ^.                                              *)
Widths == {1, ShortBytes, WordBytes, SizeBytes, OpcodeBytes}
ASSUME WidthsAssumption ==
  /\ ByteValues \in Nat \ {0} /\ Widths \subseteq Nat \ {0}
  /\ ByteValues ^ 0 = 1
  /\ \A w \in Widths : \A k \in 1 .. w : ByteValues ^ k = ByteValues * ByteValues ^ (k - 1)

(* The first two are far below what a field of four bytes holds; the size  *)
(* of the code is in no field.                                             *)
ASSUME BoundsAssumption ==
  /\ MaxLibs \in Nat /\ MaxLibs < ByteValues ^ WordBytes
  /\ MaxCfuns \in Nat /\ MaxCfuns < ByteValues ^ WordBytes
  /\ MaxCode \in Nat

VARIABLES
  file,   \* the bytes of out.bin
  load,   \* the loader: bytes read so far, byte_size, and the step it is at
  vm      \* vm.program

Bytes(v, width) == [k \in 1 .. width |-> (v \div ByteValues ^ (k - 1)) % ByteValues]
Number(bytes) == FoldRight(LAMBDA b, rest : b + ByteValues * rest, bytes, 0)
Wrapped(v, width) == v % ByteValues ^ width

(* The C types, in the order of tvm_ctype and of the assembler's tokens. *)
CTypes == <<"u8", "u16", "u32", "u64", "i8", "i16", "i32", "i64", "f32", "f64", "ptr", "void">>
CType == {CTypes[k] : k \in DOMAIN CTypes}
TypeByte(ctype) == (CHOOSE k \in DOMAIN CTypes : CTypes[k] = ctype) - 1

-----------------------------------------------------------------------------
(* The writer.  A program has the names of the libraries of the command    *)
(* line, the functions of the source, constants and code.                  *)

First(s, width) == SubSeq(s, 1, Wrapped(Len(s), width))

WrittenName(name) == Bytes(Len(name), 1) \o First(name, 1)

TypesOf(f) == [k \in DOMAIN First(f.atypes, ShortBytes) |-> TypeByte(f.atypes[k])]
WrittenTypes_Words(f) ==   \* faulty: as wide as the comment in the writer has them
  FlattenSeq([k \in DOMAIN TypesOf(f) |-> Bytes(TypesOf(f)[k], WordBytes)])
WrittenTypes(f) == TypesOf(f)
WrittenCfun(f) ==
  WrittenName(f.symbol) \o Bytes(Len(f.atypes), ShortBytes) \o <<TypeByte(f.rtype)>> \o WrittenTypes(f)

(* Every function is in the first module: tasm_translate_cfunction. *)
CfunsOf(prog, k) == IF k = 1 THEN prog.cfuns ELSE <<>>
WrittenModule(prog, k) ==
  LET cfuns == CfunsOf(prog, k) IN
  WrittenName(prog.libs[k]) \o Bytes(Len(cfuns), WordBytes)
    \o FlattenSeq([i \in DOMAIN cfuns |-> WrittenCfun(cfuns[i])])

WrittenConsts(prog) ==
  Bytes(Len(prog.refs), SizeBytes) \o Bytes(Len(prog.data), SizeBytes)
    \o FlattenSeq([k \in DOMAIN prog.refs |-> Bytes(prog.refs[k], SizeBytes)])
    \o (IF prog.refs = <<>> THEN <<>> ELSE prog.data)

Written(prog) ==
  Bytes(Len(prog.libs), WordBytes)
    \o FlattenSeq([k \in DOMAIN prog.libs |-> WrittenModule(prog, k)])
    \o WrittenConsts(prog)
    \o FlattenSeq([k \in DOMAIN prog.code |-> Bytes(prog.code[k], OpcodeBytes)])

(* What the parser and the translator make of a source: an address of data *)
(* and a size is a size_t, an opcode an opcode_t, and every piece of data  *)
(* has a reference.                                                        *)
IsProgram(prog) ==
  /\ prog.libs \in Seq(Seq(0 .. ByteValues - 1))
  /\ prog.cfuns \in Seq([symbol : Seq(0 .. ByteValues - 1), rtype : CType, atypes : Seq(CType)])
  /\ prog.refs \in Seq(0 .. ByteValues ^ SizeBytes - 1) /\ Len(prog.refs) < ByteValues ^ SizeBytes
  /\ prog.data \in Seq(0 .. ByteValues - 1) /\ Len(prog.data) < ByteValues ^ SizeBytes
  /\ prog.refs = <<>> => prog.data = <<>>
  /\ prog.code \in Seq(0 .. ByteValues ^ OpcodeBytes - 1)

(* Past any of these bounds the assembler writes behind an array. *)
Holds(prog) ==
  Len(prog.libs) <= MaxLibs /\ Len(prog.cfuns) <= MaxCfuns /\ Len(prog.code) <= MaxCode

-----------------------------------------------------------------------------
(* The loader.                                                             *)

LoadInit ==
  /\ load = [at |-> 0, left |-> Len(file), step |-> "header"]
  /\ vm = [count |-> 0, modules |-> <<>>, refs |-> <<>>, data |-> <<>>, dataSize |-> 0, code |-> <<>>]

(* The n bytes k bytes behind the cursor, and the number in them.  No file *)
(* of the assembler's is read past its end: TypeOK of TVMMain.             *)
Ahead(k, n) ==
  [i \in 1 .. n |-> IF load.at + k + i \in DOMAIN file THEN file[load.at + k + i] ELSE 0]
NumberAhead(k, n) == Number(Ahead(k, n))

(* Every fread has a subtraction from byte_size of its own. *)
Consume_NotTypes(n, next) ==   \* faulty: nothing subtracted for the argument types
  load' = [at |-> load.at + n, left |-> IF load.step = "atypes" THEN load.left ELSE load.left - n,
           step |-> next]
Consume(n, next) ==
  load' = [at |-> load.at + n, left |-> load.left - n, step |-> next]

ReadHeader ==
  /\ load.step = "header"
  /\ Consume(WordBytes, "module")
  /\ vm' = [vm EXCEPT !.count = NumberAhead(0, WordBytes)]
  /\ UNCHANGED arenaVars

LastModule == vm.modules[Len(vm.modules)]
ReadModule ==
  /\ load.step = "module" /\ Len(vm.modules) < vm.count
  /\ LET len == NumberAhead(0, 1) IN
       /\ Alloc(ProgramArena, len + 1)
       /\ Consume(1 + len + WordBytes, "cfun")
       /\ vm' = [vm EXCEPT !.modules = Append(@,
                   [name |-> Ahead(1, len), count |-> NumberAhead(1 + len, WordBytes), cfuns |-> <<>>])]

(* The name of a function, and the sizes of what follows. *)
ReadCfun ==
  /\ load.step = "cfun" /\ Len(LastModule.cfuns) < LastModule.count
  /\ LET len == NumberAhead(0, 1)
         cfun == [symbol |-> Ahead(1, len), acount |-> NumberAhead(1 + len, ShortBytes),
                  rtype |-> NumberAhead(1 + len + ShortBytes, 1), atypes |-> <<>>]
     IN  /\ Alloc(ProgramArena, len + 1)
         /\ Consume(1 + len + ShortBytes + 1, "atypes")
         /\ vm' = [vm EXCEPT !.modules[Len(vm.modules)].cfuns = Append(@, cfun)]

ReadTypes ==
  /\ load.step = "atypes"
  /\ LET m == Len(vm.modules)
         i == Len(LastModule.cfuns)
         n == LastModule.cfuns[i].acount
     IN  /\ Alloc(ProgramArena, n)
         /\ Consume(n, "cfun")
         /\ vm' = [vm EXCEPT !.modules[m].cfuns[i].atypes = Ahead(0, n)]

LastCfun ==
  /\ load.step = "cfun" /\ Len(LastModule.cfuns) = LastModule.count
  /\ Consume(0, "module") /\ UNCHANGED <<vm, arenaVars>>

(* The size of the data is read before the references, and is in the state *)
(* for the step that reads the data behind them.                           *)
ReadReferences ==
  /\ load.step = "module" /\ Len(vm.modules) = vm.count
  /\ LET n == NumberAhead(0, SizeBytes)
         refs == [k \in 1 .. n |-> NumberAhead((k + 1) * SizeBytes, SizeBytes)]
     IN  /\ Alloc(ProgramArena, n * SizeBytes)
         /\ Consume((2 + n) * SizeBytes, IF n > 0 THEN "data" ELSE "code")
         /\ vm' = [vm EXCEPT !.refs = refs, !.dataSize = NumberAhead(SizeBytes, SizeBytes)]

ReadData ==
  /\ load.step = "data"
  /\ Alloc(ProgramArena, vm.dataSize)
  /\ Consume(vm.dataSize, "code")
  /\ vm' = [vm EXCEPT !.data = Ahead(0, vm.dataSize)]

(* The size of the program is what byte_size has left. *)
ReadCode ==
  /\ load.step = "code"
  /\ LET size == load.left \div OpcodeBytes IN
       vm' = [vm EXCEPT !.code = [k \in 1 .. size |-> NumberAhead((k - 1) * OpcodeBytes, OpcodeBytes)]]
  /\ Consume(load.left, "done")
  /\ UNCHANGED arenaVars

LoadStep ==
  /\ \/ ReadHeader \/ ReadModule \/ ReadCfun \/ ReadTypes \/ LastCfun
     \/ ReadReferences \/ ReadData \/ ReadCode
  /\ UNCHANGED file

-----------------------------------------------------------------------------
(* What a file is for, stated without it: the program the machine should   *)
(* get.  Lengths that do not fit their fields lose the rest of the name or *)
(* of the types, and nothing else.                                         *)

Kept(prog) ==
  [count |-> Len(prog.libs),
   modules |-> [k \in DOMAIN prog.libs |->
     [name |-> First(prog.libs[k], 1), count |-> Len(CfunsOf(prog, k)),
      cfuns |-> [i \in DOMAIN CfunsOf(prog, k) |->
        LET f == prog.cfuns[i] IN
        [symbol |-> First(f.symbol, 1), acount |-> Wrapped(Len(f.atypes), ShortBytes),
         rtype |-> TypeByte(f.rtype),
         atypes |-> TypesOf(f)]]]],
   refs |-> prog.refs, data |-> prog.data, dataSize |-> Len(prog.data), code |-> prog.code]
=============================================================================
