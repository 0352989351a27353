------------------------------- MODULE TVMMain -------------------------------
(***************************************************************************)
(* The way of a program through the tools: the assembler writes it, and    *)
(* the machine's main (src/src/tvm.c) loads it, opens its library and      *)
(* prepares its functions (src/src/tci.c), runs it and tears everything    *)
(* down.  Of the instructions only nop, hlt and native are here; TVM and   *)
(* its extensions have the others and what native does to the stack.       *)
(***************************************************************************)
EXTENDS ProgramFile

CONSTANTS
  Programs,       \* what the assembler is given
  Exports,        \* the symbols each library has, for the libraries there are
  FfiArena,       \* tci_instance.ffi_arena, of 4096 bytes
  FunctionBytes,  \* sizeof(tci_native_func_t)
  PointerBytes    \* sizeof(ffi_type*)

ASSUME ArenasAssumption == FfiArena # ProgramArena /\ Arenas = {ProgramArena, FfiArena}
ASSUME EntriesAssumption == FunctionBytes \in Nat /\ PointerBytes \in Nat

ASSUME ProgramsAssumption == \A prog \in Programs : IsProgram(prog)

VARIABLES
  program,  \* the program the assembler was given
  pc,       \* the call of main that is next, or how the process ended
  table,    \* native_funcs: what libffi was told of each prepared function
  open,     \* how often the library is open: dlopen and not dlclose
  ip,
  calls     \* every call of a C function, as libffi makes it

mainVars == <<program, pc, table, open, ip, calls>>
vars == <<mainVars, file, load, vm, arenaVars>>

Ends == {"done", "exited", "corrupt", "crashed"}
Goto(step) == pc' = step

(* The instructions, by the byte of their opcode. *)
Nop == 0
Halt == 1
IsNative(op) == op > Halt
Function(op) == op - Halt   \* which function, from 1

-----------------------------------------------------------------------------
(* The assembler, and the loader.                                          *)

Assemble ==
  /\ pc = "assemble"
  /\ IF Holds(program)
       THEN /\ file' = Written(program)
            /\ load' = [load EXCEPT !.left = Len(file')]
            /\ Goto("load")
       ELSE Goto("corrupt") /\ UNCHANGED <<file, load>>
  /\ UNCHANGED <<program, table, open, ip, calls, vm, arenaVars>>

(* What was asked for is written to at once. *)
Written_Past == \E i \in DOMAIN blocks' : Overruns(blocks[i])'

Load ==
  /\ pc = "load" /\ load.step # "done"
  /\ LoadStep
  /\ Goto(IF Written_Past THEN "corrupt" ELSE "load")
  /\ UNCHANGED <<program, table, open, ip, calls>>

Loaded ==
  /\ pc = "load" /\ load.step = "done"
  /\ Goto(IF vm.count > 0 THEN "open" ELSE "run")
  /\ UNCHANGED <<program, table, open, ip, calls, file, load, vm, arenaVars>>

-----------------------------------------------------------------------------
(* The library: only the first is opened.                                  *)

Library == vm.modules[1].name

LoadModule ==
  /\ pc = "open"
  /\ IF Library \in DOMAIN Exports THEN open' = open + 1 /\ Goto("prepare")
                                   ELSE UNCHANGED open /\ Goto("exited")
  /\ UNCHANGED <<program, table, ip, calls, file, load, vm, arenaVars>>

PrepareModule ==
  /\ pc = "prepare"
  /\ Alloc(FfiArena, FunctionBytes * vm.modules[1].count)
  /\ Goto(IF Written_Past THEN "corrupt" ELSE "functions")
  /\ UNCHANGED <<program, table, open, ip, calls, file, load, vm>>

(* tci_ctype_to_ffi_type. *)
FfiTypes == <<"uchar", "uint16", "uint32", "uint64", "schar", "sint16", "sint32", "sint64",
              "float", "double", "pointer", "void">>
FfiType_FromOne(byte) == FfiTypes[byte + 2]   \* faulty: the numbers begin behind a marker
FfiType(byte) == FfiTypes[byte + 1]

(* libffi may refuse a function; then is_ok is false. *)
PrepareFunction ==
  /\ pc = "functions" /\ Len(table) < vm.modules[1].count
  /\ LET f == vm.modules[1].cfuns[Len(table) + 1] IN
       /\ AllocByCopy(FfiArena, PointerBytes * f.acount)
       /\ \E ok \in BOOLEAN :
            table' = Append(table, [ok |-> ok, ret |-> FfiType(f.rtype),
                                    args |-> [k \in DOMAIN f.atypes |-> FfiType(f.atypes[k])]])
  /\ Goto(IF Written_Past THEN "corrupt" ELSE pc)
  /\ UNCHANGED <<program, open, ip, calls, file, load, vm>>

Prepared ==
  /\ pc = "functions" /\ Len(table) = vm.modules[1].count
  /\ Goto("run")
  /\ UNCHANGED <<program, table, open, ip, calls, file, load, vm, arenaVars>>

-----------------------------------------------------------------------------
(* tvm_run.  Behind the program the code is zero, and a zero is a nop.     *)

Opcode == IF ip < Len(vm.code) THEN vm.code[ip + 1] ELSE Nop
CfunCount == IF vm.count > 0 THEN vm.modules[1].count ELSE 0
Running == pc = "run" /\ ip <= Len(vm.code)

Keep == UNCHANGED <<program, table, file, load, vm, arenaVars>>

ExecNop == Running /\ Opcode = Nop /\ ip' = ip + 1 /\ UNCHANGED <<pc, open, calls>> /\ Keep
ExecHalt == Running /\ Opcode = Halt /\ ip' = ip + 1 /\ Goto("unload") /\ UNCHANGED <<open, calls>> /\ Keep

(* An exception exits and closes nothing.  A function nobody declared      *)
(* always raises one; of the others, a stack without the arguments or      *)
(* without room for the result, which TVMNative has.                       *)
ExecNativeFault ==
  /\ Running /\ IsNative(Opcode)
  /\ Goto("exited")
  /\ UNCHANGED <<open, ip, calls>> /\ Keep

(* tci_native_call: a function that was not prepared is passed over; one   *)
(* the library does not have closes the library and is called at 0.        *)
MissingSymbol_PassedOver == open' = open - 1 /\ ip' = ip + 1 /\ UNCHANGED pc   \* faulty
MissingSymbol == open' = open - 1 /\ Goto("crashed") /\ UNCHANGED ip

ExecNative ==
  /\ Running /\ IsNative(Opcode) /\ Function(Opcode) \in 1 .. CfunCount
  /\ LET id == Function(Opcode)
         symbol == vm.modules[1].cfuns[id].symbol
     IN  IF ~table[id].ok THEN ip' = ip + 1 /\ UNCHANGED <<pc, open, calls>>
         ELSE IF symbol \in Exports[Library]
           THEN /\ calls' = Append(calls, [at |-> ip, symbol |-> symbol,
                                           ret |-> table[id].ret, args |-> table[id].args])
                /\ ip' = ip + 1
                /\ UNCHANGED <<pc, open>>
           ELSE MissingSymbol /\ UNCHANGED calls
  /\ Keep

RunPastEnd ==
  /\ pc = "run" /\ ip > Len(vm.code)
  /\ Goto("unload")
  /\ UNCHANGED <<open, ip, calls>> /\ Keep

-----------------------------------------------------------------------------
(* The end of main: tci_unload_all, tvm_destroy, tci_destroy.              *)

UnloadAll ==
  /\ pc = "unload" /\ Goto("destroy vm")
  /\ open' = IF vm.count > 0 THEN open - 1 ELSE open
  /\ UNCHANGED <<program, table, ip, calls, file, load, vm, arenaVars>>

DestroyArena_Ffi(a) == Destroy(FfiArena)   \* faulty: one of them twice
DestroyArena(a) == Destroy(a)

DestroyVM ==
  /\ pc = "destroy vm" /\ Goto("destroy tci")
  /\ DestroyArena(ProgramArena)
  /\ UNCHANGED <<program, table, open, ip, calls, file, load, vm>>

DestroyTCI ==
  /\ pc = "destroy tci" /\ Goto("done")
  /\ DestroyArena(FfiArena)
  /\ UNCHANGED <<program, table, open, ip, calls, file, load, vm>>

-----------------------------------------------------------------------------
Init ==
  /\ program \in Programs
  /\ file = <<>> /\ LoadInit
  /\ pc = "assemble" /\ table = <<>> /\ open = 0 /\ ip = 0 /\ calls = <<>>
  /\ regions = <<Region(ProgramArena, 0, Null), Region(FfiArena, 0, Null)>>
  /\ handle = [a \in Arenas |-> IF a = ProgramArena THEN 1 ELSE 2]
  /\ blocks = <<>>

Next ==
  \/ Assemble \/ Load \/ Loaded
  \/ LoadModule \/ PrepareModule \/ PrepareFunction \/ Prepared
  \/ ExecNop \/ ExecHalt \/ ExecNativeFault \/ ExecNative \/ RunPastEnd
  \/ UnloadAll \/ DestroyVM \/ DestroyTCI

Spec == Init /\ [][Next]_vars

-----------------------------------------------------------------------------
(* Properties.                                                             *)

(* Every variable stays in its domain, and the bytes the loader counts     *)
(* down are those it has not read: every fread has a subtraction of its    *)
(* own (tvm.h:279-356).  The loader checks no count against its arrays:    *)
(* what it has loaded fits them all the same.                              *)
TypeOK ==
  /\ pc \in Ends \union {"assemble", "load", "open", "prepare", "functions", "run", "unload",
                         "destroy vm", "destroy tci"}
  /\ load.at \in 0 .. Len(file) /\ load.left = Len(file) - load.at
  /\ open \in 0 .. 1
  /\ table # <<>> => Len(table) <= CfunCount
  /\ load.step = "done" =>
       Len(vm.modules) <= MaxLibs /\ CfunCount <= MaxCfuns /\ Len(vm.code) <= MaxCode

(* The program the machine runs is the one the assembler was given, but    *)
(* for the ends of names and of type lists too long for their fields: the  *)
(* two sides agree on every field's place and width, and the size of the   *)
(* code comes out right though no field holds it                           *)
(* (tasm_translator.h:785-853, tvm.h:272-358).                             *)
RoundTrip == load.step = "done" => vm = Kept(program)

(* From the source to libffi: the k-th call of a C function is a native    *)
(* instruction's, it goes to the symbol the source declares in that place, *)
(* and with the types declared there (tasm_translator.h:572-580,           *)
(* tci.c:59-122).  Names and type lists that fit are meant.                *)
Declared ==
  [u8 |-> "uchar", u16 |-> "uint16", u32 |-> "uint32", u64 |-> "uint64",
   i8 |-> "schar", i16 |-> "sint16", i32 |-> "sint32", i64 |-> "sint64",
   f32 |-> "float", f64 |-> "double", ptr |-> "pointer", void |-> "void"]
CallsMatchDeclarations ==
  \A k \in DOMAIN calls :
    LET f == program.cfuns[Function(program.code[calls[k].at + 1])] IN
    /\ k > 1 => calls[k - 1].at < calls[k].at
    /\ Len(f.symbol) < ByteValues => calls[k].symbol = f.symbol
    /\ Len(f.atypes) < ByteValues ^ ShortBytes =>
         calls[k].args = [j \in DOMAIN f.atypes |-> Declared[f.atypes[j]]]
    /\ calls[k].ret = Declared[f.rtype]

(* The process does not end with the library open or closed twice, unless  *)
(* an exception ends it at once (tci.c:45-57, 124-138, tvm.c:46-51).       *)
ClosedOnce == pc \in {"done", "crashed"} => open = 0
=============================================================================
