-------------------------------- MODULE Tasm --------------------------------
(***************************************************************************)
(* The assembler's translator (src/include/tasm/tasm_translator.h, in the  *)
(* order src/src/tasm.c calls it).  Three passes walk the parsed file: the *)
(* first gives every procedure its address, the second every label, the    *)
(* third emits code and constants.  One step handles one line.             *)
(*                                                                         *)
(* The sources are what the parser can build (TasmLines; module Parser     *)
(* checks that it does).  Type, structure and native function lines emit   *)
(* nothing here and are left out; ProgramFile has the native functions and *)
(* the writing of the file.                                                *)
(***************************************************************************)
EXTENDS TasmLines, FiniteSets

CONSTANTS
  Sources,   \* the files to translate
  CodeCap,   \* TVM_PROGRAM_CAPACITY
  DeclCap,   \* SYMBOL_LABEL_DECL_CAPACITY
  CallCap,   \* SYMBOL_LABEL_CALL_CAPACITY
  ProcCap    \* SYMBOL_PROC_DECL_CAPACITY

Line == [kind : Kind, in : Ids \union {Top}, name : Ids \union {NoName},
         value : Seq(Nat) \union {NoValue}]

ASSUME NamesAssumption == Top \notin Ids /\ NoName \notin Ids /\ NoValue \notin Seq(Nat)
ASSUME SourcesAssumption ==
  \A lines \in Sources : lines \in Seq(Line) /\ Parsed(lines)
ASSUME CapAssumption == {CodeCap, DeclCap, CallCap, ProcCap} \subseteq Nat

VARIABLES
  source,
  phase,    \* the running pass, or how the run ended: "written", "rejected"
            \* (errors, no file), "exited" (exit(1)), "crashed" (null pointer),
            \* "corrupt" (a table overflowed; what follows is undefined)
  pos,      \* the line the pass is at
  proc_decls, proc_address_pointer,
  label_decls, label_address_pointer,
  label_calls,
  err,
  code,     \* program.code; a target is NoTarget unless the operand is a name
  referances, data, beginning_address   \* the constant table

procs  == <<proc_decls, proc_address_pointer>>
labels == <<label_decls, label_address_pointer>>
output == <<label_calls, err, code, referances, data, beginning_address>>
vars == <<source, phase, pos, procs, labels, output>>

-----------------------------------------------------------------------------
(* Symbols.                                                                *)

(* strcpy, strcat "$": no identifier has a "$", so the concatenation of a  *)
(* prefix and a name stands for the pair.                                  *)
Symbol == (Ids \union {Top}) \X Ids

Qualified_Bare(l) == <<Top, l.name>>   \* faulty: forgets the prefix
Qualified(l) == <<l.in, l.name>>

Entry == [name : Symbol, addr : Nat]

Unresolved == -1
NoTarget == -2

Has(table, name) == \E i \in 1 .. Len(table) : table[i].name = name

(* get_addr_from_..._symbol: the first entry of that name. *)
Lookup(table, name) ==
  IF ~Has(table, name) THEN Unresolved
  ELSE table[CHOOSE i \in 1 .. Len(table) :
               /\ table[i].name = name
               /\ \A j \in 1 .. i - 1 : table[j].name # name].addr

-----------------------------------------------------------------------------
(* The passes.                                                             *)

At(pass, kinds) == phase = pass /\ pos <= Len(source) /\ source[pos].kind \in kinds
line == source[pos]

Continue == pos' = pos + 1 /\ UNCHANGED <<source, phase>>
End(how) == phase' = how /\ UNCHANGED <<source, pos>>

(* AST_OP_CODES: the lines both counting passes count. *)
OpCodes_NoCalls == Instructions \ {"call"}   \* faulty: an opcode left out of the list
OpCodes == Instructions

Skip ==
  /\ \/ At("procs", Kind \ (OpCodes \union {"proc"}))
     \/ At("labels", Kind \ (OpCodes \union {"label"}))
     \/ At("code", {"label", "proc"})
  /\ Continue
  /\ UNCHANGED <<procs, labels, output>>

CountForProcs ==
  /\ At("procs", OpCodes)
  /\ proc_address_pointer' = proc_address_pointer + 1
  /\ Continue
  /\ UNCHANGED <<proc_decls, labels, output>>

(* An entry behind the last place of a table overwrites what follows it.   *)
DeclareProc ==
  /\ At("procs", {"proc"})
  /\ IF Has(proc_decls, <<Top, line.name>>) THEN End("exited") /\ UNCHANGED proc_decls
     ELSE IF Len(proc_decls) = ProcCap THEN End("corrupt") /\ UNCHANGED proc_decls
     ELSE /\ proc_decls' = Append(proc_decls,
               [name |-> <<Top, line.name>>, addr |-> proc_address_pointer])
          /\ Continue
  /\ UNCHANGED <<proc_address_pointer, labels, output>>

CountForLabels ==
  /\ At("labels", OpCodes)
  /\ label_address_pointer' = label_address_pointer + 1
  /\ Continue
  /\ UNCHANGED <<procs, label_decls, output>>

DeclareLabel ==
  /\ At("labels", {"label"})
  /\ IF Has(label_decls, Qualified(line)) THEN End("exited") /\ UNCHANGED label_decls
     ELSE IF Len(label_decls) = DeclCap THEN End("corrupt") /\ UNCHANGED label_decls
     ELSE /\ label_decls' = Append(label_decls,
               [name |-> Qualified(line), addr |-> label_address_pointer])
          /\ Continue
  /\ UNCHANGED <<procs, label_address_pointer, output>>

(* program_push *)
Emit(target) ==
  IF Len(code) = CodeCap THEN End("corrupt") /\ UNCHANGED code
  ELSE code' = Append(code, [line |-> pos, target |-> target]) /\ Continue

EmitPlain ==
  /\ At("code", {"inst"})
  /\ Emit(NoTarget)
  /\ UNCHANGED <<procs, labels, label_calls, err, referances, data, beginning_address>>

(* The names a jump and a call are looked up by: a call ignores where it   *)
(* stands.                                                                 *)
Used == IF line.kind = "call" THEN <<Top, line.name>> ELSE Qualified(line)

Decls == IF line.kind = "call" THEN proc_decls ELSE label_decls

Reported_Never(addr) == err   \* faulty: prints the error and goes on
Reported(addr) == err \/ addr = Unresolved

Dropped_Never(target) == FALSE   \* faulty: emits the -1
Dropped(target) == target = Unresolved

(* A symbolic operand is translated first: it is looked up and noted in    *)
(* label_calls, or reported.  Then a jump takes its address from           *)
(* label_calls, which also has the procedures called so far, and a call    *)
(* takes it from the procedures.                                           *)
EmitSymbolic ==
  /\ At("code", {"jump", "call"})
  /\ LET addr == Lookup(Decls, Used)
         calls == IF addr = Unresolved THEN label_calls
                  ELSE Append(label_calls, [name |-> Used, addr |-> addr])
         target == Lookup(IF line.kind = "call" THEN proc_decls ELSE calls, Used)
     IN  IF Len(calls) > CallCap
           THEN End("corrupt") /\ UNCHANGED <<label_calls, err, code>>
           ELSE /\ label_calls' = calls
                /\ err' = Reported(addr)
                /\ IF Dropped(target) THEN Continue /\ UNCHANGED code
                   ELSE Emit(target)
  /\ UNCHANGED <<procs, labels, referances, data, beginning_address>>

Following_Word(bytes) == beginning_address + 4   \* faulty: every constant a word
Following(bytes) == beginning_address + Len(bytes)

TranslateData ==
  /\ At("code", {"data"})
  /\ IF line.value = NoValue
       THEN End("crashed") /\ UNCHANGED <<referances, data, beginning_address>>
       ELSE /\ referances' = Append(referances, beginning_address)
            /\ data' = data \o line.value
            /\ beginning_address' = Following(line.value)
            /\ Continue
  /\ UNCHANGED <<procs, labels, label_calls, err, code>>

After == [procs |-> "labels", labels |-> "code", code |-> IF err THEN "rejected" ELSE "written"]

NextPass ==
  /\ phase \in DOMAIN After
  /\ pos > Len(source)
  /\ phase' = After[phase]
  /\ pos' = 1
  /\ UNCHANGED <<source, procs, labels, output>>

Init ==
  /\ source \in Sources /\ phase = "procs" /\ pos = 1
  /\ proc_decls = <<>> /\ proc_address_pointer = 0
  /\ label_decls = <<>> /\ label_address_pointer = 0
  /\ label_calls = <<>> /\ err = FALSE
  /\ code = <<>> /\ referances = <<>> /\ data = <<>> /\ beginning_address = 0

Next ==
  \/ Skip \/ NextPass
  \/ CountForProcs \/ DeclareProc
  \/ CountForLabels \/ DeclareLabel
  \/ EmitPlain \/ EmitSymbolic \/ TranslateData

Spec == Init /\ [][Next]_vars

-----------------------------------------------------------------------------
(* Properties.                                                             *)

Table(seq, cap) == seq \in Seq(Entry) /\ Len(seq) <= cap

(* Every variable stays in its domain; in particular no instruction ever   *)
(* has the -1 of a failed lookup for its operand (tasm_translator.h:19-47, *)
(* 306-308, 754).                                                          *)
TypeOK ==
  /\ source \in Seq(Line)
  /\ phase \in {"procs", "labels", "code", "written", "rejected", "exited", "crashed", "corrupt"}
  /\ pos \in 1 .. Len(source) + 1
  /\ Table(proc_decls, ProcCap) /\ Table(label_decls, DeclCap) /\ Table(label_calls, CallCap)
  /\ proc_address_pointer \in Nat /\ label_address_pointer \in Nat /\ beginning_address \in Nat
  /\ err \in BOOLEAN
  /\ code \in Seq([line : Nat, target : Nat \union {NoTarget}]) /\ Len(code) <= CodeCap
  /\ referances \in Seq(Nat) /\ data \in Seq(Nat)

(* The passes agree: when code is emitted, every label and every procedure *)
(* is reached with as many instructions emitted as the earlier passes      *)
(* counted in front of it, and each pass counted them alike                *)
(* (tasm_translator.h:656, 697, 753).                                      *)
PassesAgree ==
  /\ At("code", {"label"}) /\ ~err => Lookup(label_decls, Qualified(line)) = Len(code)
  /\ At("code", {"proc"}) /\ ~err => Lookup(proc_decls, <<Top, line.name>>) = Len(code)
  /\ phase = "written" => proc_address_pointer = Len(code) /\ label_address_pointer = Len(code)

(* How a reader of the file counts and finds its lines. *)
Places(kinds) == {i \in 1 .. Len(source) : source[i].kind \in kinds}
AddressOf(i) == Cardinality({j \in Places(Instructions) : j < i})

Labels(scope, id) == {i \in Places({"label"}) : source[i].in = scope /\ source[i].name = id}
Procs(id) == {i \in Places({"proc"}) : source[i].name = id}

Meant(i) ==
  IF source[i].kind = "call" THEN Procs(source[i].name)
  ELSE Labels(source[i].in, source[i].name)

(* A jump outside every procedure to a label that has the name of a        *)
(* procedure already called: label_calls has the procedure first.          *)
Shadowed(i) ==
  /\ source[i].kind = "jump" /\ source[i].in = Top
  /\ \E j \in Places({"call"}) : j < i /\ source[j].name = source[i].name

(* In a written program each instruction has its place, and each jump and  *)
(* call goes to the one declaration its name means there, forwards or      *)
(* backwards, a label of the same procedure or a procedure - but for       *)
(* shadowed jumps (tasm_translator.h:291-375, 560-595, 757-782).           *)
TargetsDesignate ==
  phase = "written" =>
    \A i \in Places(Instructions) :
      /\ AddressOf(i) < Len(code) /\ code[AddressOf(i) + 1].line = i
      /\ source[i].kind \in {"jump", "call"} /\ ~Shadowed(i) =>
           \E d \in Meant(i) : code[AddressOf(i) + 1].target = AddressOf(d)

(* The verdict is the right one: a file is written only of a source whose  *)
(* every name is declared, once, and is held back only for a name that is  *)
(* not (tasm_translator.h:586-590, 701-707, 729-735; tasm.c:99).           *)
VerdictIsRight ==
  LET undeclared == {i \in Places({"jump", "call"}) : Meant(i) = {}}
      duplicated == \/ \E i, j \in Places({"label"}) :
                         i # j /\ source[i].in = source[j].in /\ source[i].name = source[j].name
                    \/ \E i, j \in Places({"proc"}) : i # j /\ source[i].name = source[j].name
  IN  /\ phase = "written"  => undeclared = {} /\ ~duplicated
      /\ phase = "rejected" => undeclared # {}
      /\ phase = "exited"   => duplicated

(* The k-th reference is where the k-th constant lies, all of its bytes    *)
(* (tasm_translator.h:612-647).                                            *)
ConstantsLieWhole ==
  phase = "written" =>
    LET constants == Places({"data"}) IN
    /\ Len(referances) = Cardinality(constants)
    /\ \A i \in constants :
         LET start == referances[Cardinality({j \in constants : j <= i})] IN
         /\ start + Len(source[i].value) <= Len(data)
         /\ SubSeq(data, start + 1, start + Len(source[i].value)) = source[i].value
=============================================================================
