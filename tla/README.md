# A TLA+ model of tile-vm

The tile virtual machine is a stack machine in C. An assembler (`tasm`) turns
`.tasm` text into a binary of instructions and constants, and `tvm` loads and
interprets it. Nearly all the code is in header files under `src/include`.
Nothing is concurrent: the hard parts are the state a long sequence of legal
instructions builds up, bounds that each handler checks for itself, memory
reached through pointers that may be stale, and passes that must agree.

This directory models the tools from the characters of a source to the calls
of C functions: lexer, parser, translator, program file, loader, native call
interface, interpreter, heap and arenas. `PROJECT.json` maps each definition to
the lines it stands for and lists the hazards, line by line.

## Inventory

| Component (source) | State | Operations | What is hard | What makes it correct |
|---|---|---|---|---|
| Interpreter (`include/tvm/tvm.h`) | program, operand stack, return stack, frame list, globals, `ip`, `halted` | 63 opcodes in `tvm_exec_opcode`, `tvm_run`, `tvm_frame_init/next/prev` | calls, returns and jumps in any order; freed frames reused; 32-bit writes in 64-bit slots; full and empty stacks | bounds, linked frames, calls nest, values stay whole, loop-free programs end |
| Heap (`include/tvm/tgc.h`, over `stb_ds.h`) | growable array of headers, block counter, value buffers | `tgc_create_block`, `tgc_mark`, `tgc_sweep`, `tgc_destroy` | addresses into an array that moves; deletion while iterating; uninitialised headers | an address designates its block; the sweep frees exactly the unmarked blocks |
| Heap opcodes (`tvm.h`: HALLOC, DEREF, DEREFB, HSET, HSETOF; `tgc_collect`) | both of the above | five opcodes and the collector's roots | bounds of a write, roots on the stack | accesses stay in their block; reachable blocks survive |
| Loader (`tvm.h` `tvm_load_program_from_file`) and writer (`tasm_translator.h`) | file position, code, constant table, modules | read, write | counts taken from the file; byte accounting yields the code size | what is written is what is read |
| Native calls (`src/tci.c`) | module and function tables of the program | load, unload, call through libffi | missing symbols, failed preparation | failure does not leave half a call |
| Arena (`include/common/arena.h`) | list of regions | init, alloc, destroy | handles passed by value, growth | distinct allocations are disjoint; destroy frees every region |
| Translator (`include/tasm/tasm_translator.h`) | tables of procedures and labels, addresses, constants, code | three passes over the AST | the passes count instructions separately; lookups by name | every label has the address of its instruction |
| Parser, AST, lexer (`include/tasm/*`) | token stream, peek token, AST | one production per line kind | a line nothing consumes; hexadecimal byte order | each line consumes something |
| Main programs (`tasm.c`, `tvm.c`) | exit status | order of the passes; load, open, run, tear down | each step may end the process | what was opened is closed once, what was allocated is freed once |
| Command lines (`cli.h`) | - | start-up, I/O | - | - |
| NASM back end (`tasmc*`) | output text | one template per opcode, few done | - | - |

How they interact. `tasm.c` runs lexer, parser and translator in sequence, each
allocating from an arena of its own; the translator writes a file; `tvm.c` loads it,
loads the modules it names through `tci`, and calls `tvm_run`. The interpreter
calls the heap for `OP_HALLOC` and `tci` for `OP_NATIVE`, directly. Shared
state is one `tvm_t`, plus the static array and counter of the heap. There are
no callbacks, no threads, no messages and nothing persistent besides the file.

## Modules

Which module uses which (`A <- B`: B extends or instantiates A):

    TVMAlu <- TVM <- TVMCallStack -> CallStack      (refinement)
    TVM, TGC <- TVMHeap <- TVMNative -> BlockStore  (refinement)
    TasmLines <- Tasm;  TasmLines, Lexer <- Parser
    Arena <- ProgramFile <- TVMMain -> Arena        (refinement)
    TVMProofs: theorems of TVM and TVMCallStack
    TGCProofs, TVMHeapProofs: theorems of TGC, and of TVMHeap and TVMNative
    ParserProofs, TasmProofs: theorems of Lexer and Parser, and of Tasm
    ArenaProofs, TVMMainProofs: theorems of Arena, and of ProgramFile and TVMMain
    LeastNumber: what the proofs use for induction on numbers
    MC*: instances for TLC

### `TVMAlu` - arithmetic

`Binary(op, a, b)` and `Unary(op, a)` are the sets of words an arithmetic,
comparison, logic, bit or cast opcode can leave. Words are integers modulo
`W` = 2^`Bits`. Signed addition, subtraction and multiplication wrap (what the
build does). Two kinds of operations may yield any word: shifts by a count outside
`0 .. Bits-1`, which C leaves undefined, and float arithmetic, whose rounding
no property depends on. Comparisons of floats use the orders `FLess` and
`FEqual`, which are parameters. `DivisionTraps` is `INT32_MIN / -1` (and `%`).

### `TVM` - the interpreter

One step is one iteration of the loop of `tvm_run`. The variables are the
fields of `tvm_t`:

| Variable | Code |
|---|---|
| `program` | `vm->program`: code, bytes of the constant table, offsets |
| `stack`, `sp` | the operand stack; slots from `sp` up keep stale contents |
| `return_stack`, `rsp` | the return stack |
| `frame`, `live`, `prev`, `next`, `local_vars` | `vm->frame`, the frames `malloc`'ed and not freed, and their fields by address |
| `global_vars` | `vm->gframe->global_vars` |
| `ip`, `halted` | the same |
| `status` | running, stopped (loop left), crashed (signal), or the exception |

An object is a tag and a union as long as a pointer: two words where pointers
have 64 bits, so that a handler which writes `ui32` or `i32` leaves the tag and
the high word of whatever the slot held. `ui64` is a `uintptr_t` (`tvm.h:135`),
so with pointers of 32 bits an object has one word; `PtrBytes` decides, and
`hi` is then always 0. `Fault` is
the sequence of checks of each handler, in the code's order; `Trap` ends the
process with the exception; the other actions are the handlers behind their
checks. `Ret` and `Call` include the frame operation they make: a fresh frame
has any free address, also one that was freed a moment ago, and its links are
`Junk`, never written. `ip` may equal `size`: the loop condition is
`ip <= size`, and the instruction there is the zero behind the program, a
`nop`. `Stop` frees the current frame only, as `tvm_run`'s end does.

Reads outside what is defined are choices: `OP_LOADC` reads four bytes from a
constant of any size, and bytes behind the table may be anything; `OP_PUTS` of
something that is no string may print or fault.

The heap opcodes and `OP_NATIVE` have no step in `TVM` itself; `TVMHeap` and
`TVMNative` add theirs. Left out: printing, `tvm_stack_dump`, and
`tgc_collect`, whose call is commented out. `malloc` for frames is assumed to succeed
(`MemoryAssumption`), since `tvm_frame_init` does not look.

A code of exactly 1024 instructions fills the array, and the byte fetched at
`ip = size` is then the low byte of the field behind it, `size` = 0x400,
which is 0: a `nop` again.

### `CallStack`, `TVMCallStack` - what a call promises

`CallStack` is an abstract machine: a sequence of activations, each with its
variables and the address it returns to. A call appends a cleared one, a
return drops the last and goes behind the call, and only the running
activation's variables change. `TVMCallStack` maps the interpreter to it: the
activations are what is found by following `prev` from the current frame, with
the return addresses beside them. `CallsNest` is the abstract specification as
a property.

### `TGC` - the heap's array

Headers live in an stb_ds array at `base`; when it grows `realloc` may move
it. The virtual machine keeps addresses of headers (`base` and index),
computed from `count` as the code does, not from the array's length. A block
with pointers reserves headers behind its own and never writes them: their
value is `Junk`. The sweep takes a step for each iteration: keep, or delete the
header and then free the value of the header now at that index. `held` are
the addresses given out; `handles` remembers for each the block it was given
for, until a sweep shifts it (both only observe). `corrupt` is set by a write
through the address of an array that moved or a free of something not
allocated; nothing is modelled after that. `gc_block.pointers` is left out:
nothing writes it. `MarkedStay` is about headers only: the buffer of a marked
block may still be freed, when the sweep deletes the header before it
(`tgc.h:94-95`, see `claim_sweep`). A header nobody initialised may seem marked
or not to the sweep, and freeing its value corrupts; no property says what
such a sweep should do.

### `TVMHeap`, `BlockStore` - the opcodes of the heap

The code of these opcodes depends on the compiler's target, and the constant
`Arch` says which part is built:

* `"x86_64"` (`#ifdef __x86_64__`): pointers of two words, elements of 1, 4 and
  8 bytes.
* `"i386"` (`#elif defined(__i386__)`): pointers of one word, elements of 1 and
  4 bytes. It is what `gcc` builds with the 32-bit libffi that `Makefile:6`
  names. Here the offset, which is in bytes already, is added to a `uint32_t*`
  for an element of 4 (`tvm.h:936`, `tvm.h:964`): the word at index k is written
  at byte 16k, not 4k (`Place`). So only the first word of a block is where its index says;
  the others hit another element's place or leave the block.
* `"neither"`: a compiler that defines neither macro, like Microsoft's, which
  `CMakeLists.txt:5` prepares for. Every `OP_HSET` and `OP_HSETOF` that gets
  past the bounds ends in `INVALID_PRIMITIVE_SIZE`, and pointers have either
  length.

The theorems are about all three; the first two have runs of their own, and
in the third nothing is ever written.

`TVMHeap` puts `TGC` into the interpreter and gives memory addresses: a buffer
begins at `BufferAt`, a header at `HeaderAt` plus its index times the size of
`gc_block`, and an address is the words of an object. `bytes` holds what
the buffers contain. `Known` is what a byte of memory is known to hold (a
buffer, the constant table, or the `value` field of a header, through which
`OP_DEREF` gets from a header to its buffer); `Read` yields anything for bytes
that hold nothing known, and `Faults` says when it may fault.
`OP_HSET` and `OP_HSETOF` are one action with their own `Offset`, their
checks in the code's order, and three ends: an exception, a write inside the
block, and a write past its end, where the model ends (`corrupt`).
`HSetWild` is either opcode through something that is no header. `HeapStop`
frees the array of headers and no buffer, as the end of `tvm_run` does.

`BlockStore` is what a program may rely on: a set of blocks of bytes, where a
step makes a block or writes an element of one of the target's sizes inside
one. `ImplementsBlockStore` says that the whole interpreter is one. It does not
say where in the block a write goes, so it holds on i386 as well.

`ImplementsBlockStore` is stated in `TVMNative`, where every opcode has its step,
and so is `WritesStayInside`, which says what can spoil the process. The check
of `OP_HSET` looks at where an element begins, on a product that wraps; this is
enough for a fresh address of a block whose size is a multiple of the
element's. The other ways are named in the property, and each does occur:
`OP_HSETOF` at an odd offset; `OP_HSET` through a stale address; `OP_HSET` in a
block whose size is no multiple of the element's; on i386, `OP_HSET` of a word
at any index but the first; and a native call of a function with more arguments
than `OP_NATIVE`'s array of pointers takes (`VargsCap`) or with a result longer
than its `unsigned long ret` (`fits`).

`HeadersDescribeBuffers` carries `HandlesDesignate` of `TGC` over to the whole
process and adds the size that `OP_HSET` checks against. That no write
inside a buffer changes a header is by construction, and a write that overruns
ends the model: such writes are the subject of `WritesStayInside` alone.

### `TVMNative` - native calls in the interpreter

With it every opcode has a step, and `ProcessSpec` is the whole interpreter.
`OP_NATIVE` copies the record of the function before it checks the index, so
the argument count may be one from behind the last function (0 there, any word
behind the table): `NativeFaults` is the set of exceptions that can give. A
function libffi refused is passed over and leaves 0; a missing symbol is
called as a null pointer. The C function itself is external: it returns any
word and leaves the interpreter's memory alone. libffi writes the result as
long as its declared type says, into an `unsigned long`; whether that is long
enough is a parameter of each function (`fits`), since it depends on the
target: a `u64` is too long where `unsigned long` has 32 bits.

### `Tasm` - the translator

The syntax tree is flat: its lines in the order all passes visit them, each
with the procedure it is in (`Parsed` says which sequences the parser
yields). One step is one line in one pass: `CountForProcs`, `DeclareProc`
(`tasm_resolve_procs`), `CountForLabels`, `DeclareLabel`
(`tasm_resolve_labels`), `EmitPlain`, `EmitSymbolic`, `TranslateData`
(`tasm_translate_unit`), and `NextPass` in the order of `tasm.c`. A name with
its procedure's prefix is a pair; identifiers cannot contain the `$` between
them, so pairs lose nothing. Symbol tables are sequences and `Lookup` takes the
first match, as the code does. That matters: a jump takes its address from
`label_calls`, in which procedures called earlier stand under their bare name,
so outside procedures a call to `x` followed by a jump to a label `x` jumps to the
procedure. The repository does not say whether a label and a procedure may
share a name; `TargetsDesignate` leaves out exactly these jumps (`Shadowed`).

The ends of a run are kept apart: a file is written, errors were reported, a
duplicate called `exit(1)`, `@data` without a literal was followed through its
null pointer, or a table overflowed (the code checks no capacity; nothing is
promised afterwards). Operands that are numbers are left out; `cfun` lines and
the file are in `ProgramFile`. The syntax tree is in `TasmLines`, which the
parser's module uses as well.

### `Lexer`, `Parser` - from characters to the syntax tree

The source is the buffer `read_file_content` fills: characters by class, then
`eof` (the code stores `EOF` as a character), then what lies behind. The lexer's
state is its cursor and `peek`, the static counter of
`tasm_lexer_peek_upgraded`; previous, current and next character follow from
the cursor. `NextToken` has the order of `tasm_lexer_get_next_token`: the
character before the cursor decides first whether this is the inside of quotes.
A token's text longer than its buffer is `corrupt`; a scan that looks for an
end of line that does not come has `hung`.

`Parser` has the two tokens of lookahead and `is_err`. Each function of the
parser is an operator from its state to the next, and one step is one call of
`tasm_parse_line` or `tasm_parse_proc_line`, the beginning or the end of a
procedure, or the end of the file. `Eat` (records an error, consumes nothing)
and `Report` (consumes, then records) are `tasm_parser_eat` and
`tasm_parser_err`. The verdict is `main`'s: no translation after an error. A
file is then `accepted` or `rejected`, or the parser never returns (`hung`) or
is lost (`crashed`, `corrupt`).

`Derivable` states the language as a grammar over the tokens, without the
parser. Its tokens are the lexer's own (`NextToken`), so a text in which the
lexer hangs is merely one that is not derivable; whether the lexer cuts a text
into the right tokens is not what `VerdictIsGrammar` shows. The grammar shows
what the language is: a label needs no line of its own; `@data` without a
literal is a file (the translator then follows a null pointer, see `Tasm`); an
empty string, and a space or a comment behind a closing quote, are errors,
because the lexer takes them for the inside of another string; a `\0` in a
string cuts it there.

The parser stands still for ever where a line begins with `-`, or, outside
procedures, with `data`, and at a 0 byte (`Stuck`); everywhere else it comes to an end
(`EndsOrSticks`).

### `Arena` - regions and blocks

`regions` are the regions `malloc` gave out, `handle` where each arena's
handle points, `blocks` what was given out. `Alloc` gets the handle by
reference, `AllocByCopy` by value: then the caller keeps the old handle, and
the next growth puts another region in the new one's place. `Destroy` goes back to the
head and forward from there, so it frees every region but those that lost
their place (`OnlyDisplacedRegionsLeak`; the comment "Free all" of `arena.h:93`
means the list). A region made for a request larger than itself is overrun
(`OnlyLargeBlocksOverrun`).

### `ProgramFile`, `TVMMain` - from the assembler to the C function

`Written` is the file, byte by byte, as `tasm_translator_generate_bin` writes
it; the loader is a step for each record it reads and allocates for, with
`left` for `byte_size`. Numbers have their widths, so that lengths wrap.
The loader checks no count against its arrays of 32 modules, 512 functions and
1024 instructions. They have the bounds of the assembler's tables, behind which
the assembler itself writes (`Holds`; the process is then `corrupt` before
there is a file), so what is loaded fits (`TypeOK`, last conjunct). A file
the assembler did not write could overflow them; no such file is modelled.

`RoundTrip` is the meaning of both: the machine gets the program the
assembler had, but for the ends of names and type lists that do not fit their
length fields (`Kept`). The layout comment in the writer
(`tasm_translator.h:789-803`) has constants behind the code and four bytes for
a type; the code writes them before it, and one byte.

`TVMMain` is `main` of `tvm.c`: load, open the first library, prepare its
functions, run, close, destroy both arenas. `Alloc` and `AllocByCopy` are
where the code calls `arena_alloc`, and a block that overruns its region makes the
process `corrupt`, since the memory is written at once: constants of more than
1024 bytes, or a table of functions of more than 4096. Of the
instructions only `nop`, `hlt` and `native` are here; an exception of
`native` because of the stack is a choice (`TVMNative` has its reason). All
functions are recorded for the first library; without `-l` they are lost.

That main's calls are calls the arena allows is a refinement: `ArenaSpec`
as a property of the run, and a theorem for requests of every size.

## Runs

Each run takes about a minute or less with two workers.

| Run | Instance | Question |
|---|---|---|
| `tvm_x86_64` | the whole interpreter, `Arch = "x86_64"`: every program of up to 5 instructions over calls, returns, jumps, stores and loads; every program of up to 3 moves and of 4 out of 8 moves; programs that allocate one to three blocks and set and read them with every size, good and bad index; native calls of five functions and two wrong indices over stacks of 0 to 4. Words of 4 bits, bytes of 2, operand stack of 4, return stack of 3, initial array of 1 header | `FrameChain`, `ReturnsBehindCalls`, `NoTornValues`, `HeapTypeOK`, `HeadersDescribeBuffers`, `WritesStayInside`, and `CallsNest` and `ImplementsBlockStore` (refinements) |
| `tvm_i386` | the whole interpreter, `Arch = "i386"`: blocks of 8 and 20 bytes set at nine indices and offsets with elements of 1, 4 and 8 bytes, and read; a native result that does not fit. Words and addresses of 8 bits, bytes of 2 | `WritesStayInside`, and `ImplementsBlockStore` (refinement) |
| `tvm_termination` | every short program over all opcodes of `TVM` (the heap's and `OP_NATIVE` have no step there) with every pair of operands, and every program of up to 4 calls and forward jumps; 3 bits, operand stack of 2, return stack of 2 | `TypeOK`, and `Termination` under fairness |
| `tgc` | up to 4 headers, 3 buffers, 2 places for the array, blocks with 0 or 1 pointer, initial capacity 2 | `TypeOK`, `CountIsLength`, `HandlesDesignate`, `MarkedStay` |
| `tasm` | every source of four lines over two names, in and outside procedures, three kinds of `@data`; room for 3 instructions and 2 entries in each table | `TypeOK`, `PassesAgree`, `TargetsDesignate`, `VerdictIsRight`, `ConstantsLieWhole` |
| `front` | every source of up to three of 26 fragments (lines, right and wrong, and parts of lines), and every `@data` with four characters out of quotes, backslash, space, letter and end of line, with and without memory that looks like a line behind the file; texts of up to 3 characters | `TypeOK`, `VerdictIsGrammar`, `TreeIsSource`, `NoNullLiteral`, `PeekStaysOnlyOnTheLastLine`, and `EndsOrSticks` under fairness |
| `file` | 15,480 programs: six lists of up to three libraries (known, unknown, a name too long), up to four of four kinds of functions, five constant tables, six codes; bytes of 4 values, one-byte counts, arenas of 7 and 5 bytes | `TypeOK`, `RoundTrip`, `CallsMatchDeclarations`, `ClosedOnce`, `BlocksDisjoint`, `OnlyLargeBlocksOverrun`, `OnlyDisplacedRegionsLeak`, `ArenaSpec` (refinement) |
| `claim_peek` | as `front` | violated: does the reset function reset? |
| `claim_fac` | `examples/fac.tasm`, 8-bit words | violated: does it return the factorial? |
| `claim_ltf` | every pair of floats under `OP_LTF` | violated: is it "less than"? |
| `claim_sweep` | as `tgc` | violated: does the sweep free what is unmarked? |
| `claim_cap` | as `tgc`, five headers, stb_ds's initial capacity 4 | violated: do the first ten blocks stay where they are? |

Why the bounds are enough. Programs are enumerated, not chosen: every
combination of calls, returns and jumps of that length occurs, so recursion to
the limit, returns without a call, jumps into a procedure and out of one, and
a frame's address reused after a return all happen in `tvm_x86_64`. Four frame
addresses are what the deepest nesting needs, so at every lesser depth a fresh
frame has a choice. Frame addresses are interchangeable, hence the symmetry
set; the run with a liveness property does not use it. Small
stacks make full and empty stacks reachable in two instructions. In
`tvm_termination`, three bits are the least that has distinct signed, unsigned and boolean readings of a
word and leaves room for a jump target outside the code; the word in the
constant table is three one-bit bytes, so `WordAt` still mixes neighbours. The
theorems below remove these bounds for the safety properties of `TVM`.

In `tasm`, four lines are enough for a procedure with a label and a jump
beside a label of the same name outside, for a call, its procedure, a shadowed
label and its jump, and for constants of different length with code between
them; the capacities are below the number of lines so that each table
overflows in some source. Names are interchangeable (symmetry).

In `tvm_x86_64`, the four-bit word makes a product of index and size wrap, the
first buffer lies across the end of a word so that both words of an address
matter, and an initial capacity of 1 (stb_ds has 4, see `claim_cap`) makes the
second block move the array, so addresses go stale. In `tvm_i386`, where a word
is four bytes as in the code, a block of 20 bytes has a place where the second
word goes (byte 16) and one of 8 has not, and a product of 64 and 4 wraps to 0;
it has no calls, which do not depend on the target. In `front`, three
fragments are enough for a procedure with a line and its end, for
a string before another one, an error before a right line, and each way to
end a line; four characters behind `@data` are a string, an escaped quote, an
empty string, or two quotes and something between them. In `file`, the
arenas are small enough that every kind of block overflows a region and some
are larger than one, a name of 4 wraps its length to 0, and a fourth function,
a third library or a fifth instruction exceeds the tables.

Deadlock checking is off: a program that halted, or ended in an exception, is
meant to stop, the assembler and both `main`s end, and the heap stops at its bounds.

Fairness. `FairSpec` adds weak fairness of `Next` as a whole: the loop of
`tvm_run` is a single thread that does nothing but take the next iteration.
No handler is favoured; in each running state there is one enabled handler.
`Parser`'s `Spec` has the same fairness for the same reason: one thread runs the loops of
`tasm_parse_file`. No other run needs fairness.

### Findings

* `claim_fac`: `OP_JZ` pops what it tests (`tvm.h:613`), and `fac.tasm` pops it
  again at the target, so the example ends with a stack underflow instead of
  the factorial its comment states.
* `claim_ltf`: `OP_LTF` computes `<=` (`tvm.h:713`).
* `claim_sweep`: `tgc_sweep` deletes a header and then frees the value of the
  next one (`tgc.h:92`); of two unmarked blocks one survives without its
  buffer.
* `claim_cap`: the comment that the array starts with room for ten headers
  (`tgc.h:65`) does not match stb_ds, which starts with four, so the fifth
  block may invalidate the addresses of the first four.
* `claim_peek`: `tasm_lexer_peek_upgraded` returns at the end of the buffer
  before it looks at `reset` (`tasm_lexer.h:95`), so a string on the last line
  leaves the counter as it was. `PeekStaysOnlyOnTheLastLine` shows how far that
  reaches.

## Proofs

The theorems hold for every value of the constants that satisfies the
assumptions of the module (`ASSUME`, next to the constants). Of 33 properties
the passing runs check, 29 are stated by a theorem.

| Module | Theorem | Property |
|---|---|---|
| `TVMProofs` | `TypeCorrect`, `FramesCorrect`, `ReturnsCorrect`, `ValuesWhole` | `TypeOK`, `FrameChain`, `ReturnsBehindCalls`, `NoTornValues` of the interpreter |
| `TVMProofs` | `CallsNestCorrect` | `CallsNest`: the interpreter implements `CallStack` |
| `TGCProofs` | `TypeCorrect`, `CountCorrect`, `HandlesCorrect`, `MarkedCorrect` | `TypeOK`, `CountIsLength`, `HandlesDesignate`, `MarkedStay` of the heap |
| `TVMHeapProofs` | `ProcessTypeCorrect`, `ProcessFramesCorrect`, `HeadersCorrect`, `WritesCorrect`, `BlocksCorrect` | `HeapTypeOK`, `FrameChain` and `ReturnsBehindCalls`, `HeadersDescribeBuffers`, `WritesStayInside`, `ImplementsBlockStore` of the whole process |
| `TasmProofs` | `TypeCorrect`, `PassesCorrect`, `TargetsCorrect`, `VerdictCorrect`, `ConstantsCorrect` | `TypeOK`, `PassesAgree`, `TargetsDesignate`, `VerdictIsRight`, `ConstantsLieWhole` of the translator |
| `ArenaProofs` | `AllocationsAreDisjoint`, `OnlyLargeRequestsOverrun`, `LeaksAreDisplaced` | `BlocksDisjoint`, `OnlyLargeBlocksOverrun`, `OnlyDisplacedRegionsLeak` of the arenas |
| `TVMMainProofs` | `LibraryClosedOnce`, `MainUsesArenas`, `MainArenasCorrect` | `ClosedOnce`, `ArenaSpec`, and the three of the arenas in `main` |
| `TVMMainProofs` | `MainTyped`, `LoaderReadsWriter`, `CallsAsDeclared` | `TypeOK`, `RoundTrip`, `CallsMatchDeclarations` of the way from the assembler to the C function |
| `ParserProofs` | `ParserTyped`, `NoNullRead`, `PeekHarmless` | `TypeOK`, `NoNullLiteral`, `PeekStaysOnlyOnTheLastLine` of lexer and parser |

`LeastNumber` proves `LeastNat`: a set of numbers that is not empty has a least
one. Where an induction on a number is needed, the proofs take the least
counterexample. In the same way they show that a recursive function has the
value its definition says (`Leftmost`, `Rightward`, the folds behind `Number`
and `FlattenSeq`, and any loop that counts something down, `LoopEnds` of
`ParserProofs`): a solution up to n is extended to n + 1.

### The interpreter

`TypeOK` alone is not inductive: `OP_RET` jumps to whatever is on the return
stack and steps to whatever the frame's `prev` says, which may be `Junk`. The
inductive invariant is `IInv`, the conjunction of `TypeOK`, `FrameChain` and
`ReturnsBehindCalls`. A return stays in the code because the address lies
behind a call (`ReturnsBehindCalls`), and reaches a frame because the list has
as many frames as there are pending calls, plus one (`FrameChain`).
`FrameChain` asks for a witness, the list of frames from the oldest to the
current one: a call appends the new address to it, a return drops the last, and
every other step keeps it. `Invariance` proves `IInv` inductive, with one lemma
for each group of handlers: those that leave frames and the return stack alone
share `KeptSteps`, so that only `Call`, `Ret` and `Stop` need an argument about
the list.

`NoTornValues` is strengthened to `WholeValues`: all stack slots, also the
stale ones above `sp`, and all frames, also freed ones, hold values the program
named. `OnlyMoves` depends on `program` alone, which no step changes.

`CallsNestCorrect` maps each step by the same list. The frames found by
following `prev` are the list of `FrameChain`, for there is only one; so a call
appends an activation with cleared variables, a return drops one and leaves the
others as they were, and a store reaches no frame but the current one, since
no address is twice in the list.

### The heap, and the whole process

In `TGC`, `HandlesDesignate` speaks of addresses into the place where the array
is. That is not inductive, since `realloc` may put the array back where it once
was: what is kept is `HandlesStand`, that the header at the index of every
handle is its block, wherever the array is. `MarkedCorrect` is about a step,
from `TypeOK` before it.

For the process, `PInv` is the conjunction of the interpreter's `IInv` with
`HeapTypeOK`, `HeadersOwn` (a header that was written is a buffer's, and has
its size), `HandlesStand` and `WritesStayInside`. `WritesStayInside` needs
arithmetic: a product below the block's size modulo 2^32, whose factor divides
2^32, ends inside the block if the size is a multiple of that factor. On i386
this argument is about bytes and the first word, where `Place` is the offset. The laws
of exponents used there are assumptions on the constants
(`SizesAssumption`, with `ArchAssumption` for what each target's pointers are), as are disjoint address ranges (`AddressAssumption`);
TLC evaluates them on every run. `BlocksCorrect` maps `OP_HALLOC` to the
making of a block, the heap's writes to writes inside one, and every other
opcode, native calls too, to nothing.

### The translator

The inductive invariant says what each pass has done so far (`PassInv`): the
counter is the number of instructions ahead of the current line (`Before`), and
the table lists exactly the declarations ahead of it, each with the address of
its line (`Lists`). The duplicate check makes declarations unique, so that the
first match of a lookup is the declaration meant (`ListsAddress`). While no
error has been reported, the code has as many instructions as lie ahead of the
current line: an instruction is dropped only when its name is not found, and
then the error is set.

A second invariant, `OutInv`, has what comes out. Every emitted jump and call
goes to the line its name means (`Resolved`), except jumps that find a
procedure among the calls made so far (`Noted`); each reference is where the
bytes of its constant begin (`Laid`); an error means an undeclared name, and
`exit(1)` one declared twice. The three theorems read it off at the end of the
passes.

### The arenas, and main

That blocks are disjoint rests on `BlocksBelowSize`: a block in use ends at or
below its region's `size`, which is why the next one, which begins there, meets
none of them. What is leaked rests on the shape of the lists (`Chained`): links
go both ways except to a displaced region, each arena has one first region, the
handle is at a region that kept its place, and the regions that kept theirs
are in the order of their addresses. Then going back to the head and forward
again reaches exactly those (`LeftmostIsFirst`, `RightwardIsRest`), and
`DestroyFrees` that these and no others are freed.

`LibraryOpen` says at each call of `main` whether the library is open.

That the loader reads what the assembler wrote is an argument about places.
The invariant `Reading` has a case for each step of the loader, with the record
it is at: what of the file is still in front of the cursor, in the parts the
writer made it of (`Remains`), and what the machine has so far. The parts in
front are a sequence joined to the rest, so each lemma about a step
(`HeaderRead` to `CodeRead`) takes one part off the front (`Consumed`) and
shows that the field there is the number the writer put in (`FieldAhead`):
`Number` undoes `Bytes` up to the width of the field (`NumberOfBytes`, by
quotients and remainders). So a length that wrapped is read as the wrapped
length, and as many characters were written. `Delivery` starts this
when the assembler has written, and keeps it to the end of the process:
`RoundTrip`, and that no file is read past its end.

From there, `TableOK` says that entry k of the function table has the types
of the program's function k, as far as `libffi` was told, and `CallsOK` that
every call made is of the entry its instruction names and that the calls are in
the order of their instructions.

`MainUsesArenas` shows that `main` is a client the arenas allow, for requests
of every size: the loader asks for the arena's next block or for none
(`Asks`), the preparation of functions finds the sizes it asks for, and no
arena is destroyed before its turn (`ArenasInUse`). `MainArenasCorrect` then has
the properties of the arenas in the machine.

The assumptions are that widths and numbers are what their names say
(`WidthsAssumption`, `EntriesAssumption`), that a count of libraries or of
functions fits its field (`BoundsAssumption`), and that programs are made of
bytes, types and numbers of the width they are written with
(`ProgramsAssumption`). `WidthsAssumption` spells out what powers are, because
the provers know nothing of `^`; TLC evaluates it like the others.

### The lexer and the parser

The inductive invariant `Parsing` is about the buffer and the parser's state
(`Sane`): the cursor is in the buffer, with no `eof` in front of it; `peek` is
zero unless no line begins behind the cursor; a quote is the
current token only with a text behind it, and the next token only when it is
the character before the cursor. The last is why `NoNullLiteral` holds: the
character before the cursor tells the lexer that it is inside quotes, so that
the token after a quote is a string, or one of the four characters that
`InString` leaves to others, and all of those have a text.

Of the lexer, `NextLexed` says all this of one token, from whatever cursor and
`peek`, by a lemma for each function that collects one. The parser's functions
keep it because they only shift tokens and record errors (`StepsSane`). Two
loops have to come to an end first, for their functions to have a value: the
one that takes a string's characters moves the cursor or makes the string
longer (`TakenIs`); the one over the arguments of a declaration moves the cursor, brings
the tokens nearer to the one that stays, records an error, or hangs
(`ToGo`).

What the proofs assume of the characters is that letters and digits are none
of those the lexer asks for by themselves (`CharAssumption`), and of a
file that it has its end, behind at least one character (`FilesAssumption`).
The functions of the parser take one argument after another (`Eat[q][type]`),
since the provers have no functions of two.

### Only model-checked

* `Termination` and `EndsOrSticks`: liveness is out of the prover's reach.
* `VerdictIsGrammar` and `TreeIsSource`. They compare the parser with a grammar
  over the sequence of all tokens (`Tokens`, `Derivable`, `Opcodes`): that is
  an induction over the text for each of these functions, and, for a rejected
  file, over every way the grammar could have read it.
* What `TVMAlu` computes: its definitions stand for the C operators, and the
  runs exercise them with every pair of operands.

The library's induction theorems take an operator as a parameter, which the
installed provers cannot instantiate; an induction has to be put as the choice
of a least number.

## Plan

Modelling is done but for what the next section lists. What is left to prove is
`VerdictIsGrammar`, on top of `NextLexed`: that every token but the last moves
the cursor, so that `Tokens` has a value; then that a line parsed without an
error is one of `Phrases`. `TreeIsSource` needs the same sequence of tokens.

## Not modelled, and why

* `tgc_collect`: its call in `tvm_run` is commented out. Its two halves, mark
  and sweep, are in `TGC`. It would take its roots from the current frame
  only, whatever its comment "Traverse all variables" says; no run of the
  program reaches it.
* The values of number literals. Hexadecimal and binary literals are
  byte-swapped on a little-endian machine (`tasm_parser.h:824-843`), so that
  `swap 0x1` of `examples/recurisive.tasm` gets the operand 0x01000000; the
  models carry the text, not the number.
* IEEE arithmetic: any result, except for comparisons, which use an order.
* Output, warnings, locations, colours, `tvm_stack_dump`, `symbol_dump`,
  `tasm_ast_show`, and command lines: no state the rest depends on.
* `malloc` and `fread` that fail: the code does not look at either.
* Program files the assembler did not write.
* The NASM back end: it writes text for a few opcodes and is not used by the
  virtual machine.
* `stb_ds`, libffi and `dlopen` are third-party; of the first, the growth rule
  and deletion are modelled in `TGC` because the heap's correctness hangs on
  them, of the others what they may answer.
