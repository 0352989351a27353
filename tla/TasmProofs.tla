----------------------------- MODULE TasmProofs -----------------------------
(***************************************************************************)
(* Machine-checked: the three passes of the translator agree, for every    *)
(* source, whatever its names and its length.                              *)
(***************************************************************************)
EXTENDS Tasm, LeastNumber, SequenceTheorems

(* A lookup of a name the table has finds an entry of that name. *)
LEMMA LookupFinds ==
  ASSUME NEW table \in Seq(Entry), NEW name, Has(table, name)
  PROVE  \E k \in 1 .. Len(table) : table[k].name = name /\ Lookup(table, name) = table[k].addr
<1> DEFINE Matches == {k \in 1 .. Len(table) : table[k].name = name}
           First(k) == table[k].name = name /\ \A j \in 1 .. k - 1 : table[j].name # name
<1>1. Matches \subseteq Nat /\ Matches # {} /\ Len(table) \in Nat
  BY DEF Has
<1>2. PICK m \in Matches : \A k \in Matches : m <= k
  BY <1>1, LeastNat
<1>3. m \in 1 .. Len(table) /\ First(m)
  BY <1>1, <1>2
<1>4. (CHOOSE k \in 1 .. Len(table) : First(k)) \in 1 .. Len(table)
      /\ First(CHOOSE k \in 1 .. Len(table) : First(k))
  <2> HIDE DEF First
  <2> QED BY <1>3
<1>5. Lookup(table, name) = table[CHOOSE k \in 1 .. Len(table) : First(k)].addr
  BY DEF Lookup
<1> QED
  BY <1>4, <1>5

LEMMA EntryType ==
  ASSUME NEW table \in Seq(Entry)
  PROVE  /\ Len(table) \in Nat
         /\ \A k \in 1 .. Len(table) : table[k] \in Entry /\ table[k].addr \in Nat
<1>1. Len(table) \in Nat /\ \A k \in 1 .. Len(table) : table[k] \in Entry
  OBVIOUS
<1> QED
  BY <1>1 DEF Entry

LEMMA LookupType ==
  ASSUME NEW table \in Seq(Entry), NEW name
  PROVE  /\ Has(table, name) => Lookup(table, name) \in Nat
         /\ Lookup(table, name) = Unresolved <=> ~Has(table, name)
<1>1. Has(table, name) => Lookup(table, name) \in Nat
  BY LookupFinds, EntryType
<1> QED
  BY <1>1 DEF Lookup, Unresolved

(* What appending an entry does to the names a table has. *)
LEMMA Appended ==
  ASSUME NEW table \in Seq(Entry), NEW e \in Entry
  PROVE  /\ Append(table, e) \in Seq(Entry)
         /\ Len(Append(table, e)) = Len(table) + 1
         /\ \A k \in 1 .. Len(table) : Append(table, e)[k] = table[k]
         /\ Append(table, e)[Len(table) + 1] = e
         /\ Has(Append(table, e), e.name)
         /\ \A n : Has(table, n) => Has(Append(table, e), n)
<1>1. Len(table) \in Nat /\ Append(table, e) \in Seq(Entry)
      /\ Len(Append(table, e)) = Len(table) + 1
      /\ \A k \in 1 .. Len(table) : Append(table, e)[k] = table[k]
      /\ Append(table, e)[Len(table) + 1] = e
  OBVIOUS
<1> DEFINE t == Append(table, e)
<1> HIDE DEF t
<1>2. Len(table) \in Nat /\ Len(t) = Len(table) + 1
      /\ (\A k \in 1 .. Len(table) : t[k] = table[k]) /\ t[Len(table) + 1] = e
  BY <1>1 DEF t
<1>3. Has(t, e.name)
  BY <1>2 DEF Has
<1>4. \A n : Has(table, n) => Has(t, n)
  BY <1>2 DEF Has
<1> QED
  BY <1>1, <1>3, <1>4 DEF t

-----------------------------------------------------------------------------
(* Lines of these kinds before line n; of instructions, they are the       *)
(* address of line n.                                                      *)
Ahead(lines, kinds, n) == {j \in 1 .. n - 1 : lines[j].kind \in kinds}
Count(lines, kinds, n) == Cardinality(Ahead(lines, kinds, n))
Before(lines, n) == Count(lines, Instructions, n)

LEMMA CountSteps ==
  ASSUME NEW lines, NEW kinds, NEW n \in Nat \ {0}
  PROVE  /\ Count(lines, kinds, 1) = 0
         /\ Count(lines, kinds, n) \in Nat
         /\ lines[n].kind \in kinds => Count(lines, kinds, n + 1) = Count(lines, kinds, n) + 1
         /\ lines[n].kind \notin kinds => Count(lines, kinds, n + 1) = Count(lines, kinds, n)
<1> DEFINE ahead == Ahead(lines, kinds, n)
<1>1. IsFiniteSet(ahead)
  <2>1. IsFiniteSet(1 .. n - 1)
    BY FS_Interval
  <2>2. ahead \in SUBSET (1 .. n - 1)
    BY DEF Ahead
  <2> QED BY <2>1, <2>2, FS_Subset
<1>2. Count(lines, kinds, 1) = 0
  <2>1. Ahead(lines, kinds, 1) = {}
    BY DEF Ahead
  <2> QED BY <2>1, FS_EmptySet DEF Count
<1>3. Cardinality(ahead) \in Nat
  BY <1>1, FS_CardinalityType
<1>4. n \notin ahead
  BY DEF Ahead
<1>5. Cardinality(ahead \union {n}) = Cardinality(ahead) + 1
  <2> HIDE DEF ahead
  <2> QED BY <1>1, <1>4, FS_AddElement
<1>6. ASSUME lines[n].kind \in kinds PROVE Ahead(lines, kinds, n + 1) = ahead \union {n}
  BY <1>6 DEF Ahead
<1>7. ASSUME lines[n].kind \notin kinds PROVE Ahead(lines, kinds, n + 1) = ahead
  BY <1>7 DEF Ahead
<1> QED BY <1>2, <1>3, <1>5, <1>6, <1>7 DEF Count

LEMMA BeforeSteps ==
  ASSUME NEW lines, NEW n \in Nat \ {0}
  PROVE  /\ Before(lines, 1) = 0
         /\ Before(lines, n) \in Nat
         /\ lines[n].kind \in Instructions => Before(lines, n + 1) = Before(lines, n) + 1
         /\ lines[n].kind \notin Instructions => Before(lines, n + 1) = Before(lines, n)
  BY CountSteps DEF Before

(* table has the declarations of a kind among the first n - 1 lines, each  *)
(* once, with the address of its line.                                     *)
Lists(lines, table, kind, n) ==
  /\ \A k \in 1 .. Len(table) : \E i \in 1 .. n - 1 :
       /\ lines[i].kind = kind /\ Qualified(lines[i]) = table[k].name
       /\ Before(lines, i) = table[k].addr
  /\ \A i \in 1 .. n - 1 : lines[i].kind = kind => Has(table, Qualified(lines[i]))
  /\ \A i, j \in 1 .. n - 1 :
       /\ lines[i].kind = kind /\ lines[j].kind = kind
       /\ Qualified(lines[i]) = Qualified(lines[j])
       => i = j

LEMMA ListsNothing ==
  ASSUME NEW lines, NEW kind
  PROVE  Lists(lines, <<>>, kind, 1)
  BY DEF Lists

LEMMA ListsPast ==
  ASSUME NEW lines, NEW table, NEW kind, NEW n \in Nat \ {0},
         Lists(lines, table, kind, n), lines[n].kind # kind
  PROVE  Lists(lines, table, kind, n + 1)
<1>1. \A i \in 1 .. (n + 1) - 1 : i \in 1 .. n - 1 \/ i = n
  OBVIOUS
<1>2. 1 .. n - 1 \subseteq 1 .. (n + 1) - 1
  OBVIOUS
<1>3. \A k \in 1 .. Len(table) : \E i \in 1 .. (n + 1) - 1 :
       /\ lines[i].kind = kind /\ Qualified(lines[i]) = table[k].name
       /\ Before(lines, i) = table[k].addr
  BY <1>2 DEF Lists
<1> QED
  BY <1>1, <1>3 DEF Lists

LEMMA ListsOneMore ==
  ASSUME NEW lines, NEW table \in Seq(Entry), NEW kind, NEW n \in Nat \ {0},
         Lists(lines, table, kind, n), lines[n].kind = kind,
         ~Has(table, Qualified(lines[n])),
         NEW e \in Entry, e.name = Qualified(lines[n]), e.addr = Before(lines, n)
  PROVE  Lists(lines, Append(table, e), kind, n + 1)
<1> DEFINE t == Append(table, e)
<1> HIDE DEF t
<1>1. \A i \in 1 .. (n + 1) - 1 : i \in 1 .. n - 1 \/ i = n
  OBVIOUS
<1>2. 1 .. n - 1 \subseteq 1 .. (n + 1) - 1 /\ n \in 1 .. (n + 1) - 1
  OBVIOUS
<1>3. /\ Len(table) \in Nat /\ Len(t) = Len(table) + 1
      /\ \A k \in 1 .. Len(table) : t[k] = table[k]
      /\ t[Len(table) + 1] = e
      /\ Has(t, e.name)
      /\ \A m : Has(table, m) => Has(t, m)
  BY Appended, EntryType DEF t
<1>4. \A k \in 1 .. Len(t) : \E i \in 1 .. (n + 1) - 1 :
       /\ lines[i].kind = kind /\ Qualified(lines[i]) = t[k].name
       /\ Before(lines, i) = t[k].addr
  <2> TAKE k \in 1 .. Len(t)
  <2>1. CASE k \in 1 .. Len(table)
    BY <1>2, <1>3, <2>1 DEF Lists
  <2>2. CASE k = Len(table) + 1
    BY <1>2, <1>3, <2>2
  <2> QED BY <1>3, <2>1, <2>2
<1>5. \A i \in 1 .. (n + 1) - 1 : lines[i].kind = kind => Has(t, Qualified(lines[i]))
  BY <1>1, <1>3 DEF Lists
<1>6. \A i \in 1 .. n - 1 : lines[i].kind = kind => Qualified(lines[i]) # Qualified(lines[n])
  BY DEF Lists
<1>7. \A i, j \in 1 .. (n + 1) - 1 :
       /\ lines[i].kind = kind /\ lines[j].kind = kind
       /\ Qualified(lines[i]) = Qualified(lines[j])
       => i = j
  BY <1>1, <1>6 DEF Lists
<1> QED
  BY <1>4, <1>5, <1>7 DEF Lists, t

(* Looking up a listed declaration yields the address of its line. *)
LEMMA ListsAddress ==
  ASSUME NEW lines, NEW table \in Seq(Entry), NEW kind, NEW n \in Nat \ {0},
         Lists(lines, table, kind, n), NEW i \in 1 .. n - 1, lines[i].kind = kind
  PROVE  Lookup(table, Qualified(lines[i])) = Before(lines, i)
<1>1. Has(table, Qualified(lines[i]))
  BY DEF Lists
<1>2. PICK k \in 1 .. Len(table) : /\ table[k].name = Qualified(lines[i])
                                  /\ Lookup(table, Qualified(lines[i])) = table[k].addr
  BY <1>1, LookupFinds
<1>3. PICK j \in 1 .. n - 1 : /\ lines[j].kind = kind /\ Qualified(lines[j]) = table[k].name
                              /\ Before(lines, j) = table[k].addr
  BY DEF Lists
<1>4. i = j
  BY <1>2, <1>3 DEF Lists
<1> QED
  BY <1>2, <1>3, <1>4

-----------------------------------------------------------------------------
(* The inductive invariant.                                                *)

Behind == Len(source) + 1

PassInv ==
  /\ phase = "procs" =>
       /\ Lists(source, proc_decls, "proc", pos)
       /\ proc_address_pointer = Before(source, pos)
       /\ label_decls = <<>> /\ label_address_pointer = 0
  /\ phase = "labels" =>
       /\ Lists(source, label_decls, "label", pos)
       /\ label_address_pointer = Before(source, pos)
  /\ phase \in {"procs", "labels"} => code = <<>> /\ ~err
  /\ phase \in {"labels", "code", "written"} =>
       /\ Lists(source, proc_decls, "proc", Behind)
       /\ proc_address_pointer = Before(source, Behind)
  /\ phase \in {"code", "written"} =>
       /\ Lists(source, label_decls, "label", Behind)
       /\ label_address_pointer = Before(source, Behind)
  /\ phase = "code" /\ ~err => Len(code) = Before(source, pos)
  /\ phase = "written" => Len(code) = Before(source, Behind)

IInv == TypeOK /\ Parsed(source) /\ PassInv

Emitted == [line : Nat, target : Nat \union {NoTarget}]

(* The line a pass is at. *)
LEMMA LineType ==
  ASSUME TypeOK, Parsed(source), pos <= Len(source)
  PROVE  /\ Len(source) \in Nat /\ pos \in Nat \ {0} /\ pos \in 1 .. Len(source)
         /\ line = source[pos] /\ line \in Line
         /\ line.kind \in {"jump", "call", "label", "proc"} =>
              /\ line.name \in Ids
              /\ Qualified(line) \in Symbol /\ <<Top, line.name>> \in Symbol
         /\ line.kind = "proc" => Qualified(line) = <<Top, line.name>>
<1>1. Len(source) \in Nat /\ pos \in 1 .. Len(source) /\ pos \in Nat \ {0}
  BY DEF TypeOK
<1>2. line = source[pos] /\ line \in Line
  BY <1>1 DEF TypeOK, line
<1>3. line.in \in Ids \union {Top}
  BY <1>2 DEF Line
<1>4. /\ line.kind \in {"jump", "call", "label", "proc"} => line.name \in Ids
      /\ line.kind \in {"proc", "data"} => line.in = Top
  BY <1>1, <1>2 DEF Parsed
<1> QED
  BY <1>1, <1>2, <1>3, <1>4 DEF Qualified, Symbol

LEMMA InitInv == Init => IInv
<1> SUFFICES ASSUME Init PROVE IInv
  OBVIOUS
<1>1. source \in Seq(Line) /\ Parsed(source) /\ Len(source) \in Nat
  BY SourcesAssumption DEF Init
<1>2. TypeOK
  <2>1. <<>> \in Seq(Entry) /\ <<>> \in Seq(Emitted) /\ <<>> \in Seq(Nat) /\ Len(<<>>) = 0
    BY EmptySeq
  <2>2. 0 <= CodeCap /\ 0 <= DeclCap /\ 0 <= CallCap /\ 0 <= ProcCap
    BY CapAssumption
  <2>3. Table(proc_decls, ProcCap) /\ Table(label_decls, DeclCap) /\ Table(label_calls, CallCap)
    BY <2>1, <2>2 DEF Init, Table
  <2>4. code \in Seq(Emitted) /\ Len(code) <= CodeCap
    BY <2>1, <2>2 DEF Init
  <2>5. /\ pos \in 1 .. Len(source) + 1
        /\ proc_address_pointer \in Nat /\ label_address_pointer \in Nat
        /\ beginning_address \in Nat
        /\ referances \in Seq(Nat) /\ data \in Seq(Nat)
    BY <1>1, <2>1 DEF Init
  <2>6. err \in BOOLEAN
    BY DEF Init
  <2>7. phase \in {"procs", "labels", "code", "written", "rejected", "exited", "crashed", "corrupt"}
    BY DEF Init
  <2> QED
    BY <1>1, <2>3, <2>4, <2>5, <2>6, <2>7 DEF TypeOK, Emitted
<1>3. Lists(source, proc_decls, "proc", pos) /\ Before(source, pos) = 0
  BY ListsNothing, BeforeSteps DEF Init
<1>4. PassInv
  BY <1>3 DEF Init, PassInv
<1> QED
  BY <1>1, <1>2, <1>4 DEF IInv

(* What a step does to the phase and the position. *)
LEMMA MoveType ==
  ASSUME TypeOK, Parsed(source), pos <= Len(source), Continue
  PROVE  source' = source /\ phase' = phase /\ pos' = pos + 1 /\ pos' \in 1 .. Len(source') + 1
  BY LineType DEF Continue, TypeOK

LEMMA SkipInv == IInv /\ Skip => IInv'
<1> SUFFICES ASSUME IInv, Skip PROVE IInv'
  OBVIOUS
<1> USE DEF IInv
<1>1. pos <= Len(source)
  BY DEF Skip, At
<1>2. /\ source' = source /\ phase' = phase /\ pos' = pos + 1 /\ pos' \in 1 .. Len(source') + 1
      /\ pos \in Nat \ {0} /\ line = source[pos]
  BY <1>1, MoveType, LineType DEF Skip
<1>3. UNCHANGED <<procs, labels, output>>
  BY DEF Skip
<1>4. TypeOK'
  BY <1>2, <1>3 DEF TypeOK, Table, procs, labels, output
<1>5. source[pos].kind \notin Instructions
  BY DEF Skip, At, Kind, Instructions, OpCodes
<1>6. Before(source, pos + 1) = Before(source, pos)
  BY <1>2, <1>5, BeforeSteps
<1>7. CASE phase = "procs"
  <2>1. source[pos].kind # "proc"
    BY <1>7 DEF Skip, At, OpCodes, Instructions
  <2>2. Lists(source, proc_decls, "proc", pos + 1)
    BY <1>2, <1>7, <2>1, ListsPast DEF PassInv
  <2> QED
    BY <1>2, <1>3, <1>4, <1>6, <1>7, <2>2 DEF PassInv, procs, labels, output
<1>8. CASE phase = "labels"
  <2>1. source[pos].kind # "label"
    BY <1>8 DEF Skip, At, OpCodes, Instructions
  <2>2. Lists(source, label_decls, "label", pos + 1)
    BY <1>2, <1>8, <2>1, ListsPast DEF PassInv
  <2> QED
    BY <1>2, <1>3, <1>4, <1>6, <1>8, <2>2 DEF PassInv, procs, labels, output, Behind
<1>9. CASE phase = "code"
  BY <1>2, <1>3, <1>4, <1>6, <1>9 DEF PassInv, procs, labels, output, Behind
<1> QED
  BY <1>7, <1>8, <1>9 DEF Skip, At

(* A run that has stopped without a file promises nothing more. *)
Stopped == {"rejected", "exited", "crashed", "corrupt"}

LEMMA StoppedInv ==
  ASSUME IInv, TypeOK', source' = source, phase' \in Stopped
  PROVE  IInv'
  BY DEF IInv, PassInv, Stopped

LEMMA NextPassInv == IInv /\ NextPass => IInv'
<1> SUFFICES ASSUME IInv, NextPass PROVE IInv'
  OBVIOUS
<1> USE DEF IInv
<1>1. Len(source) \in Nat /\ pos = Len(source) + 1 /\ pos = Behind
  <2>1. source \in Seq(Line) /\ pos \in 1 .. Len(source) + 1 /\ pos > Len(source)
    BY DEF TypeOK, NextPass
  <2>2. Len(source) \in Nat
    BY <2>1
  <2> QED BY <2>1, <2>2 DEF Behind
<1>2. /\ source' = source /\ pos' = 1 /\ phase' = After[phase]
      /\ UNCHANGED <<procs, labels, output>>
  BY DEF NextPass
<1>3. \/ phase = "procs" /\ phase' = "labels"
      \/ phase = "labels" /\ phase' = "code"
      \/ phase = "code" /\ err /\ phase' = "rejected"
      \/ phase = "code" /\ ~err /\ phase' = "written"
  BY <1>2 DEF NextPass, After
<1>4. TypeOK'
  <2>1. pos' \in 1 .. Len(source') + 1
    BY <1>1, <1>2
  <2>2. phase' \in {"procs", "labels", "code", "written", "rejected", "exited", "crashed", "corrupt"}
    BY <1>3
  <2> QED
    BY <1>2, <2>1, <2>2 DEF TypeOK, Table, procs, labels, output
<1>5. Before(source, 1) = 0 /\ Lists(source, <<>>, "label", 1) /\ Len(<<>>) = 0
  BY BeforeSteps, ListsNothing, EmptySeq
<1>6. CASE phase = "procs"
  BY <1>1, <1>2, <1>3, <1>4, <1>5, <1>6 DEF PassInv, procs, labels, output, Behind
<1>7. CASE phase = "labels"
  BY <1>1, <1>2, <1>3, <1>4, <1>5, <1>7 DEF PassInv, procs, labels, output, Behind
<1>8. CASE phase = "code" /\ err
  BY <1>2, <1>3, <1>4, <1>8, StoppedInv DEF Stopped
<1>9. CASE phase = "code" /\ ~err
  BY <1>1, <1>2, <1>3, <1>4, <1>9 DEF PassInv, procs, labels, output, Behind
<1> QED
  BY <1>3, <1>6, <1>7, <1>8, <1>9

LEMMA CountForProcsInv == IInv /\ CountForProcs => IInv'
<1> SUFFICES ASSUME IInv, CountForProcs PROVE IInv'
  OBVIOUS
<1> USE DEF IInv
<1>1. phase = "procs" /\ pos <= Len(source) /\ source[pos].kind \in Instructions
  BY DEF CountForProcs, At, OpCodes
<1>2. /\ source' = source /\ phase' = phase /\ pos' = pos + 1 /\ pos' \in 1 .. Len(source') + 1
      /\ pos \in Nat \ {0}
  BY <1>1, MoveType, LineType DEF CountForProcs
<1>3. proc_address_pointer' = proc_address_pointer + 1 /\ UNCHANGED <<proc_decls, labels, output>>
  BY DEF CountForProcs
<1>4. TypeOK'
  BY <1>2, <1>3 DEF TypeOK, Table, labels, output
<1>5. Before(source, pos + 1) = Before(source, pos) + 1
  BY <1>1, <1>2, BeforeSteps
<1>6. Lists(source, proc_decls, "proc", pos + 1)
  <2>1. source[pos].kind # "proc"
    BY <1>1 DEF Instructions
  <2> QED BY <1>1, <1>2, <2>1, ListsPast DEF PassInv
<1> QED
  BY <1>1, <1>2, <1>3, <1>4, <1>5, <1>6 DEF PassInv, labels, output

LEMMA CountForLabelsInv == IInv /\ CountForLabels => IInv'
<1> SUFFICES ASSUME IInv, CountForLabels PROVE IInv'
  OBVIOUS
<1> USE DEF IInv
<1>1. phase = "labels" /\ pos <= Len(source) /\ source[pos].kind \in Instructions
  BY DEF CountForLabels, At, OpCodes
<1>2. /\ source' = source /\ phase' = phase /\ pos' = pos + 1 /\ pos' \in 1 .. Len(source') + 1
      /\ pos \in Nat \ {0}
  BY <1>1, MoveType, LineType DEF CountForLabels
<1>3. label_address_pointer' = label_address_pointer + 1 /\ UNCHANGED <<procs, label_decls, output>>
  BY DEF CountForLabels
<1>4. TypeOK'
  BY <1>2, <1>3 DEF TypeOK, Table, procs, output
<1>5. Before(source, pos + 1) = Before(source, pos) + 1
  BY <1>1, <1>2, BeforeSteps
<1>6. Lists(source, label_decls, "label", pos + 1)
  <2>1. source[pos].kind # "label"
    BY <1>1 DEF Instructions
  <2> QED BY <1>1, <1>2, <2>1, ListsPast DEF PassInv
<1> QED
  BY <1>1, <1>2, <1>3, <1>4, <1>5, <1>6 DEF PassInv, procs, output, Behind

LEMMA DeclareProcInv == IInv /\ DeclareProc => IInv'
<1> SUFFICES ASSUME IInv, DeclareProc PROVE IInv'
  OBVIOUS
<1> USE DEF IInv
<1> DEFINE e == [name |-> <<Top, line.name>>, addr |-> proc_address_pointer]
<1>1. /\ phase = "procs" /\ pos <= Len(source) /\ source[pos].kind = "proc"
      /\ pos \in Nat \ {0} /\ line = source[pos] /\ Qualified(source[pos]) = <<Top, line.name>>
      /\ e \in Entry /\ e.name = Qualified(source[pos]) /\ e.addr = Before(source, pos)
  <2>1. phase = "procs" /\ pos <= Len(source) /\ source[pos].kind = "proc"
    BY DEF DeclareProc, At
  <2>2. /\ pos \in Nat \ {0} /\ line = source[pos] /\ <<Top, line.name>> \in Symbol
        /\ Qualified(source[pos]) = <<Top, line.name>>
    BY <2>1, LineType
  <2>3. proc_address_pointer = Before(source, pos) /\ proc_address_pointer \in Nat
    BY <2>1 DEF PassInv, TypeOK
  <2> QED BY <2>1, <2>2, <2>3 DEF Entry
<1>2. UNCHANGED <<proc_address_pointer, labels, output>>
  BY DEF DeclareProc
<1>3. CASE /\ End("exited") \/ End("corrupt")
           /\ UNCHANGED proc_decls
  <2>1. TypeOK'
    BY <1>2, <1>3 DEF TypeOK, Table, labels, output, End
  <2> QED BY <1>3, <2>1, StoppedInv DEF End, Stopped
<1>4. CASE /\ ~Has(proc_decls, <<Top, line.name>>) /\ Len(proc_decls) # ProcCap
           /\ proc_decls' = Append(proc_decls, e) /\ Continue
  <2>1. source' = source /\ phase' = phase /\ pos' = pos + 1 /\ pos' \in 1 .. Len(source') + 1
    BY <1>1, <1>4, MoveType
  <2>2. proc_decls \in Seq(Entry) /\ Len(proc_decls) \in Nat /\ Len(proc_decls) <= ProcCap
    BY EntryType DEF TypeOK, Table
  <2>3. Table(proc_decls', ProcCap)
    <3>1. proc_decls' \in Seq(Entry) /\ Len(proc_decls') = Len(proc_decls) + 1
      BY <1>1, <1>4, <2>2, Appended
    <3> QED BY <1>4, <2>2, <3>1, CapAssumption DEF Table
  <2>4. TypeOK'
    BY <1>2, <2>1, <2>3 DEF TypeOK, labels, output
  <2>5. Lists(source, proc_decls', "proc", pos + 1)
    <3> HIDE DEF e
    <3> QED BY <1>1, <1>4, <2>2, ListsOneMore DEF PassInv
  <2>6. Before(source, pos + 1) = Before(source, pos)
    BY <1>1, BeforeSteps DEF Instructions
  <2> QED
    BY <1>1, <1>2, <2>1, <2>4, <2>5, <2>6 DEF PassInv, labels, output
<1> QED
  BY <1>3, <1>4 DEF DeclareProc

LEMMA DeclareLabelInv == IInv /\ DeclareLabel => IInv'
<1> SUFFICES ASSUME IInv, DeclareLabel PROVE IInv'
  OBVIOUS
<1> USE DEF IInv
<1> DEFINE e == [name |-> Qualified(line), addr |-> label_address_pointer]
<1>1. /\ phase = "labels" /\ pos <= Len(source) /\ source[pos].kind = "label"
      /\ pos \in Nat \ {0} /\ line = source[pos]
      /\ e \in Entry /\ e.name = Qualified(source[pos]) /\ e.addr = Before(source, pos)
  <2>1. phase = "labels" /\ pos <= Len(source) /\ source[pos].kind = "label"
    BY DEF DeclareLabel, At
  <2>2. pos \in Nat \ {0} /\ line = source[pos] /\ Qualified(line) \in Symbol
    BY <2>1, LineType
  <2>3. label_address_pointer = Before(source, pos) /\ label_address_pointer \in Nat
    BY <2>1 DEF PassInv, TypeOK
  <2> QED BY <2>1, <2>2, <2>3 DEF Entry
<1>2. UNCHANGED <<procs, label_address_pointer, output>>
  BY DEF DeclareLabel
<1>3. CASE /\ End("exited") \/ End("corrupt")
           /\ UNCHANGED label_decls
  <2>1. TypeOK'
    BY <1>2, <1>3 DEF TypeOK, Table, procs, output, End
  <2> QED BY <1>3, <2>1, StoppedInv DEF End, Stopped
<1>4. CASE /\ ~Has(label_decls, Qualified(line)) /\ Len(label_decls) # DeclCap
           /\ label_decls' = Append(label_decls, e) /\ Continue
  <2>1. source' = source /\ phase' = phase /\ pos' = pos + 1 /\ pos' \in 1 .. Len(source') + 1
    BY <1>1, <1>4, MoveType
  <2>2. label_decls \in Seq(Entry) /\ Len(label_decls) \in Nat /\ Len(label_decls) <= DeclCap
    BY EntryType DEF TypeOK, Table
  <2>3. Table(label_decls', DeclCap)
    <3>1. label_decls' \in Seq(Entry) /\ Len(label_decls') = Len(label_decls) + 1
      BY <1>1, <1>4, <2>2, Appended
    <3> QED BY <1>4, <2>2, <3>1, CapAssumption DEF Table
  <2>4. TypeOK'
    BY <1>2, <2>1, <2>3 DEF TypeOK, procs, output
  <2>5. Lists(source, label_decls', "label", pos + 1)
    <3> HIDE DEF e
    <3> QED BY <1>1, <1>4, <2>2, ListsOneMore DEF PassInv
  <2>6. Before(source, pos + 1) = Before(source, pos)
    BY <1>1, BeforeSteps DEF Instructions
  <2> QED
    BY <1>1, <1>2, <2>1, <2>4, <2>5, <2>6 DEF PassInv, procs, output, Behind
<1> QED
  BY <1>3, <1>4 DEF DeclareLabel

(* What program_push does: it emits one instruction and goes on, or the    *)
(* code is full.                                                           *)
LEMMA EmitType ==
  ASSUME TypeOK, Parsed(source), pos <= Len(source),
         NEW target \in Nat \union {NoTarget}, Emit(target)
  PROVE  /\ source' = source
         /\ code' \in Seq(Emitted) /\ Len(code') <= CodeCap
         /\ pos' \in 1 .. Len(source') + 1
         /\ \/ phase' = "corrupt"
            \/ phase' = phase /\ pos' = pos + 1 /\ Len(code') = Len(code) + 1
<1>1. code \in Seq(Emitted) /\ Len(code) \in Nat /\ Len(code) <= CodeCap
  BY DEF TypeOK, Emitted
<1>2. CASE End("corrupt") /\ UNCHANGED code
  BY <1>1, <1>2 DEF TypeOK, End
<1>3. CASE /\ Len(code) # CodeCap /\ Continue
           /\ code' = Append(code, [line |-> pos, target |-> target])
  <2>1. [line |-> pos, target |-> target] \in Emitted
    BY LineType DEF Emitted
  <2>2. code' \in Seq(Emitted) /\ Len(code') = Len(code) + 1
    BY <1>1, <1>3, <2>1
  <2>3. Len(code') <= CodeCap
    BY <1>1, <1>3, <2>2, CapAssumption
  <2> QED BY <1>3, <2>2, <2>3, MoveType
<1> QED
  BY <1>2, <1>3 DEF Emit

LEMMA EmitPlainInv == IInv /\ EmitPlain => IInv'
<1> SUFFICES ASSUME IInv, EmitPlain PROVE IInv'
  OBVIOUS
<1> USE DEF IInv
<1>1. phase = "code" /\ pos <= Len(source) /\ source[pos].kind \in Instructions
      /\ pos \in Nat \ {0}
  BY LineType DEF EmitPlain, At, Instructions
<1>2. UNCHANGED <<procs, labels, label_calls, err, referances, data, beginning_address>>
      /\ Emit(NoTarget)
  BY DEF EmitPlain
<1>3. /\ source' = source /\ code' \in Seq(Emitted) /\ Len(code') <= CodeCap
      /\ pos' \in 1 .. Len(source') + 1
      /\ \/ phase' = "corrupt"
         \/ phase' = phase /\ pos' = pos + 1 /\ Len(code') = Len(code) + 1
  BY <1>1, <1>2, EmitType
<1>4. TypeOK'
  BY <1>1, <1>2, <1>3 DEF TypeOK, Table, procs, labels, Emitted
<1>5. CASE phase' = "corrupt"
  BY <1>3, <1>4, <1>5, StoppedInv DEF Stopped
<1>6. CASE phase' = phase /\ pos' = pos + 1 /\ Len(code') = Len(code) + 1
  <2>1. Before(source, pos + 1) = Before(source, pos) + 1
    BY <1>1, BeforeSteps
  <2> QED
    BY <1>1, <1>2, <1>3, <1>4, <1>6, <2>1 DEF PassInv, procs, labels, Behind
<1> QED
  BY <1>3, <1>5, <1>6

LEMMA EmitSymbolicInv == IInv /\ EmitSymbolic => IInv'
<1> SUFFICES ASSUME IInv, EmitSymbolic PROVE IInv'
  OBVIOUS
<1> USE DEF IInv
<1> DEFINE addr == Lookup(Decls, Used)
           calls == IF addr = Unresolved THEN label_calls
                    ELSE Append(label_calls, [name |-> Used, addr |-> addr])
           target == Lookup(IF line.kind = "call" THEN proc_decls ELSE calls, Used)
<1>1. /\ phase = "code" /\ pos <= Len(source) /\ pos \in Nat \ {0}
      /\ line = source[pos] /\ line.kind \in {"jump", "call"} /\ Used \in Symbol
      /\ source[pos].kind \in Instructions
  BY LineType DEF EmitSymbolic, At, Used, Instructions
<1>2. UNCHANGED <<procs, labels, referances, data, beginning_address>>
  BY DEF EmitSymbolic
<1>3. /\ Decls \in Seq(Entry) /\ label_calls \in Seq(Entry) /\ proc_decls \in Seq(Entry)
      /\ Len(label_calls) <= CallCap
  BY DEF Decls, TypeOK, Table
<1>4. addr = Unresolved \/ addr \in Nat
  BY <1>3, LookupType
<1>5. calls \in Seq(Entry) /\ (addr # Unresolved => Has(calls, Used))
  <2>1. CASE addr = Unresolved
    BY <1>3, <2>1
  <2>2. CASE addr # Unresolved
    <3>1. [name |-> Used, addr |-> addr] \in Entry
      BY <1>1, <1>4, <2>2 DEF Entry
    <3> QED BY <1>3, <2>2, <3>1, Appended
  <2> QED BY <2>1, <2>2
<1>6. target = Unresolved \/ target \in Nat
  BY <1>3, <1>5, LookupType
<1>7. addr # Unresolved => target # Unresolved
  <2>1. CASE line.kind = "call"
    BY <2>1 DEF Decls
  <2>2. CASE line.kind # "call"
    <3> HIDE DEF calls
    <3> QED BY <1>5, <2>2, LookupType
  <2> QED BY <2>1, <2>2
<1>8. CASE End("corrupt") /\ UNCHANGED <<label_calls, err, code>>
  <2>1. TypeOK'
    BY <1>2, <1>8 DEF TypeOK, Table, procs, labels, End
  <2> QED BY <1>8, <2>1, StoppedInv DEF End, Stopped
<1>9. CASE /\ Len(calls) <= CallCap /\ label_calls' = calls /\ err' = Reported(addr)
           /\ IF Dropped(target) THEN Continue /\ UNCHANGED code ELSE Emit(target)
  <2> HIDE DEF addr, calls, target
  <2>1. err' \in BOOLEAN /\ (~err' => ~err /\ addr # Unresolved)
    BY <1>9 DEF Reported, TypeOK
  <2>2. Table(label_calls', CallCap)
    BY <1>5, <1>9 DEF Table
  <2>3. CASE target = Unresolved
    <3>1. /\ source' = source /\ phase' = phase /\ pos' = pos + 1
          /\ pos' \in 1 .. Len(source') + 1 /\ code' = code
      BY <1>1, <1>9, <2>3, MoveType DEF Dropped
    <3>2. TypeOK'
      BY <1>2, <2>1, <2>2, <3>1 DEF TypeOK, Table, procs, labels
    <3>3. err'
      BY <1>7, <2>1, <2>3
    <3> QED
      BY <1>1, <1>2, <3>1, <3>2, <3>3 DEF PassInv, procs, labels, Behind
  <2>4. CASE target # Unresolved
    <3>1. Emit(target) /\ target \in Nat
      BY <1>6, <1>9, <2>4 DEF Dropped
    <3>2. /\ source' = source /\ code' \in Seq(Emitted) /\ Len(code') <= CodeCap
          /\ pos' \in 1 .. Len(source') + 1
          /\ \/ phase' = "corrupt"
             \/ phase' = phase /\ pos' = pos + 1 /\ Len(code') = Len(code) + 1
      BY <1>1, <3>1, EmitType
    <3>3. TypeOK'
      BY <1>1, <1>2, <2>1, <2>2, <3>2 DEF TypeOK, Table, procs, labels, Emitted
    <3>4. CASE phase' = "corrupt"
      BY <3>2, <3>3, <3>4, StoppedInv DEF Stopped
    <3>5. CASE phase' = phase /\ pos' = pos + 1 /\ Len(code') = Len(code) + 1
      <4>1. Before(source, pos + 1) = Before(source, pos) + 1
        BY <1>1, BeforeSteps
      <4> QED
        BY <1>1, <1>2, <2>1, <3>2, <3>3, <3>5, <4>1 DEF PassInv, procs, labels, Behind
    <3> QED BY <3>2, <3>4, <3>5
  <2> QED BY <2>3, <2>4
<1> QED
  BY <1>3, <1>5, <1>8, <1>9, EntryType, CapAssumption DEF EmitSymbolic

LEMMA TranslateDataInv == IInv /\ TranslateData => IInv'
<1> SUFFICES ASSUME IInv, TranslateData PROVE IInv'
  OBVIOUS
<1> USE DEF IInv
<1>1. /\ phase = "code" /\ pos <= Len(source) /\ pos \in Nat \ {0}
      /\ line = source[pos] /\ line \in Line /\ source[pos].kind \notin Instructions
  BY LineType DEF TranslateData, At, Instructions
<1>2. UNCHANGED <<procs, labels, label_calls, err, code>>
  BY DEF TranslateData
<1>3. CASE End("crashed") /\ UNCHANGED <<referances, data, beginning_address>>
  <2>1. TypeOK'
    BY <1>2, <1>3 DEF TypeOK, Table, procs, labels, End
  <2> QED BY <1>3, <2>1, StoppedInv DEF End, Stopped
<1>4. CASE /\ line.value # NoValue
           /\ referances' = Append(referances, beginning_address)
           /\ data' = data \o line.value
           /\ beginning_address' = Following(line.value)
           /\ Continue
  <2>1. source' = source /\ phase' = phase /\ pos' = pos + 1 /\ pos' \in 1 .. Len(source') + 1
    BY <1>1, <1>4, MoveType
  <2>2. line.value \in Seq(Nat)
    BY <1>1, <1>4 DEF Line
  <2>3. data' \in Seq(Nat)
    BY <1>4, <2>2, ConcatProperties DEF TypeOK
  <2>4. referances' \in Seq(Nat) /\ beginning_address' \in Nat
    <3>1. Len(line.value) \in Nat
      BY <2>2
    <3> QED BY <1>4, <3>1 DEF TypeOK, Following
  <2>5. TypeOK'
    BY <1>2, <2>1, <2>3, <2>4 DEF TypeOK, Table, procs, labels
  <2>6. Before(source, pos + 1) = Before(source, pos)
    BY <1>1, BeforeSteps
  <2> QED
    BY <1>1, <1>2, <2>1, <2>5, <2>6 DEF PassInv, procs, labels, Behind
<1> QED
  BY <1>3, <1>4 DEF TranslateData

LEMMA StepInv == IInv /\ [Next]_vars => IInv'
<1> SUFFICES ASSUME IInv, [Next]_vars PROVE IInv'
  OBVIOUS
<1>1. CASE UNCHANGED vars
  BY <1>1 DEF vars, procs, labels, output, IInv, TypeOK, Table, PassInv, Behind
<1>2. CASE Next
  BY <1>2, SkipInv, NextPassInv, CountForProcsInv, DeclareProcInv, CountForLabelsInv,
     DeclareLabelInv, EmitPlainInv, EmitSymbolicInv, TranslateDataInv DEF Next
<1> QED
  BY <1>1, <1>2

-----------------------------------------------------------------------------
(* What the third pass has made of the first n - 1 lines.                  *)

(* d is what the name of jump or call i means, of lines and not of source: *)
(* what does not speak of the variables is easy to carry over a step.      *)
IsMeant(lines, i, d) ==
  /\ lines[d].kind = IF lines[i].kind = "call" THEN "proc" ELSE "label"
  /\ lines[d].name = lines[i].name
  /\ lines[i].kind = "jump" => lines[d].in = lines[i].in

IsShadowed(lines, i) ==
  /\ lines[i].kind = "jump" /\ lines[i].in = Top
  /\ \E j \in 1 .. i - 1 : lines[j].kind = "call" /\ lines[j].name = lines[i].name

(* The instruction out of line i is the right one. *)
RightTarget(lines, i, target) ==
  lines[i].kind \in {"jump", "call"} =>
    \E d \in 1 .. Len(lines) :
      IsMeant(lines, i, d) /\ (target = Before(lines, d) \/ IsShadowed(lines, i))

Resolved(lines, out, n) ==
  \A i \in 1 .. n - 1 : lines[i].kind \in Instructions =>
    /\ Before(lines, i) < Len(out) /\ out[Before(lines, i) + 1].line = i
    /\ RightTarget(lines, i, out[Before(lines, i) + 1].target)

(* label_calls has labels, with their addresses, and procedures called.    *)
FromLabel(lines, e) ==
  \E d \in 1 .. Len(lines) :
    lines[d].kind = "label" /\ Qualified(lines[d]) = e.name /\ e.addr = Before(lines, d)

FromCall(lines, e, n) ==
  \E j \in 1 .. n - 1 : lines[j].kind = "call" /\ e.name = <<Top, lines[j].name>>

Noted(lines, table, n) ==
  \A k \in 1 .. Len(table) : FromLabel(lines, table[k]) \/ FromCall(lines, table[k], n)

(* The bytes v lie at start, all of them.                                  *)
LiesAt(bytes, start, v) ==
  /\ start \in Nat /\ v \in Seq(Nat) /\ start + Len(v) <= Len(bytes)
  /\ \A k \in 1 .. Len(v) : bytes[start + k] = v[k]

Laid(lines, refs, bytes, n) ==
  /\ Len(refs) = Count(lines, {"data"}, n)
  /\ \A i \in 1 .. n - 1 : lines[i].kind = "data" =>
       /\ Count(lines, {"data"}, i) < Len(refs)
       /\ LiesAt(bytes, refs[Count(lines, {"data"}, i) + 1], lines[i].value)

Undeclared(lines) ==
  \E i \in 1 .. Len(lines) :
    lines[i].kind \in {"jump", "call"} /\ \A d \in 1 .. Len(lines) : ~IsMeant(lines, i, d)

Duplicated(lines, kind) ==
  \E i, j \in 1 .. Len(lines) :
    /\ i # j /\ lines[i].kind = kind /\ lines[j].kind = kind
    /\ Qualified(lines[i]) = Qualified(lines[j])

(* The parts of a run's result that PassInv does not speak of.             *)
OutInv ==
  /\ phase \in {"procs", "labels"} =>
       label_calls = <<>> /\ referances = <<>> /\ data = <<>> /\ beginning_address = 0
  /\ phase = "code" =>
       /\ Noted(source, label_calls, pos)
       /\ Laid(source, referances, data, pos) /\ beginning_address = Len(data)
       /\ ~err => Resolved(source, code, pos)
  /\ phase = "written" =>
       Resolved(source, code, Behind) /\ Laid(source, referances, data, Behind)
  /\ err => Undeclared(source)
  /\ phase = "rejected" => err
  /\ phase = "exited" => Duplicated(source, "proc") \/ Duplicated(source, "label")

LEMMA NothingOut ==
  ASSUME NEW lines
  PROVE  Resolved(lines, <<>>, 1) /\ Noted(lines, <<>>, 1) /\ Laid(lines, <<>>, <<>>, 1)
<1>1. Len(<<>>) = 0 /\ Count(lines, {"data"}, 1) = 0
  BY CountSteps, EmptySeq
<1> QED
  BY <1>1 DEF Resolved, Noted, Laid

(* Lines that emit nothing.                                                *)
LEMMA OutPast ==
  ASSUME NEW lines, NEW n \in Nat \ {0}, NEW out, NEW table, NEW refs, NEW bytes
  PROVE  /\ Resolved(lines, out, n) /\ lines[n].kind \notin Instructions
              => Resolved(lines, out, n + 1)
         /\ Noted(lines, table, n) => Noted(lines, table, n + 1)
         /\ Laid(lines, refs, bytes, n) /\ lines[n].kind # "data"
              => Laid(lines, refs, bytes, n + 1)
<1>1. \A i \in 1 .. (n + 1) - 1 : i \in 1 .. n - 1 \/ i = n
  OBVIOUS
<1>2. 1 .. n - 1 \subseteq 1 .. (n + 1) - 1
  OBVIOUS
<1>3. Resolved(lines, out, n) /\ lines[n].kind \notin Instructions => Resolved(lines, out, n + 1)
  BY <1>1 DEF Resolved
<1>4. Noted(lines, table, n) => Noted(lines, table, n + 1)
  BY <1>2 DEF Noted, FromCall
<1>5. Laid(lines, refs, bytes, n) /\ lines[n].kind # "data" => Laid(lines, refs, bytes, n + 1)
  <2>1. lines[n].kind # "data" => Count(lines, {"data"}, n + 1) = Count(lines, {"data"}, n)
    BY CountSteps
  <2> QED
    BY <1>1, <2>1 DEF Laid
<1> QED
  BY <1>3, <1>4, <1>5

LEMMA ResolvedOneMore ==
  ASSUME NEW lines, NEW n \in Nat \ {0}, NEW out \in Seq(Emitted), NEW e \in Emitted,
         Resolved(lines, out, n), Len(out) = Before(lines, n), e.line = n,
         RightTarget(lines, n, e.target)
  PROVE  Resolved(lines, Append(out, e), n + 1)
<1> DEFINE t == Append(out, e)
<1>1. /\ Len(out) \in Nat /\ Len(t) = Len(out) + 1
      /\ \A k \in 1 .. Len(out) : t[k] = out[k]
      /\ t[Len(out) + 1] = e
  BY AppendProperties, LenProperties
<1> HIDE DEF t
<1>2. (n + 1) - 1 = n
  OBVIOUS
<1> SUFFICES ASSUME NEW i \in 1 .. n, lines[i].kind \in Instructions
             PROVE  /\ Before(lines, i) < Len(t) /\ t[Before(lines, i) + 1].line = i
                    /\ RightTarget(lines, i, t[Before(lines, i) + 1].target)
  BY <1>2, Zenon DEF Resolved, t
<1>3. CASE i = n
  BY <1>1, <1>3
<1>4. CASE i # n
  <2>1. i \in 1 .. n - 1 /\ i \in Nat \ {0}
    BY <1>4
  <2>2. /\ Before(lines, i) < Len(out) /\ out[Before(lines, i) + 1].line = i
        /\ RightTarget(lines, i, out[Before(lines, i) + 1].target)
    BY <2>1 DEF Resolved
  <2>3. Before(lines, i) \in Nat
    BY <2>1, BeforeSteps
  <2>4. t[Before(lines, i) + 1] = out[Before(lines, i) + 1]
    BY <1>1, <2>2, <2>3
  <2> QED
    BY <1>1, <2>2, <2>3, <2>4
<1> QED
  BY <1>3, <1>4

LEMMA NotedOneMore ==
  ASSUME NEW lines, NEW n, NEW table \in Seq(Entry), NEW e \in Entry,
         Noted(lines, table, n), FromLabel(lines, e) \/ FromCall(lines, e, n)
  PROVE  Noted(lines, Append(table, e), n)
<1>1. /\ Len(table) \in Nat /\ Len(Append(table, e)) = Len(table) + 1
      /\ \A k \in 1 .. Len(table) : Append(table, e)[k] = table[k]
      /\ Append(table, e)[Len(table) + 1] = e
  BY Appended, EntryType
<1> DEFINE t == Append(table, e)
<1> HIDE DEF t
<1>2. \A k \in 1 .. Len(t) : k \in 1 .. Len(table) \/ k = Len(table) + 1
  BY <1>1 DEF t
<1>3. \A k \in 1 .. Len(t) : t[k] = e \/ (k \in 1 .. Len(table) /\ t[k] = table[k])
  BY <1>1, <1>2 DEF t
<1> QED
  BY <1>3 DEF Noted, t

LEMMA LaidOneMore ==
  ASSUME NEW lines, NEW n \in Nat \ {0}, NEW refs \in Seq(Nat), NEW bytes \in Seq(Nat),
         Laid(lines, refs, bytes, n), lines[n].kind = "data", lines[n].value \in Seq(Nat)
  PROVE  Laid(lines, Append(refs, Len(bytes)), bytes \o lines[n].value, n + 1)
<1> DEFINE v == lines[n].value
           r == Append(refs, Len(bytes))
           b == bytes \o v
<1>1. /\ Len(bytes) \in Nat /\ Len(refs) \in Nat /\ Len(v) \in Nat /\ Len(r) = Len(refs) + 1
      /\ \A k \in 1 .. Len(refs) : r[k] = refs[k]
      /\ r[Len(refs) + 1] = Len(bytes)
  BY AppendProperties, LenProperties
<1>2. /\ Len(b) = Len(bytes) + Len(v)
      /\ \A k \in 1 .. Len(bytes) : b[k] = bytes[k]
      /\ \A k \in 1 .. Len(v) : b[Len(bytes) + k] = v[k]
  <2>1. /\ Len(b) = Len(bytes) + Len(v)
        /\ \A k \in 1 .. Len(bytes) + Len(v) :
             b[k] = IF k <= Len(bytes) THEN bytes[k] ELSE v[k - Len(bytes)]
    BY ConcatProperties
  <2>2. \A k \in 1 .. Len(bytes) : k \in 1 .. Len(bytes) + Len(v) /\ k <= Len(bytes)
    BY <1>1
  <2>3. \A k \in 1 .. Len(v) :
          /\ Len(bytes) + k \in 1 .. Len(bytes) + Len(v) /\ ~ (Len(bytes) + k <= Len(bytes))
          /\ (Len(bytes) + k) - Len(bytes) = k
    BY <1>1
  <2> HIDE DEF b, v
  <2> QED
    BY <2>1, <2>2, <2>3
<1>3. v \in Seq(Nat)
  OBVIOUS
<1> HIDE DEF r, b, v
<1>4. LiesAt(b, Len(bytes), v)
  BY <1>1, <1>2, <1>3 DEF LiesAt
<1>5. \A start, w : LiesAt(bytes, start, w) => LiesAt(b, start, w)
  <2> SUFFICES ASSUME NEW start, NEW w, LiesAt(bytes, start, w) PROVE LiesAt(b, start, w)
    OBVIOUS
  <2>1. start \in Nat /\ Len(w) \in Nat /\ w \in Seq(Nat) /\ start + Len(w) <= Len(bytes)
    BY LenProperties DEF LiesAt
  <2>2. \A k \in 1 .. Len(w) : start + k \in 1 .. Len(bytes)
    BY <1>1, <2>1
  <2>3. \A k \in 1 .. Len(w) : b[start + k] = bytes[start + k]
    BY <1>2, <2>2
  <2> QED
    BY <1>1, <1>2, <2>1, <2>3 DEF LiesAt
<1>6. Len(refs) = Count(lines, {"data"}, n) /\ Len(r) = Count(lines, {"data"}, n + 1)
  BY <1>1, CountSteps DEF Laid
<1>7. (n + 1) - 1 = n
  OBVIOUS
<1> SUFFICES ASSUME NEW i \in 1 .. n, lines[i].kind = "data"
             PROVE  /\ Count(lines, {"data"}, i) < Len(r)
                    /\ LiesAt(b, r[Count(lines, {"data"}, i) + 1], lines[i].value)
  BY <1>6, <1>7, Zenon DEF Laid, r, b, v
<1>8. CASE i = n
  BY <1>1, <1>4, <1>6, <1>8 DEF v
<1>9. CASE i # n
  <2> DEFINE k == Count(lines, {"data"}, i)
  <2>1. i \in 1 .. n - 1 /\ i \in Nat \ {0}
    BY <1>9
  <2>2. k < Len(refs) /\ LiesAt(bytes, refs[k + 1], lines[i].value)
    BY <2>1 DEF Laid
  <2>3. k \in Nat
    BY <2>1, CountSteps
  <2> HIDE DEF k
  <2>4. r[k + 1] = refs[k + 1]
    BY <1>1, <2>2, <2>3
  <2> QED
    BY <1>1, <1>5, <2>2, <2>3, <2>4 DEF k
<1> QED
  BY <1>8, <1>9

(* Looking a name up in a table of declarations yields the address of one  *)
(* of that name; a name it does not have is not declared.                  *)
LEMMA ListsFinds ==
  ASSUME NEW lines, NEW table \in Seq(Entry), NEW kind, NEW n,
         Lists(lines, table, kind, n), NEW name
  PROVE  /\ Has(table, name) =>
              \E d \in 1 .. n - 1 : /\ lines[d].kind = kind /\ Qualified(lines[d]) = name
                                    /\ Lookup(table, name) = Before(lines, d)
         /\ ~Has(table, name) =>
              \A d \in 1 .. n - 1 : lines[d].kind = kind => Qualified(lines[d]) # name
<1>1. ASSUME Has(table, name)
      PROVE  \E d \in 1 .. n - 1 : /\ lines[d].kind = kind /\ Qualified(lines[d]) = name
                                   /\ Lookup(table, name) = Before(lines, d)
  <2>1. PICK k \in 1 .. Len(table) : table[k].name = name /\ Lookup(table, name) = table[k].addr
    BY <1>1, LookupFinds
  <2> QED
    BY <2>1 DEF Lists
<1> QED
  BY <1>1 DEF Lists

-----------------------------------------------------------------------------
(* Every step keeps OutInv.                                                *)

LEMMA OutInit == Init => OutInv
<1> SUFFICES ASSUME Init PROVE OutInv
  OBVIOUS
<1> QED
  BY DEF Init, OutInv

(* The first two passes emit nothing, and no pass changes what has ended.  *)
LEMMA OutKept ==
  ASSUME OutInv, source' = source, phase' = phase, phase # "code", UNCHANGED output
  PROVE  OutInv'
  BY DEF OutInv, output, Behind

LEMMA OutEnded ==
  ASSUME OutInv, source' = source, phase' \in {"crashed", "corrupt"}, err' => Undeclared(source)
  PROVE  OutInv'
  BY DEF OutInv

LEMMA SkipOut == IInv /\ OutInv /\ Skip => OutInv'
<1> SUFFICES ASSUME IInv, OutInv, Skip PROVE OutInv'
  OBVIOUS
<1> USE DEF IInv
<1>1. /\ source' = source /\ phase' = phase /\ pos' = pos + 1
      /\ pos \in Nat \ {0} /\ UNCHANGED output
  BY LineType, MoveType DEF Skip, At
<1>2. CASE phase # "code"
  BY <1>1, <1>2, OutKept
<1>3. CASE phase = "code"
  <2>1. source[pos].kind \notin Instructions /\ source[pos].kind # "data"
    BY <1>3 DEF Skip, At, Instructions
  <2>2. /\ Noted(source, label_calls, pos + 1) /\ Laid(source, referances, data, pos + 1)
        /\ ~err => Resolved(source, code, pos + 1)
    BY <1>1, <1>3, <2>1, OutPast DEF OutInv
  <2> QED
    BY <1>1, <1>3, <2>2 DEF OutInv, output
<1> QED
  BY <1>2, <1>3

LEMMA CountOut == IInv /\ OutInv /\ (CountForProcs \/ CountForLabels) => OutInv'
<1> SUFFICES ASSUME OutInv, CountForProcs \/ CountForLabels PROVE OutInv'
  OBVIOUS
<1>1. source' = source /\ phase' = phase /\ phase # "code" /\ UNCHANGED output
  BY DEF CountForProcs, CountForLabels, At, Continue
<1> QED
  BY <1>1, OutKept

(* A name the table already has was declared on an earlier line.           *)
LEMMA SecondOfAName ==
  ASSUME IInv, NEW table \in Seq(Entry), NEW kind, pos <= Len(source),
         Lists(source, table, kind, pos), source[pos].kind = kind,
         Has(table, Qualified(source[pos]))
  PROVE  Duplicated(source, kind)
<1>1. PICK d \in 1 .. pos - 1 : /\ source[d].kind = kind
                               /\ Qualified(source[d]) = Qualified(source[pos])
  BY ListsFinds
<1>2. pos \in 1 .. Len(source) /\ Len(source) \in Nat
  BY LineType DEF IInv
<1>3. d \in 1 .. Len(source) /\ d # pos
  BY <1>2
<1> QED
  BY <1>1, <1>2, <1>3 DEF Duplicated

LEMMA DeclareProcOut == IInv /\ OutInv /\ DeclareProc => OutInv'
<1> SUFFICES ASSUME IInv, OutInv, DeclareProc PROVE OutInv'
  OBVIOUS
<1> USE DEF IInv
<1>1. phase = "procs" /\ pos <= Len(source) /\ source[pos].kind = "proc" /\ UNCHANGED output
  BY DEF DeclareProc, At
<1>2. Qualified(source[pos]) = <<Top, line.name>>
  BY <1>1, LineType
<1>3. CASE End("exited") /\ Has(proc_decls, <<Top, line.name>>)
  <2>1. proc_decls \in Seq(Entry) /\ Lists(source, proc_decls, "proc", pos)
    BY <1>1 DEF TypeOK, Table, PassInv
  <2>2. Duplicated(source, "proc")
    BY <1>1, <1>2, <1>3, <2>1, SecondOfAName
  <2> QED
    BY <1>1, <1>3, <2>2 DEF OutInv, End, output
<1>4. CASE End("corrupt")
  BY <1>1, <1>4, OutEnded DEF OutInv, End, output
<1>5. CASE Continue
  BY <1>1, <1>5, OutKept DEF Continue
<1> QED
  BY <1>3, <1>4, <1>5 DEF DeclareProc

LEMMA DeclareLabelOut == IInv /\ OutInv /\ DeclareLabel => OutInv'
<1> SUFFICES ASSUME IInv, OutInv, DeclareLabel PROVE OutInv'
  OBVIOUS
<1> USE DEF IInv
<1>1. phase = "labels" /\ pos <= Len(source) /\ source[pos].kind = "label" /\ UNCHANGED output
  BY DEF DeclareLabel, At
<1>2. CASE End("exited") /\ Has(label_decls, Qualified(line))
  <2>1. label_decls \in Seq(Entry) /\ Lists(source, label_decls, "label", pos)
    BY <1>1 DEF TypeOK, Table, PassInv
  <2>2. Duplicated(source, "label")
    BY <1>1, <1>2, <2>1, SecondOfAName, LineType
  <2> QED
    BY <1>1, <1>2, <2>2 DEF OutInv, End, output
<1>3. CASE End("corrupt")
  BY <1>1, <1>3, OutEnded DEF OutInv, End, output
<1>4. CASE Continue
  BY <1>1, <1>4, OutKept DEF Continue
<1> QED
  BY <1>2, <1>3, <1>4 DEF DeclareLabel

LEMMA NextPassOut == IInv /\ OutInv /\ NextPass => OutInv'
<1> SUFFICES ASSUME IInv, OutInv, NextPass PROVE OutInv'
  OBVIOUS
<1> USE DEF IInv
<1>1. pos = Behind
  BY DEF TypeOK, NextPass, Behind
<1>2. /\ source' = source /\ pos' = 1 /\ phase' = After[phase] /\ UNCHANGED output
      /\ phase \in {"procs", "labels", "code"}
  BY DEF NextPass, After
<1>3. /\ Noted(source, <<>>, 1) /\ Laid(source, <<>>, <<>>, 1) /\ Resolved(source, <<>>, 1)
      /\ Len(<<>>) = 0
  BY NothingOut, EmptySeq
<1>4. CASE phase = "procs"
  BY <1>2, <1>4 DEF OutInv, output, After
<1>5. CASE phase = "labels"
  <2>1. code = <<>> /\ ~err
    BY <1>5 DEF PassInv
  <2> QED
    BY <1>2, <1>3, <1>5, <2>1 DEF OutInv, output, After
<1>6. CASE phase = "code"
  BY <1>1, <1>2, <1>6 DEF OutInv, output, After, Behind
<1> QED
  BY <1>2, <1>4, <1>5, <1>6

(* program_push, with the right target. *)
LEMMA EmitOut ==
  ASSUME IInv, phase = "code", pos <= Len(source), ~err,
         source[pos].kind \in Instructions, Resolved(source, code, pos),
         NEW target \in Nat \union {NoTarget}, RightTarget(source, pos, target),
         Emit(target), phase' # "corrupt"
  PROVE  Resolved(source, code', pos + 1)
<1> DEFINE e == [line |-> pos, target |-> target]
<1>1. pos \in Nat \ {0} /\ code \in Seq(Emitted) /\ Len(code) = Before(source, pos)
  BY LineType DEF IInv, TypeOK, Emitted, PassInv
<1>2. e \in Emitted /\ e.line = pos /\ e.target = target
  BY <1>1 DEF Emitted
<1>3. code' = Append(code, e)
  BY DEF Emit, End
<1> HIDE DEF e
<1> QED
  BY <1>1, <1>2, <1>3, ResolvedOneMore

LEMMA EmitPlainOut == IInv /\ OutInv /\ EmitPlain => OutInv'
<1> SUFFICES ASSUME IInv, OutInv, EmitPlain PROVE OutInv'
  OBVIOUS
<1> USE DEF IInv
<1>1. /\ phase = "code" /\ pos <= Len(source) /\ source[pos].kind = "inst"
      /\ UNCHANGED <<label_calls, err, referances, data, beginning_address>> /\ Emit(NoTarget)
  BY DEF EmitPlain, At
<1>2. pos \in Nat \ {0} /\ source' = source
        /\ (phase' = "corrupt" \/ (phase' = phase /\ pos' = pos + 1))
  BY <1>1, LineType, EmitType
<1>3. CASE phase' = "corrupt"
  BY <1>1, <1>2, <1>3, OutEnded DEF OutInv
<1>4. CASE phase' = phase /\ pos' = pos + 1
  <2>1. Noted(source, label_calls, pos + 1) /\ Laid(source, referances, data, pos + 1)
    BY <1>1, <1>2, OutPast DEF OutInv
  <2>2. ~err => Resolved(source, code', pos + 1)
    <3>1. source[pos].kind \in Instructions /\ RightTarget(source, pos, NoTarget)
      BY <1>1 DEF RightTarget, Instructions
    <3> QED
      BY <1>1, <1>4, <3>1, EmitOut DEF OutInv
  <2> QED
    BY <1>1, <1>2, <1>4, <2>1, <2>2 DEF OutInv
<1> QED
  BY <1>2, <1>3, <1>4

(* What a jump or call means, in the terms of the tables.                  *)
LEMMA MeantIsUsed ==
  ASSUME IInv, pos <= Len(source), source[pos].kind \in {"jump", "call"},
         NEW d \in 1 .. Len(source)
  PROVE  IsMeant(source, pos, d)
           <=> /\ source[d].kind = IF source[pos].kind = "call" THEN "proc" ELSE "label"
               /\ Qualified(source[d]) = Used
<1>1. line = source[pos]
  BY LineType DEF IInv
<1>2. source[d].kind = "proc" => source[d].in = Top
  BY DEF IInv, Parsed
<1> QED
  BY <1>1, <1>2 DEF IsMeant, Used, Qualified

(* What a jump finds in label_calls.                                       *)
LEMMA NotedTarget ==
  ASSUME IInv, pos <= Len(source), source[pos].kind = "jump",
         NEW table \in Seq(Entry), Noted(source, table, pos + 1), Has(table, Used),
         NEW d \in 1 .. Len(source), IsMeant(source, pos, d)
  PROVE  RightTarget(source, pos, Lookup(table, Used))
<1>1. line = source[pos] /\ Used = <<source[pos].in, source[pos].name>> /\ pos \in Nat
  BY LineType DEF IInv, Used, Qualified
<1>2. PICK k \in 1 .. Len(table) : table[k].name = Used /\ Lookup(table, Used) = table[k].addr
  BY LookupFinds
<1>3. CASE FromLabel(source, table[k])
  <2>1. PICK b \in 1 .. Len(source) : /\ source[b].kind = "label"
                                     /\ Qualified(source[b]) = Used
                                     /\ Lookup(table, Used) = Before(source, b)
    BY <1>2, <1>3 DEF FromLabel
  <2>2. IsMeant(source, pos, b)
    BY <2>1, MeantIsUsed
  <2> QED
    BY <2>1, <2>2 DEF RightTarget
<1>4. CASE FromCall(source, table[k], pos + 1)
  <2>1. PICK j \in 1 .. (pos + 1) - 1 : /\ source[j].kind = "call"
                                        /\ Used = <<Top, source[j].name>>
    BY <1>2, <1>4 DEF FromCall
  <2>2. j \in 1 .. pos - 1
    BY <1>1, <2>1
  <2>3. source[pos].in = Top /\ source[j].name = source[pos].name
    BY <1>1, <2>1
  <2>4. IsShadowed(source, pos)
    BY <2>1, <2>2, <2>3 DEF IsShadowed
  <2> QED
    BY <2>4 DEF RightTarget
<1> QED
  BY <1>3, <1>4 DEF Noted

(* The three possible outcomes of a symbolic operand.                      *)
LEMMA EmitSymbolicOut == IInv /\ OutInv /\ EmitSymbolic => OutInv'
<1> SUFFICES ASSUME IInv, OutInv, EmitSymbolic PROVE OutInv'
  OBVIOUS
<1> USE DEF IInv
<1> DEFINE addr == Lookup(Decls, Used)
           e == [name |-> Used, addr |-> addr]
           calls == IF addr = Unresolved THEN label_calls ELSE Append(label_calls, e)
           target == Lookup(IF line.kind = "call" THEN proc_decls ELSE calls, Used)
           kind == IF source[pos].kind = "call" THEN "proc" ELSE "label"
<1>1. /\ phase = "code" /\ pos <= Len(source) /\ pos \in Nat \ {0}
      /\ line = source[pos] /\ line.kind \in {"jump", "call"} /\ Used \in Symbol
      /\ source[pos].kind \in Instructions /\ source[pos].kind # "data"
  BY LineType DEF EmitSymbolic, At, Used, Instructions
<1>2. UNCHANGED <<procs, labels, referances, data, beginning_address>>
  BY DEF EmitSymbolic
<1>3. /\ Decls \in Seq(Entry) /\ label_calls \in Seq(Entry) /\ proc_decls \in Seq(Entry)
      /\ Lists(source, Decls, kind, Behind)
  BY <1>1 DEF Decls, TypeOK, Table, PassInv
<1>4. Behind - 1 = Len(source)
  BY DEF Behind, TypeOK
<1>5. addr = Unresolved <=> ~Has(Decls, Used)
  BY <1>3, LookupType
<1>6. ASSUME addr = Unresolved
      PROVE  Undeclared(source) /\ Noted(source, calls, pos + 1)
  <2>1. \A d \in 1 .. Len(source) : source[d].kind = kind => Qualified(source[d]) # Used
    BY <1>3, <1>4, <1>5, <1>6, ListsFinds
  <2>2. \A d \in 1 .. Len(source) : ~IsMeant(source, pos, d)
    BY <1>1, <2>1, MeantIsUsed
  <2>3. pos \in 1 .. Len(source)
    BY <1>1, LineType
  <2> QED
    BY <1>1, <1>6, <2>2, <2>3, OutPast DEF OutInv, Undeclared
<1>7. ASSUME addr # Unresolved
      PROVE  /\ Noted(source, calls, pos + 1)
             /\ target \in Nat /\ RightTarget(source, pos, target)
  <2>1. PICK d \in 1 .. Len(source) : /\ source[d].kind = kind /\ Qualified(source[d]) = Used
                                     /\ addr = Before(source, d)
    BY <1>3, <1>4, <1>5, <1>7, ListsFinds
  <2>2. IsMeant(source, pos, d)
    BY <1>1, <2>1, MeantIsUsed
  <2>3. e \in Entry /\ addr \in Nat /\ e.name = Used /\ e.addr = addr
    BY <1>1, <1>3, <1>5, <1>7, LookupType DEF Entry
  <2>4. calls = Append(label_calls, e)
    BY <1>7
  <2> HIDE DEF e, addr
  <2>5. FromLabel(source, e) \/ FromCall(source, e, pos + 1)
    <3>1. CASE source[pos].kind = "call"
      <4>1. pos \in 1 .. (pos + 1) - 1
        BY <1>1
      <4> QED
        BY <1>1, <2>3, <3>1, <4>1 DEF FromCall, Used
    <3>2. CASE source[pos].kind # "call"
      BY <2>1, <2>3, <3>2 DEF FromLabel
    <3> QED
      BY <3>1, <3>2
  <2>6. Noted(source, label_calls, pos + 1)
    BY <1>1, OutPast DEF OutInv
  <2>7. Noted(source, calls, pos + 1) /\ calls \in Seq(Entry) /\ Has(calls, Used)
    BY <1>3, <2>3, <2>4, <2>5, <2>6, NotedOneMore, Appended
  <2> HIDE DEF calls
  <2>8. CASE line.kind = "call"
    <3>1. target = addr
      BY <2>8 DEF addr, Decls
    <3> QED
      BY <2>1, <2>2, <2>3, <2>7, <3>1 DEF RightTarget
  <2>9. CASE line.kind # "call"
    <3>1. target = Lookup(calls, Used) /\ source[pos].kind = "jump"
      BY <1>1, <2>9
    <3> HIDE DEF target
    <3> QED
      BY <1>1, <2>2, <2>7, <3>1, NotedTarget, LookupType
  <2> QED
    BY <2>8, <2>9
<1> HIDE DEF addr, calls, target
<1>8. CASE End("corrupt") /\ UNCHANGED <<label_calls, err, code>>
  BY <1>8, OutEnded DEF OutInv, End
<1>9. CASE /\ label_calls' = calls /\ err' = Reported(addr)
           /\ IF Dropped(target) THEN Continue /\ UNCHANGED code ELSE Emit(target)
  <2>1. source' = source /\ (phase' = "corrupt" \/ (phase' = phase /\ pos' = pos + 1))
    BY <1>9 DEF Emit, End, Continue
  <2>2. err' => Undeclared(source)
    BY <1>6, <1>9 DEF Reported, OutInv
  <2>3. CASE phase' = "corrupt"
    BY <2>1, <2>2, <2>3, OutEnded
  <2>4. CASE phase' = phase /\ pos' = pos + 1
    <3>1. Noted(source, calls, pos + 1) /\ Laid(source, referances, data, pos + 1)
      BY <1>1, <1>6, <1>7, OutPast DEF OutInv
    <3>2. ASSUME ~err' PROVE Resolved(source, code', pos + 1)
      <4>1. ~err /\ addr # Unresolved
        BY <1>9, <3>2 DEF Reported
      <4>2. target \in Nat /\ RightTarget(source, pos, target) /\ Emit(target)
        BY <1>7, <1>9, <4>1 DEF Dropped, Unresolved
      <4> QED
        BY <1>1, <2>4, <4>1, <4>2, EmitOut DEF OutInv
    <3> QED
      BY <1>1, <1>2, <1>9, <2>1, <2>2, <2>4, <3>1, <3>2 DEF OutInv
  <2> QED
    BY <2>1, <2>3, <2>4
<1> QED
  BY <1>8, <1>9, Zenon DEF EmitSymbolic, addr, calls, target, e

LEMMA TranslateDataOut == IInv /\ OutInv /\ TranslateData => OutInv'
<1> SUFFICES ASSUME IInv, OutInv, TranslateData PROVE OutInv'
  OBVIOUS
<1> USE DEF IInv
<1>1. /\ phase = "code" /\ pos <= Len(source) /\ source[pos].kind = "data"
      /\ UNCHANGED <<label_calls, err, code>>
      /\ pos \in Nat \ {0} /\ line = source[pos] /\ line \in Line
  BY LineType DEF TranslateData, At
<1>2. CASE End("crashed")
  BY <1>1, <1>2, OutEnded DEF OutInv, End
<1>3. CASE /\ line.value # NoValue
           /\ referances' = Append(referances, beginning_address)
           /\ data' = data \o line.value
           /\ beginning_address' = Following(line.value)
           /\ Continue
  <2>1. source[pos].value \in Seq(Nat)
    BY <1>1, <1>3 DEF Line
  <2>2. referances \in Seq(Nat) /\ data \in Seq(Nat)
    BY DEF TypeOK
  <2>3. Laid(source, referances', data', pos + 1)
    BY <1>1, <1>3, <2>1, <2>2, LaidOneMore DEF OutInv
  <2>4. beginning_address' = Len(data')
    BY <1>1, <1>3, <2>1, <2>2, ConcatProperties DEF OutInv, Following
  <2>5. /\ Noted(source, label_calls, pos + 1)
        /\ ~err => Resolved(source, code, pos + 1)
    <3>1. source[pos].kind \notin Instructions
      BY <1>1 DEF Instructions
    <3> QED
      BY <1>1, <3>1, OutPast DEF OutInv
  <2> QED
    BY <1>1, <1>3, <2>3, <2>4, <2>5 DEF OutInv, Continue
<1> QED
  BY <1>2, <1>3 DEF TranslateData

LEMMA OutStep == IInv /\ OutInv /\ [Next]_vars => OutInv'
<1> SUFFICES ASSUME IInv, OutInv, [Next]_vars PROVE OutInv'
  OBVIOUS
<1>1. CASE UNCHANGED vars
  BY <1>1 DEF vars, output, OutInv, Behind
<1>2. CASE Next
  BY <1>2, SkipOut, NextPassOut, CountOut, DeclareProcOut, DeclareLabelOut, EmitPlainOut,
     EmitSymbolicOut, TranslateDataOut DEF Next
<1> QED
  BY <1>1, <1>2

(* The terms of the properties in those of the invariant.                  *)
LEMMA SameAddress ==
  ASSUME source \in Seq(Line)
  PROVE  /\ \A i \in 1 .. Len(source) : AddressOf(i) = Before(source, i)
         /\ Cardinality(Places({"data"})) = Count(source, {"data"}, Behind)
         /\ \A i \in Places({"data"}) :
              Cardinality({j \in Places({"data"}) : j <= i}) = Count(source, {"data"}, i) + 1
<1>1. Len(source) \in Nat
  OBVIOUS
<1>2. ASSUME NEW i \in 1 .. Len(source) PROVE AddressOf(i) = Before(source, i)
  <2>1. {j \in Places(Instructions) : j < i} = Ahead(source, Instructions, i)
    BY <1>1 DEF Places, Ahead
  <2> QED
    BY <2>1 DEF AddressOf, Before, Count
<1>3. Places({"data"}) = Ahead(source, {"data"}, Behind)
  BY <1>1 DEF Places, Ahead, Behind
<1>4. ASSUME NEW i \in Places({"data"})
      PROVE  Cardinality({j \in Places({"data"}) : j <= i}) = Count(source, {"data"}, i) + 1
  <2>1. i \in Nat \ {0} /\ i \in 1 .. Len(source) /\ source[i].kind \in {"data"}
    BY <1>1 DEF Places
  <2>2. {j \in Places({"data"}) : j <= i} = Ahead(source, {"data"}, i + 1)
    BY <1>1, <2>1 DEF Places, Ahead
  <2>3. Count(source, {"data"}, i + 1) = Count(source, {"data"}, i) + 1
    BY <2>1, CountSteps
  <2> QED
    BY <2>2, <2>3 DEF Count
<1> QED
  BY <1>2, <1>3, <1>4 DEF Count

LEMMA SameMeaning ==
  ASSUME NEW i \in 1 .. Len(source), source \in Seq(Line), source[i].kind \in {"jump", "call"}
  PROVE  /\ Meant(i) = {d \in 1 .. Len(source) : IsMeant(source, i, d)}
         /\ IsShadowed(source, i) => Shadowed(i)
<1>1. Len(source) \in Nat
  OBVIOUS
<1>2. CASE source[i].kind = "call"
  BY <1>2 DEF Meant, Procs, Places, IsMeant, IsShadowed
<1>3. CASE source[i].kind = "jump"
  <2>1. Meant(i) = {d \in 1 .. Len(source) : IsMeant(source, i, d)}
    BY <1>3 DEF Meant, Labels, Places, IsMeant
  <2>2. \A j \in 1 .. i - 1 : j \in 1 .. Len(source) /\ j < i
    BY <1>1
  <2> QED
    BY <1>3, <2>1, <2>2 DEF IsShadowed, Shadowed, Places
<1> QED
  BY <1>2, <1>3

LEMMA OutTargets == IInv /\ OutInv => TargetsDesignate
<1> SUFFICES ASSUME IInv, OutInv, phase = "written", NEW i \in Places(Instructions)
             PROVE  /\ AddressOf(i) < Len(code) /\ code[AddressOf(i) + 1].line = i
                    /\ source[i].kind \in {"jump", "call"} /\ ~Shadowed(i) =>
                         \E d \in Meant(i) : code[AddressOf(i) + 1].target = AddressOf(d)
  BY DEF TargetsDesignate
<1>1. source \in Seq(Line) /\ Behind - 1 = Len(source)
  BY DEF IInv, TypeOK, Behind
<1>2. i \in 1 .. Len(source) /\ source[i].kind \in Instructions
  BY DEF Places
<1>3. /\ Before(source, i) < Len(code) /\ code[Before(source, i) + 1].line = i
      /\ RightTarget(source, i, code[Before(source, i) + 1].target)
  BY <1>1, <1>2 DEF OutInv, Resolved
<1>4. AddressOf(i) = Before(source, i)
  BY <1>1, <1>2, SameAddress
<1>5. ASSUME source[i].kind \in {"jump", "call"}, ~Shadowed(i)
      PROVE  \E d \in Meant(i) : code[AddressOf(i) + 1].target = AddressOf(d)
  <2>1. PICK d \in 1 .. Len(source) :
          IsMeant(source, i, d) /\ code[Before(source, i) + 1].target = Before(source, d)
    BY <1>1, <1>2, <1>3, <1>5, SameMeaning DEF RightTarget
  <2>2. d \in Meant(i) /\ AddressOf(d) = Before(source, d)
    BY <1>1, <1>2, <1>5, <2>1, SameMeaning, SameAddress
  <2> QED
    BY <1>4, <2>1, <2>2
<1> QED
  BY <1>3, <1>4, <1>5

LEMMA OutVerdict == IInv /\ OutInv => VerdictIsRight
<1> SUFFICES ASSUME IInv, OutInv PROVE VerdictIsRight
  OBVIOUS
<1> DEFINE undeclared == {i \in Places({"jump", "call"}) : Meant(i) = {}}
           twoLabels == \E i, j \in Places({"label"}) :
                          i # j /\ source[i].in = source[j].in /\ source[i].name = source[j].name
           twoProcs == \E i, j \in Places({"proc"}) : i # j /\ source[i].name = source[j].name
<1>1. source \in Seq(Line) /\ Behind - 1 = Len(source)
  BY DEF IInv, TypeOK, Behind
<1>2. \A i \in 1 .. Len(source) : source[i].kind = "proc" => source[i].in = Top
  BY DEF IInv, Parsed
<1>3. twoLabels <=> Duplicated(source, "label")
  BY DEF Duplicated, Places, Qualified
<1>4. twoProcs <=> Duplicated(source, "proc")
  BY <1>2 DEF Duplicated, Places, Qualified
<1>5. undeclared # {} <=> Undeclared(source)
  BY <1>1, SameMeaning DEF Undeclared, Places
<1> HIDE DEF undeclared, twoLabels, twoProcs
<1>6. phase = "written" => undeclared = {} /\ ~twoLabels /\ ~twoProcs
  <2> SUFFICES ASSUME phase = "written"
               PROVE  ~Undeclared(source) /\ ~Duplicated(source, "label") /\ ~Duplicated(source, "proc")
    BY <1>3, <1>4, <1>5
  <2>1. Lists(source, proc_decls, "proc", Behind) /\ Lists(source, label_decls, "label", Behind)
    BY DEF IInv, PassInv
  <2>2. ~Duplicated(source, "label") /\ ~Duplicated(source, "proc")
    BY <1>1, <2>1 DEF Lists, Duplicated
  <2>3. ~Undeclared(source)
    BY <1>1 DEF OutInv, Resolved, RightTarget, Undeclared, Instructions
  <2> QED
    BY <2>2, <2>3
<1>7. phase = "rejected" => undeclared # {}
  BY <1>5 DEF OutInv
<1>8. phase = "exited" => twoLabels \/ twoProcs
  BY <1>3, <1>4 DEF OutInv
<1> QED
  BY <1>6, <1>7, <1>8 DEF VerdictIsRight, undeclared, twoLabels, twoProcs

LEMMA LiesWhole ==
  ASSUME NEW bytes \in Seq(Nat), NEW start, NEW v, LiesAt(bytes, start, v)
  PROVE  SubSeq(bytes, start + 1, start + Len(v)) = v
<1>1. start \in Nat /\ v \in Seq(Nat) /\ Len(v) \in Nat /\ Len(bytes) \in Nat
        /\ start + Len(v) <= Len(bytes)
  BY LenProperties DEF LiesAt
<1> DEFINE t == SubSeq(bytes, start + 1, start + Len(v))
<1>2. \A k \in start + 1 .. start + Len(v) : bytes[k] \in Nat
  BY <1>1, ElementOfSeq
<1>3. start + 1 \in Int /\ start + Len(v) \in Int
  BY <1>1
<1>4. /\ t \in Seq(Nat)
      /\ Len(t) = IF start + 1 <= start + Len(v) THEN (start + Len(v)) - (start + 1) + 1 ELSE 0
      /\ \A k \in 1 .. (start + Len(v)) - (start + 1) + 1 : t[k] = bytes[(start + 1) + k - 1]
  BY <1>2, <1>3, SubSeqProperties
<1> HIDE DEF t
<1>5. Len(t) = Len(v) /\ (start + Len(v)) - (start + 1) + 1 = Len(v)
  BY <1>1, <1>4
<1>6. \A k \in 1 .. Len(v) : (start + 1) + k - 1 = start + k
  BY <1>1
<1>7. \A k \in 1 .. Len(v) : t[k] = v[k]
  BY <1>4, <1>5, <1>6 DEF LiesAt
<1> QED
  BY <1>1, <1>4, <1>5, <1>7, SeqEqual DEF t

LEMMA OutConstants == IInv /\ OutInv => ConstantsLieWhole
<1> SUFFICES ASSUME IInv, OutInv, phase = "written" PROVE ConstantsLieWhole
  BY DEF ConstantsLieWhole
<1>1. /\ source \in Seq(Line) /\ data \in Seq(Nat) /\ Behind - 1 = Len(source)
      /\ Laid(source, referances, data, Behind)
  BY DEF IInv, TypeOK, Behind, OutInv
<1>2. Len(referances) = Cardinality(Places({"data"}))
  BY <1>1, SameAddress DEF Laid
<1>3. ASSUME NEW i \in Places({"data"})
      PROVE  LiesAt(data, referances[Cardinality({j \in Places({"data"}) : j <= i})],
                    source[i].value)
  <2>1. i \in 1 .. Behind - 1 /\ source[i].kind = "data"
    BY <1>1 DEF Places
  <2> QED
    BY <1>1, <2>1, SameAddress DEF Laid
<1> QED
  BY <1>1, <1>2, <1>3, LiesWhole DEF ConstantsLieWhole, LiesAt

-----------------------------------------------------------------------------
(* The inductive invariant holds: whatever the source, each table has what *)
(* the passes so far have declared, with its address.                      *)
THEOREM Invariance == Spec => []IInv
<1> QED
  BY InitInv, StepInv, PTL DEF Spec

(* Every variable stays in its domain, for every source and every table    *)
(* size; no instruction is emitted with a failed lookup's -1               *)
(* (tasm_translator.h:306-308).                                            *)
THEOREM TypeCorrect == Spec => []TypeOK
<1>1. IInv => TypeOK
  BY DEF IInv
<1> QED
  BY <1>1, Invariance, PTL

(* The pass that emits code reaches every label and every procedure at the *)
(* address the earlier passes gave it, and all three count the same number *)
(* of instructions (tasm_translator.h:676, 725, 755).                      *)
THEOREM PassesCorrect == Spec => []PassesAgree
<1>1. IInv => PassesAgree
  <2> SUFFICES ASSUME IInv PROVE PassesAgree
    OBVIOUS
  <2> USE DEF IInv
  <2>1. ASSUME At("code", {"label", "proc"}), ~err
        PROVE  /\ pos \in 1 .. Behind - 1 /\ Behind \in Nat \ {0} /\ line = source[pos]
               /\ Len(code) = Before(source, pos)
               /\ Lists(source, label_decls, "label", Behind)
               /\ Lists(source, proc_decls, "proc", Behind)
               /\ label_decls \in Seq(Entry) /\ proc_decls \in Seq(Entry)
    <3>1. phase = "code" /\ pos <= Len(source)
      BY <2>1 DEF At
    <3> QED BY <2>1, <3>1, LineType DEF PassInv, Behind, TypeOK, Table
  <2>2. ASSUME At("code", {"label"}), ~err
        PROVE  Lookup(label_decls, Qualified(line)) = Len(code)
    <3>1. At("code", {"label", "proc"}) /\ source[pos].kind = "label"
      BY <2>2 DEF At
    <3> QED BY <2>1, <2>2, <3>1, ListsAddress
  <2>3. ASSUME At("code", {"proc"}), ~err
        PROVE  Lookup(proc_decls, <<Top, line.name>>) = Len(code)
    <3>1. At("code", {"label", "proc"}) /\ source[pos].kind = "proc" /\ pos <= Len(source)
      BY <2>3 DEF At
    <3>2. Qualified(line) = <<Top, line.name>>
      BY <2>1, <2>3, <3>1, LineType
    <3> QED BY <2>1, <2>3, <3>1, <3>2, ListsAddress
  <2>4. phase = "written" => proc_address_pointer = Len(code) /\ label_address_pointer = Len(code)
    BY DEF PassInv
  <2> QED BY <2>2, <2>3, <2>4 DEF PassesAgree
<1> QED
  BY <1>1, Invariance, PTL

LEMMA OutInvariance == Spec => [](IInv /\ OutInv)
<1>1. Init => IInv /\ OutInv
  BY InitInv, OutInit
<1>2. (IInv /\ OutInv) /\ [Next]_vars => (IInv /\ OutInv)'
  BY StepInv, OutStep
<1> QED
  BY <1>1, <1>2, PTL DEF Spec

(* In a written program every instruction is where its line puts it, and   *)
(* every jump and call goes to the declaration its name means there, but   *)
(* for jumps a procedure of the same name shadows                          *)
(* (tasm_translator.h:291-375, 560-595, 757-782).                          *)
THEOREM TargetsCorrect == Spec => []TargetsDesignate
  BY OutInvariance, OutTargets, PTL

(* The assembler writes a file only of a source that declares every name,  *)
(* once, and holds one back only for a name that is not declared or is     *)
(* declared twice (tasm_translator.h:586-590, 701-707, 729-735).           *)
THEOREM VerdictCorrect == Spec => []VerdictIsRight
  BY OutInvariance, OutVerdict, PTL

(* The k-th reference of a written program is where all the bytes of its   *)
(* k-th constant lie (tasm_translator.h:612-647).                          *)
THEOREM ConstantsCorrect == Spec => []ConstantsLieWhole
  BY OutInvariance, OutConstants, PTL
=============================================================================
