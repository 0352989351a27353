-------------------------------- MODULE Parser --------------------------------
(***************************************************************************)
(* The assembler's parser (src/include/tasm/tasm_parser.h): recursive      *)
(* descent with two tokens of lookahead over the Lexer.  Errors are        *)
(* recorded and parsing goes on; the verdict comes at the end of the file. *)
(*                                                                         *)
(* One step is one call of tasm_parse_line or tasm_parse_proc_line, the    *)
(* end of a procedure, or the end of the file.  Every function of the      *)
(* parser is an operator from the parser's state to the next.  Warnings    *)
(* and locations are left out.                                             *)
(***************************************************************************)
EXTENDS Lexer, TasmLines

CONSTANT Files   \* buffers to parse

ASSUME FilesAssumption ==
  \A f \in Files : f \in Seq(Character) /\ \E k \in 2 .. Len(f) : f[k] = "eof"

VARIABLES
  p,      \* tasm_parser_t: tokens cur and nxt, the lexer's at and peek, err
          \* for is_err, and lost: why the parser does not come back
  in,     \* the procedure whose lines are parsed, or Top
  lines,  \* the syntax tree so far
  status  \* "running", "accepted", "rejected", or what p.lost says

vars == <<source, p, in, lines, status>>

State == [cur : Token, nxt : Token, at : 0 .. SourceSize, peek : Nat, err : BOOLEAN,
          lost : {"no", "hung", "corrupt", "crashed"}]
(* tasm_parser_init holds the first token ready behind a NONE, which       *)
(* tasm_parse_file eats.                                                   *)
None == [type |-> "NONE", value |-> NoText]
InitParser == [cur |-> None, nxt |-> None, at |-> 0, peek |-> 0, err |-> FALSE, lost |-> "no"]

-----------------------------------------------------------------------------
(* Tokens.                                                                 *)

Follow[q \in State] == [n \in Scanned |->
  [q EXCEPT !.cur = q.nxt, !.nxt = n.token, !.at = n.at, !.peek = n.peek, !.lost = n.lost]]
Shift[q \in State] == IF q.lost = "no" THEN Follow[q][NextToken(q.at, q.peek)] ELSE q

Fail_Silent(q) == q   \* faulty: an error is printed and not recorded
Fail(q) == [q EXCEPT !.err = TRUE]

(* tasm_parser_eat records an error without consuming anything;            *)
(* tasm_parser_err consumes a token.                                       *)
Eat[q \in State] == [type \in TokenType |-> IF q.cur.type = type THEN Shift[q] ELSE Fail(q)]
EatIf[q \in State] == [type \in TokenType |-> IF q.cur.type = type THEN Shift[q] ELSE q]
Report[q \in State] == Fail(Shift[q])
ReportIf[q \in State] == [types \in SUBSET TokenType |->
  IF q.cur.type \in types THEN Report[q] ELSE q]

EndOfLine[q \in State] ==
  LET r == EatIf[q]["COMMENT"] IN IF r.cur.type = "EOF" THEN Eat[r]["EOF"] ELSE Eat[r]["ENDLINE"]

-----------------------------------------------------------------------------
(* Literals and operands: the state behind one, its text (NoValue if there *)
(* is none) and, of a label, its name.                                     *)

Found(q, value) == [p |-> q, value |-> value, name |-> NoName]

(* tasm_parse_num_lit; the number its text stands for is left out. *)
NumLit(q, sign) == Found(Shift[q], sign \o q.cur.value)

NumberOperand[q \in State] ==
  LET r == EatIf[q]["MINUS"] IN
  IF r.cur.type \in NumberTypes
    THEN NumLit(r, IF q.cur.type = "MINUS" THEN <<"minus">> ELSE <<>>)
    ELSE Found(r, NoValue)

CharLit[q \in State] ==
  LET r == Eat[q]["APOST"] IN Found(Eat[Eat[r]["CHAR"]]["APOST"], r.cur.value)

(* string.length is strlen(val): a \0 in the literal ends it. *)
UpToNul(text) ==
  IF \E k \in DOMAIN text : text[k] = "nul"
    THEN SubSeq(text, 1, (CHOOSE k \in DOMAIN text : /\ text[k] = "nul"
                                                     /\ \A j \in 1 .. k - 1 : text[j] # "nul") - 1)
    ELSE text

StrLit[q \in State] ==
  LET r == Eat[q]["QUOTA"]
      s == Eat[Eat[r]["STRING"]]["QUOTA"]
  IN  IF r.cur.value = NoText /\ s.lost = "no"
        THEN Found([s EXCEPT !.lost = "crashed"], NoValue)   \* strlen(NULL)
        ELSE Found(s, UpToNul(r.cur.value))

IntOperand[q \in State] ==
  IF q.cur.type \in {"DECIMAL", "HEX"} THEN NumLit(q, <<>>) ELSE Found(q, NoValue)

LabelOperand[q \in State] ==
  IF q.cur.type = "ID" THEN [p |-> Shift[q], value |-> q.cur.value, name |-> q.cur.value]
                       ELSE Found(q, NoValue)

Operand[q \in State] == [type \in OpTypes |->
  CASE type = "PLAIN" -> Found(q, <<>>)
    [] type = "PUSH"  -> IF q.cur.type = "APOST" THEN CharLit[q] ELSE NumberOperand[q]
    [] type = "INT"   -> IntOperand[q]
    [] type = "JUMP"  -> IF q.cur.type = "ID" THEN LabelOperand[q] ELSE IntOperand[q]
    [] type = "CALL"  -> LabelOperand[q]]

-----------------------------------------------------------------------------
(* Lines: the state behind one, and the nodes it adds to the tree.         *)

NodeOf_Root(kind, op, name, value) ==   \* faulty: every node is added to the file's root
  <<[kind |-> kind, op |-> op, in |-> Top, name |-> name, value |-> value]>>
NodeOf(kind, op, name, value) ==
  <<[kind |-> kind, op |-> op, in |-> in, name |-> name, value |-> value]>>

Instruction[q \in State] ==
  LET type == q.cur.type
      o == Operand[Shift[q]][type]
      r == IF o.value = NoValue THEN Report[o.p] ELSE o.p
      kind == IF o.name = NoName THEN "inst" ELSE IF type = "CALL" THEN "call" ELSE "jump"
  IN  [p |-> EndOfLine[r], nodes |-> NodeOf(kind, q.cur.value, o.name, NoValue)]

IsLabelDecl(q) == q.cur.type = "ID" /\ q.nxt.type = "COLON"
LabelDecl[q \in State] ==
  [p |-> Eat[Eat[q]["ID"]]["COLON"], nodes |-> NodeOf("label", NoText, q.cur.value, NoValue)]

(* A missing literal is no error. *)
Data[q \in State] ==
  LET r == Eat[q]["DATA"]
      v == IF r.cur.type = "QUOTA" THEN StrLit[r]
           ELSE IF r.cur.type = "APOST" THEN CharLit[r] ELSE NumberOperand[r]
  IN  [p |-> v.p, nodes |-> NodeOf("data", NoText, NoName, v.value)]

(* The argument types, up to the end of the line.  Where the lexer no      *)
(* longer moves this loop never ends.                                      *)
Arguments[q \in State] ==
  LET r == Shift[IF q.cur.type = "CTYPE" THEN q ELSE Fail(q)] IN
  IF q.lost # "no" \/ q.cur.type \in {"ENDLINE", "EOF", "COMMENT"} THEN q
  ELSE IF r = q THEN [q EXCEPT !.lost = "hung"] ELSE Arguments[r]

Cfunction[q \in State] ==
  LET r == Eat[q]["CFUNCTION"]
      s == Shift[IF r.cur.type = "CTYPE" THEN r ELSE Fail(r)]
  IN  [p |-> Arguments[Eat[s]["ID"]], nodes |-> <<>>]

Metadata[q \in State] ==
  LET r == Eat[q]["AT"] IN
  CASE r.cur.type = "CFUNCTION" -> Cfunction[r]
    [] r.cur.type = "DATA"      -> Data[r]
    [] OTHER                    -> [p |-> Fail(r), nodes |-> <<>>]

(* Tokens no line begins with, each check made on what the one before left. *)
Unexpected_NoText == NumberTypes \union {"ID", "COLON", "APOST", "QUOTA", "NONE"}   \* faulty
Unexpected == NumberTypes \union {"ID", "STRING", "CHAR", "COLON", "APOST", "QUOTA", "NONE"}
Rest[q \in State] ==
  LET r == ReportIf[ReportIf[ReportIf[q][Unexpected]][{"CFUNCTION", "CTYPE"}]][{"ENDP"}]
  IN  [p |-> EatIf[EatIf[EatIf[r]["ENDLINE"]]["COMMENT"]]["EOF"], nodes |-> <<>>]

ParseLine[q \in State] ==
  IF IsLabelDecl(q) THEN LabelDecl[q]
  ELSE IF q.cur.type \in OpTypes THEN Instruction[q]
  ELSE IF q.cur.type = "AT" THEN Metadata[q]
  ELSE Rest[q]

ParseProcLine[q \in State] ==
  IF IsLabelDecl(q) THEN LabelDecl[q]
  ELSE IF q.cur.type \in OpTypes THEN Instruction[q]
  ELSE Rest[ReportIf[ReportIf[ReportIf[q][{"PROC"}]][{"AT"}]][{"DATA"}]]

-----------------------------------------------------------------------------
(* tasm_parse_file and tasm_parse_proc.                                    *)

Running == status = "running" /\ p.lost = "no"

Take(result) == p' = result.p /\ lines' = lines \o result.nodes

FileLine ==
  /\ Running /\ in = Top /\ p.cur.type \notin {"EOF", "PROC"}
  /\ Take(ParseLine[p])
  /\ UNCHANGED <<source, in, status>>

ProcBegin ==
  /\ Running /\ in = Top /\ p.cur.type = "PROC"
  /\ LET q == Eat[p]["PROC"] IN
       /\ Take([p |-> Eat[q]["ID"], nodes |-> NodeOf("proc", NoText, q.cur.value, NoValue)])
       /\ in' = q.cur.value
  /\ UNCHANGED <<source, status>>

ProcLine ==
  /\ Running /\ in # Top /\ p.cur.type \notin {"EOF", "ENDP"}
  /\ Take(ParseProcLine[p])
  /\ UNCHANGED <<source, in, status>>

ProcEnd ==
  /\ Running /\ in # Top /\ p.cur.type \in {"EOF", "ENDP"}
  /\ p' = EndOfLine[Eat[p]["ENDP"]]
  /\ in' = Top
  /\ UNCHANGED <<source, lines, status>>

FileEnd ==
  /\ Running /\ in = Top /\ p.cur.type = "EOF"
  /\ p' = EndOfLine[p]
  /\ status' = IF p'.err THEN "rejected" ELSE "accepted"
  /\ UNCHANGED <<source, in, lines>>

Lost ==
  /\ status = "running" /\ p.lost # "no"
  /\ status' = p.lost
  /\ UNCHANGED <<source, p, in, lines>>

Init ==
  /\ source \in Files
  /\ p = Eat[Shift[InitParser]]["NONE"]
  /\ in = Top /\ lines = <<>> /\ status = "running"

Next == FileLine \/ ProcBegin \/ ProcLine \/ ProcEnd \/ FileEnd \/ Lost

(* One thread, which takes a step whenever it can. *)
Spec == Init /\ [][Next]_vars /\ WF_vars(Next)

-----------------------------------------------------------------------------
(* The language, stated without the parser: which sequences of tokens are  *)
(* files.                                                                  *)

(* The tokens of the source up to the first that ends it or is none. *)
Tokens ==
  LET from[s \in [at : Nat, peek : Nat, out : Seq(Token)]] ==
        LET n == NextToken(s.at, s.peek)
            out == Append(s.out, n.token)
        IN  IF n.lost # "no" \/ n.token.type \in {"EOF", "NONE"} THEN out
            ELSE from[[at |-> n.at, peek |-> n.peek, out |-> out]]
  IN  from[[at |-> 0, peek |-> 0, out |-> <<>>]]

Types(tokens) == [k \in DOMAIN tokens |-> tokens[k].type]

Joined(S, T) == {s \o t : s \in S, t \in T}

Ints == {<<"DECIMAL">>, <<"HEX">>}
Numbers == {<<n>> : n \in NumberTypes} \union {<<"MINUS", n>> : n \in NumberTypes}
Characters == {<<"APOST", "CHAR", "APOST">>}
OperandPhrases == [PLAIN |-> {<<>>}, PUSH |-> Numbers \union Characters, INT |-> Ints,
                   JUMP |-> Ints \union {<<"ID">>}, CALL |-> {<<"ID">>}]
EndPhrases == Joined({<<>>, <<"COMMENT">>}, {<<"ENDLINE">>, <<"EOF">>})

(* A label needs no line of its own; an instruction does. *)
Phrases ==
  {<<"ENDLINE">>, <<"COMMENT">>, <<"ID", "COLON">>}
    \union UNION {Joined({<<op>>}, Joined(OperandPhrases[op], EndPhrases)) : op \in OpTypes}

(* @data with no literal is a file. *)
DataPhrases ==
  Joined({<<"AT", "DATA">>},
         Numbers \union Characters \union {<<"QUOTA", "STRING", "QUOTA">>, <<>>, <<"MINUS">>})

CfunPhrase(n) == <<"AT", "CFUNCTION", "CTYPE", "ID">> \o [k \in 1 .. n |-> "CTYPE"]

IsFile[t \in Seq(TokenType)] ==
  LET n == Len(t)
      At(phrase, i) ==
        i + Len(phrase) <= n + 1 /\ SubSeq(t, i, i + Len(phrase) - 1) = phrase
      file[i \in 1 .. n + 1, inside \in BOOLEAN] ==
        \/ ~inside /\ (i = n + 1 \/ t[i] = "EOF")
        \/ /\ i <= n
           /\ \/ \E ph \in Phrases : At(ph, i) /\ file[i + Len(ph), inside]
              \/ /\ ~inside
                 /\ \/ \E ph \in DataPhrases : At(ph, i) /\ file[i + Len(ph), FALSE]
                    \/ \E k \in 0 .. n : /\ At(CfunPhrase(k), i)
                                         /\ t[i + 4 + k] \in {"ENDLINE", "EOF", "COMMENT"}
                                         /\ file[i + 4 + k, FALSE]
                    \/ At(<<"PROC", "ID">>, i) /\ file[i + 2, TRUE]
              \/ /\ inside
                 /\ \E ph \in Joined({<<"ENDP">>}, EndPhrases) : At(ph, i) /\ file[i + Len(ph), FALSE]
  IN  t[n] = "EOF" /\ file[1, FALSE]

Derivable == IsFile[Types(Tokens)]

-----------------------------------------------------------------------------
(* Properties.                                                             *)

(* No function consumes these where a line begins: the loop stands still,  *)
(* as it does at a 0 byte.                                                 *)
Stuck ==
  \/ p.cur.type = "MINUS"
  \/ p.cur.type = "DATA" /\ in = Top
  \/ p.cur.type = "NONE" /\ p.nxt.type = "NONE" /\ Char(p.at) = "nul"

(* Every variable stays in its domain, and the cursor never passes the     *)
(* character that ends the file, whatever lies behind it                   *)
(* (tasm_lexer.h:80-92).                                                   *)
TypeOK ==
  /\ p \in State /\ \A k \in 1 .. p.at : source[k] # "eof"
  /\ in = Top \/ in \in Value
  /\ \A k \in 1 .. Len(lines) : lines[k].kind \in Kind
  /\ status \in {"running", "accepted", "rejected", "hung", "corrupt", "crashed"}

(* Parsing goes on after an error, with tokens consumed or not as each     *)
(* function likes; still a file is accepted exactly if its tokens form one, *)
(* and no such file leaves the parser stuck or the lexer hanging           *)
(* (tasm_parser.h:187-280, 329-456, 483-885).                              *)
VerdictIsGrammar ==
  /\ status = "accepted" => Derivable
  /\ status = "rejected" \/ p.lost # "no" \/ Stuck => ~Derivable

(* The procedure around token k: the last one opened and not closed. *)
Around(t, k) ==
  LET marks == {j \in 1 .. k : t[j].type \in {"PROC", "ENDP"}}
      last == CHOOSE j \in marks : \A i \in marks : i <= j
  IN  IF marks = {} THEN Top ELSE IF t[last].type = "ENDP" THEN Top ELSE t[last + 1].value

(* The opcodes of a file with the procedures around them, in order. *)
Opcodes[t \in Seq(Token)] ==
  LET IsOp(k) == t[k].type \in OpTypes
      at == SelectSeq([k \in DOMAIN t |-> k], IsOp)
  IN  [k \in DOMAIN at |-> <<t[at[k]].value, Around(t, at[k])>>]

(* The tree of an accepted file is one the translator can walk, and has    *)
(* every opcode of the source once, in order, under the procedure it is    *)
(* written in (tasm_parser.h:249-280, 419-456).                            *)
TreeIsSource ==
  status = "accepted" =>
    LET IsInst(l) == l.kind \in Instructions
        insts == SelectSeq(lines, IsInst)
    IN  /\ Parsed(lines)
        /\ [k \in DOMAIN insts |-> <<insts[k].op, insts[k].in>>] = Opcodes[Tokens]

(* The literal after a quote is never a null pointer, though the lexer     *)
(* makes such tokens and tasm_parse_str_lit takes its length at once: the  *)
(* character before the cursor decides (tasm_lexer.h:124-128,              *)
(* tasm_parser.h:874-885).                                                 *)
NoNullLiteral == p.lost # "crashed"

(* The counter of tasm_lexer_peek outlives its call only on the last line  *)
(* of the buffer, when no other line begins behind the cursor: any other   *)
(* string is scanned from its own start (tasm_lexer.h:93-109).             *)
PeekStaysOnlyOnTheLastLine ==
  p.peek # 0 => \A k \in p.at .. SourceSize - 2 : Char(k) # "newline"

(* Claim of tasm_lexer.h:37, "Peek reset function resets the peek          *)
(* function": the counter is zero between tokens.                          *)
PeekIsReset == p.peek = 0

(* Whatever the errors, every file comes to an end unless the parser gets  *)
(* stuck at one of those or the lexer hangs (tasm_parser.h:252, 426).      *)
EndsOrSticks == status = "running" ~> (status # "running" \/ Stuck)
=============================================================================
