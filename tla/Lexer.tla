-------------------------------- MODULE Lexer --------------------------------
(***************************************************************************)
(* The assembler's lexer (src/include/tasm/tasm_lexer.h) over the buffer   *)
(* that read_file_content of src/src/tasm.c fills: the characters of the   *)
(* file, the EOF character, and what the memory behind holds.              *)
(*                                                                         *)
(* The lexer's state is its cursor and peek, the static counter that       *)
(* tasm_lexer_peek keeps between calls; prev_char, current_char and        *)
(* next_char follow from the cursor.  Locations are left out.              *)
(***************************************************************************)
EXTENDS Integers, Sequences

CONSTANTS
  Character,                 \* what a file is made of, each character by a name
  Letter, Digit, HexDigit,   \* isalpha or '_', isdigit, isxdigit
  Escape,    \* the character each letter stands for behind a backslash
  Keyword,   \* from the texts of keywords to their token types
  TempCap    \* temp_val: 128

(* The opcodes by the operand tasm_parse_instruction asks them for. *)
OpTypes == {"PLAIN", "PUSH", "INT", "JUMP", "CALL"}
KeywordTypes == OpTypes \union {"PROC", "ENDP", "CFUNCTION", "DATA", "CTYPE"}
NumberTypes == {"DECIMAL", "FLOAT", "HEX", "BINARY"}
TokenType == KeywordTypes \union NumberTypes \union
  {"NONE", "ID", "COLON", "APOST", "QUOTA", "AT", "MINUS", "STRING", "CHAR",
   "COMMENT", "ENDLINE", "EOF"}

(* Letters and digits are none of the characters the lexer asks for by     *)
(* themselves.                                                             *)
Special == {"nul", "eof", "newline", "space", "quote", "apost", "backslash", "dot", "minus"}
ASSUME CharAssumption ==
  /\ Special \subseteq Character /\ "null" \notin Character
  /\ Digit \subseteq HexDigit /\ {"0", "1"} \subseteq Digit /\ Letter \intersect Digit = {}
  /\ (Letter \union HexDigit) \intersect Special = {}
  /\ \A e \in DOMAIN Escape : Escape[e] \in Character
ASSUME KeywordAssumption ==
  \A t \in DOMAIN Keyword : t \in Seq(Letter \union Digit) /\ Keyword[t] \in KeywordTypes

VARIABLE source   \* the buffer: the file, "eof", and the bytes behind

(* strlen of the buffer.  Nothing ends it with a 0, but one byte behind    *)
(* the modelled ones is taken to be 0.                                     *)
SourceSize ==
  IF \E k \in 1 .. Len(source) : source[k] = "nul"
    THEN (CHOOSE k \in 1 .. Len(source) :
            source[k] = "nul" /\ \A j \in 1 .. k - 1 : source[j] # "nul") - 1
    ELSE Len(source)

Char(at) == IF at < Len(source) THEN source[at + 1] ELSE "nul"
Text(from, to) == SubSeq(source, from + 1, to)

(* tasm_lexer_advance does not move at the end. *)
Advance_PastEOF(at) == IF at >= SourceSize THEN at ELSE at + 1   \* faulty
Advance(at) == IF Char(at) = "eof" \/ at >= SourceSize THEN at ELSE at + 1
PrevChar(at) == IF at = 0 THEN Char(0) ELSE Char(at - 1)

(* Where a loop that advances over the characters of S ends. *)
Past(at, S) ==
  CHOOSE q \in at .. Len(source) : Char(q) \notin S /\ \A k \in at .. q - 1 : Char(k) \in S

(* Tokens.  value is the text that matters later, NoText a null pointer.   *)
(* at and peek are the lexer's state after the token; lost says why the    *)
(* lexer does not come back from it.                                       *)
NoText == <<"null">>
Value == Seq(Character \union {"null"})
Token == [type : TokenType, value : Value]
Scanned == [token : Token, at : 0 .. SourceSize, peek : Nat, lost : {"no", "hung", "corrupt"}]
Result(type, value, at, peek) ==
  [token |-> [type |-> type, value |-> value], at |-> at, peek |-> peek,
   lost |-> IF Len(value) >= TempCap THEN "corrupt" ELSE "no"]
Hang(at, peek) ==
  [token |-> [type |-> "NONE", value |-> NoText], at |-> at, peek |-> peek, lost |-> "hung"]

-----------------------------------------------------------------------------
(* Strings and characters.                                                 *)

(* The peek loop of collect_str stops at the first end of line from the    *)
(* place the counter is at; without one in the buffer it goes on for ever, *)
(* because peek returns 0 from there on.                                   *)
LineEnds(at, peek) == {j \in at + peek .. SourceSize - 1 : Char(j) \in {"newline", "eof"}}
LineEnd(at, peek) == CHOOSE j \in LineEnds(at, peek) : \A k \in LineEnds(at, peek) : j <= k

(* tasm_lexer_peek_reset after that loop looked at position j. *)
PeekReset_Never(at, j) == j + 1 - at   \* faulty: the counter stays
PeekReset(at, j) == IF j + 1 >= SourceSize THEN j + 1 - at ELSE 0

(* The loop that takes characters: until a quote, or more than limit are   *)
(* taken.  An escape is two characters of the file and one of the string;  *)
(* an unknown one is dropped and reported, but is no error.                *)
TakeState == [at : 0 .. SourceSize, val : Seq(Character)]
Unescaped(val, c) == IF c \in DOMAIN Escape THEN Append(val, Escape[c]) ELSE val
TakeOne(s) ==
  LET next == Advance(s.at) IN
  IF Char(s.at) = "backslash" THEN [at |-> Advance(next), val |-> Unescaped(s.val, Char(next))]
                              ELSE [at |-> next, val |-> Append(s.val, Char(s.at))]

Taken(start, limit) ==
  LET take[s \in TakeState] ==
        IF Char(s.at) = "quote" \/ Len(s.val) > limit THEN s ELSE take[TakeOne(s)]
  IN  take[[at |-> start, val |-> <<>>]]

CollectStr(at, peek) ==
  IF LineEnds(at, peek) = {} THEN Hang(at, peek)
  ELSE LET j == LineEnd(at, peek)
           s == Taken(at, j - at - peek)
       IN  Result("STRING", s.val, s.at, PeekReset(at, j))

CollectChar(at, peek) ==
  LET next == Advance(at) IN
  IF Char(next) = "apost" THEN Result("CHAR", <<Char(at)>>, next, peek)
                          ELSE Result("NONE", NoText, Advance(next), peek)

-----------------------------------------------------------------------------
(* Everything else.                                                        *)

CollectId(at, peek) ==
  LET end == Past(at, Letter \union Digit)
      text == Text(at, end)
  IN  Result(IF text \in DOMAIN Keyword THEN Keyword[text] ELSE "ID", text, end, peek)

CollectNumber(at, peek) ==
  LET whole == Past(at, Digit) IN
  IF Char(whole) = "dot"
    THEN LET end == Past(whole + 1, Digit) IN Result("FLOAT", Text(at, end), end, peek)
    ELSE Result("DECIMAL", Text(at, whole), whole, peek)

CollectPrefixed(type, digits, at, peek) ==
  LET end == Past(at + 2, digits) IN Result(type, Text(at + 2, end), end, peek)

OneChar == [newline |-> "ENDLINE", colon |-> "COLON", apost |-> "APOST", quote |-> "QUOTA",
            at |-> "AT", minus |-> "MINUS", eof |-> "EOF"]

CollectOneChar(at, peek) ==
  LET c == Char(at) IN
  IF c = "semicolon"   \* tasm_lexer_skip_line
    THEN IF LineEnds(at, 0) = {} THEN Hang(at, peek)
         ELSE Result("COMMENT", <<c>>, LineEnd(at, 0), peek)
  ELSE IF c \in DOMAIN OneChar THEN Result(OneChar[c], <<c>>, Advance(at), peek)
  ELSE Result("NONE", NoText, Advance(at), peek)

(* tasm_lexer_get_next_token.  The character before the cursor tells it    *)
(* that it is inside quotes.                                               *)
InString_NoEscape(at) ==   \* faulty: a string does not begin with an escape
  PrevChar(at) = "quote" /\ Char(at) \notin {"quote", "newline", "eof", "apost", "backslash"}
InString(at) ==
  PrevChar(at) = "quote" /\ Char(at) \notin {"quote", "newline", "eof", "apost"}
InChar(at) ==
  PrevChar(at) = "apost" /\ Char(at) \notin {"newline", "eof", "quote"}

NextToken(at0, peek) ==
  IF InString(at0) THEN CollectStr(at0, peek)
  ELSE IF InChar(at0) THEN CollectChar(at0, peek)
  ELSE LET at == Past(at0, {"space"})
           c == Char(at)
           next == Char(at + 1)
       IN  IF c \in Letter THEN CollectId(at, peek)
           ELSE IF c = "0" /\ next = "b" THEN CollectPrefixed("BINARY", {"0", "1"}, at, peek)
           ELSE IF c = "0" /\ next = "x" THEN CollectPrefixed("HEX", HexDigit, at, peek)
           ELSE IF c \in Digit THEN CollectNumber(at, peek)
           ELSE CollectOneChar(at, peek)
=============================================================================
