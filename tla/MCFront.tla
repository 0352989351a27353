------------------------------- MODULE MCFront -------------------------------
(***************************************************************************)
(* Small sources for the lexer and the parser.  A keyword is one letter.   *)
(***************************************************************************)
EXTENDS Parser, TLC

MCCharacter ==
  {"a", "b", "h", "s", "i", "j", "c", "P", "E", "F", "D", "T", "x", "0", "1", "nul", "eof", "newline",
   "space", "quote", "apost", "backslash", "dot", "minus", "colon", "at", "semicolon", "other"}
MCLetter == {"a", "b", "h", "s", "i", "j", "c", "P", "E", "F", "D", "T", "x"}
MCDigit == {"0", "1"}
MCHexDigit == {"0", "1", "a", "b"}
MCEscape == [quote |-> "quote", backslash |-> "backslash"] @@ ("0" :> "nul")
MCKeyword ==
  (<<"h">> :> "PLAIN") @@ (<<"s">> :> "PUSH") @@ (<<"i">> :> "INT") @@ (<<"j">> :> "JUMP")
    @@ (<<"c">> :> "CALL") @@ (<<"P">> :> "PROC") @@ (<<"E">> :> "ENDP")
    @@ (<<"F">> :> "CFUNCTION") @@ (<<"D">> :> "DATA") @@ (<<"T">> :> "CTYPE")
MCIds == {t \in Seq(MCLetter \union MCDigit) : t # <<>> /\ t \notin DOMAIN MCKeyword}

(* Lines and parts of lines, right and wrong. *)
Fragments == {
  <<"h", "newline">>,
  <<"s", "space", "minus", "1", "dot", "0", "newline">>,
  <<"s", "space", "apost", "a", "apost", "newline">>,
  <<"s", "space", "0", "b", "1">>,
  <<"i", "space", "0", "x", "a", "newline">>,
  <<"j", "space", "a", "newline">>,
  <<"c", "space", "a", "semicolon", "h", "newline">>,
  <<"a", "colon">>,
  <<"P", "space", "a", "newline">>,
  <<"E", "newline">>,
  <<"at", "D", "space", "quote", "a", "quote">>,
  <<"at", "D", "space", "quote", "backslash", "0", "a", "quote", "newline">>,
  <<"at", "D">>,
  <<"at", "F", "space", "T", "space", "a", "space", "T">>,
  <<"newline">>, <<"semicolon", "a">>, <<"space">>, <<"minus">>, <<"1">>, <<"T">>,
  <<"quote">>, <<"apost">>, <<"backslash">>, <<"nul">>, <<"other">>, <<"a", "b", "a">>}

RECURSIVE Concatenations(_)
Concatenations(n) ==
  IF n = 1 THEN Fragments ELSE {f \o g : f \in Fragments, g \in Concatenations(n - 1)}

(* Strings of single characters, for the lexer's sake. *)
Quoted == [1 .. 4 -> {"quote", "apost", "backslash", "space", "a", "newline"}]

MCFiles == {f \o <<"eof">> \o behind : f \in UNION {Concatenations(n) : n \in 1 .. 3}, behind \in {<<>>}}
   \union {<<"at", "D">> \o f \o <<"eof">> \o behind : f \in Quoted, behind \in {<<>>, <<"newline">>}}
=============================================================================
