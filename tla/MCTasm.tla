------------------------------- MODULE MCTasm -------------------------------
(* Small sources for the translator. *)
EXTENDS Tasm, TLC

CONSTANTS x, y

MCIds == {x, y}
IdSymmetry == Permutations(MCIds)

L(kind, scope, name, value) == [kind |-> kind, in |-> scope, name |-> name, value |-> value]

Inside(scope) ==
  {L("inst", scope, NoName, NoValue)}
    \union {L(kind, scope, id, NoValue) : kind \in {"jump", "call", "label"}, id \in Ids}

Headers == {L("proc", Top, id, NoValue) : id \in Ids}
DataLines == {L("data", Top, NoName, v) : v \in {NoValue, <<7>>, <<8, 9>>}}

(* Every source of n lines: the lines of a procedure follow its header. *)
SourcesOf[n \in Nat] ==
  IF n = 0 THEN {<<>>}
  ELSE UNION
    {LET last == IF s = <<>> THEN L("inst", Top, NoName, NoValue) ELSE s[Len(s)]
         here == IF last.kind = "proc" THEN Inside(last.name)
                 ELSE IF last.in # Top THEN Inside(last.in) ELSE {}
     IN  {Append(s, l) : l \in Inside(Top) \union Headers \union DataLines \union here}
       : s \in SourcesOf[n - 1]}

MCSources == SourcesOf[4]
=============================================================================
