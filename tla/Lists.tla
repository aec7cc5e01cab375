------------------------------- MODULE Lists -------------------------------
(***************************************************************************)
(* Lists and the part of one that satisfies a condition.                   *)
(*                                                                         *)
(* Among is SelectSeq with the condition given as a set.  The Sequences    *)
(* module of the proof system has no definition of SelectSeq, so that      *)
(* nothing can be proved of a model that uses it.                          *)
(***************************************************************************)
EXTENDS Naturals, Sequences

IsList(s) == s \in Seq({s[k] : k \in DOMAIN s})

\* The elements of s that are in S, in the order they have in s.
Among(s, S) ==
  LET kept[n \in 0 .. Len(s)] ==
        IF n = 0 THEN << >>
        ELSE IF s[n] \in S THEN Append(kept[n - 1], s[n]) ELSE kept[n - 1]
  IN kept[Len(s)]
=============================================================================
