--------------------------------- MODULE Texts ---------------------------------
(***************************************************************************)
(* Texts as sequences of tokens, and what trim, split and join of str make *)
(* of them.                                                                *)
(***************************************************************************)
EXTENDS Integers, Sequences, FiniteSets, FiniteSetsExt

TAB == "\t"
NL == "\n"
SPACE == " "
White == {TAB, NL, SPACE}

Trim(s) ==
    LET ink == {i \in DOMAIN s : s[i] \notin White}
    IN  IF ink = {} THEN <<>> ELSE SubSeq(s, Min(ink), Max(ink))

Split(s, c) ==
    LET ends == {i \in DOMAIN s : s[i] = c} \cup {0, Len(s) + 1}
        at == [n \in 1 .. Cardinality(ends) |->
                  CHOOSE i \in ends : Cardinality({j \in ends : j <= i}) = n]
    IN  [n \in 1 .. Len(at) - 1 |-> SubSeq(s, at[n] + 1, at[n + 1] - 1)]

(* The texts ss with c between them. *)
Join(ss, c) ==
    LET upto[i \in DOMAIN ss] == IF i = 1 THEN ss[i] ELSE upto[i - 1] \o <<c>> \o ss[i]
    IN  IF ss = <<>> THEN <<>> ELSE upto[Len(ss)]
===============================================================================
