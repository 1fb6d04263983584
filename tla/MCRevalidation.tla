--------------------------- MODULE MCRevalidation ---------------------------
(* Instances of Revalidation for TLC. *)
EXTENDS Revalidation, TLC

CONSTANTS m1, m2, s1, s2, c1, c2

(* Two memories on one source, the second derived from the first: calls    *)
(* meet in one flight and a signal reaches m2 on two ways.                 *)
OneSource == m1 :> <<s1>> @@ m2 :> <<s1>>

(* A memory on two sources, asked one after the other, and a memory that   *)
(* only depends on it and has no evidence.                                 *)
TwoSources == m1 :> <<s1, s2>> @@ m2 :> <<>>

SecondOnFirst == m1 :> {} @@ m2 :> {m1}

BothMemories == {<<m1, m2>>}

Mode(sharing, cas) == [sharing |-> sharing, cas |-> cas]

SharingModes == {Mode(TRUE, TRUE), Mode(TRUE, FALSE)}
AllModes == [sharing : BOOLEAN, cas : BOOLEAN]

CallSymmetry == Permutations(Calls)
=============================================================================
