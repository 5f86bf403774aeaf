-------------------------------- MODULE Words --------------------------------
(***************************************************************************)
(* The words of a line, defined by where they begin and end; and a text    *)
(* made of words.                                                          *)
(***************************************************************************)
EXTENDS Integers, Sequences, FiniteSets

CONSTANT Space

Begins(l) == {i \in 1 .. Len(l) : l[i] # Space /\ (i = 1 \/ l[i - 1] = Space)}

WordAt(l, i) ==
  LET end == CHOOSE j \in i .. Len(l) :
               /\ \A k \in i .. j : l[k] # Space
               /\ j = Len(l) \/ l[j + 1] = Space
  IN  SubSeq(l, i, end)

(* where the nth word begins                                               *)
Nth(l, n) ==
  CHOOSE i \in Begins(l) : Cardinality({j \in Begins(l) : j <= i}) = n

WordsOf(l) == [n \in 1 .. Cardinality(Begins(l)) |-> WordAt(l, Nth(l, n))]

(* the first n words with one space between each two, for each n           *)
Joins(ws) ==
  LET to[n \in 0 .. Len(ws)] ==
        IF n = 0 THEN <<>>
        ELSE (IF n = 1 THEN <<>> ELSE to[n - 1] \o <<Space>>) \o ws[n]
  IN  to

Joined(ws) == Joins(ws)[Len(ws)]

=============================================================================
