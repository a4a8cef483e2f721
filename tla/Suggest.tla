------------------------------- MODULE Suggest -------------------------------
(***************************************************************************)
(* What the command line tool suggests for a command it does not know      *)
(* (vault_cli/src/commands.rs): the first known command that the word      *)
(* typed begins, or else the first of those fewest edits away, if that is  *)
(* two at most.  The edit distance is computed row by row.                 *)
(***************************************************************************)
EXTENDS Naturals, Sequences

CONSTANTS
  Letters,
  MaxWord,  \* bound: the longest word typed
  Known     \* KNOWN_COMMANDS, a sequence of words

ASSUME SuggestAssumption == MaxWord \in Nat /\ Known \in Seq(Seq(Letters))

VARIABLES typed, suggestion

NoWord == <<"none">>
NotYet == <<"not yet">>
Words(n) == UNION {[1 .. k -> Letters] : k \in 0 .. n}
Least(S) == CHOOSE n \in S : \A m \in S : n <= m

\* Mutant of Cell: the letter dropped from the word typed costs nothing.
CellFree(prev, left, j, cost) == Least({prev[j - 1] + cost, prev[j], left + 1})
\* One cell, from the row above and the cell on its left.
Cell(prev, left, j, cost) == Least({prev[j - 1] + cost, prev[j] + 1, left + 1})

\* The row of the i-th letter of the first word.
Row(prev, i, letter, b) ==
  LET cur[j \in 0 .. Len(b)] ==
        IF j = 0 THEN i
        ELSE Cell(prev, cur[j - 1], j, IF letter = b[j] THEN 0 ELSE 1)
  IN  cur

EditDistance(a, b) ==
  LET row[i \in 0 .. Len(a)] ==
        IF i = 0 THEN [j \in 0 .. Len(b) |-> j] ELSE Row(row[i - 1], i, a[i], b)
  IN  row[Len(a)][Len(b)]

Begins(word, c) ==
  Len(word) < Len(c) /\ SubSeq(c, 1, Len(word)) = word

SuggestCommand(word) ==
  LET begun == {i \in DOMAIN Known : Begins(word, Known[i])}
      d == [i \in DOMAIN Known |-> EditDistance(word, Known[i])]
      near == {i \in DOMAIN Known : d[i] <= 2}
      nearest == {i \in near : \A k \in near : d[i] <= d[k]}
  IN  IF begun # {} THEN Known[Least(begun)]
      ELSE IF near = {} THEN NoWord ELSE Known[Least(nearest)]

SuggestInit == typed \in Words(MaxWord) /\ suggestion = NotYet

\* Only a word that is no command gets here.
Unknown ==
  /\ suggestion = NotYet
  /\ \A i \in DOMAIN Known : typed # Known[i]
  /\ suggestion' = SuggestCommand(typed)
  /\ UNCHANGED typed

SuggestSpec == SuggestInit /\ [][Unknown]_<<typed, suggestion>>

-----------------------------------------------------------------------------
\* The words one edit away from w: a letter dropped, changed or put in.
Edited(w) ==
  LET before(k) == SubSeq(w, 1, k)
      after(k) == SubSeq(w, k + 1, Len(w))
  IN  {before(k - 1) \o after(k) : k \in 1 .. Len(w)}
        \cup {before(k - 1) \o <<l>> \o after(k) : k \in 1 .. Len(w), l \in Letters}
        \cup {before(k) \o <<l>> \o after(k) : k \in 0 .. Len(w), l \in Letters}

Ball(w, n) ==
  CASE n = 0 -> {w}
    [] n = 1 -> {w} \cup Edited(w)
    [] OTHER -> {w} \cup UNION {Edited(v) : v \in {w} \cup Edited(w)}

\* The suggestion is a known command that the word begins, or if there is none,
\* one that the fewest single edits, two at most, make of the word; and there
\* is one whenever some command is that near (commands.rs:241-280).
SuggestsNearest ==
  suggestion # NotYet =>
    LET known == {Known[i] : i \in DOMAIN Known}
        begun == {c \in known : Begins(typed, c)}
        near(n) == known \cap Ball(typed, n)
    IN  suggestion \in
          IF begun # {} THEN begun
          ELSE IF near(1) # {} THEN near(1)
          ELSE IF near(2) # {} THEN near(2) ELSE {NoWord}
=============================================================================
