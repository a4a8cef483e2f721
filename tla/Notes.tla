-------------------------------- MODULE Notes --------------------------------
(***************************************************************************)
(* The recognition of account data in free text                            *)
(* (vault_store/src/import_parse.rs, import.rs): a text is cut into blocks,*)
(* a block is one candidate for an account, and what stands after a label  *)
(* is the value of the label's field.                                      *)
(*                                                                         *)
(* A text is a sequence of lines, a line a sequence of tokens.  A token is *)
(* a word of a value, a mark, a blank, or a piece of a label: what matters *)
(* of the labels is which is part of which.  Upper and lower case, and the *)
(* other marks that the code treats like these, are left out.              *)
(***************************************************************************)
EXTENDS Naturals, Sequences, FiniteSetsExt

\* The labels, in the order in which they are tried: by SCAN_ORDER, and within
\* a field as in labels().  Bound: of the synonyms that share no piece with
\* other labels, one for each field.
Labels == <<
  [field |-> "app",                text |-> <<"platform", "name">>],
  [field |-> "app",                text |-> <<"site", "name">>],
  [field |-> "app",                text |-> <<"platform">>],
  [field |-> "app",                text |-> <<"name">>],
  [field |-> "payment_password",   text |-> <<"payment", "password">>],
  [field |-> "secondary_password", text |-> <<"second", "password">>],
  [field |-> "api_key",            text |-> <<"key">>],
  [field |-> "username",           text |-> <<"login", "account">>],
  [field |-> "username",           text |-> <<"account">>],
  [field |-> "login_password",     text |-> <<"login", "password">>],
  [field |-> "login_password",     text |-> <<"password">>],
  [field |-> "url",                text |-> <<"site">>],
  [field |-> "notes",              text |-> <<"remark">>] >>

Slots == {Labels[k].field : k \in DOMAIN Labels}
Passwords == {"login_password", "secondary_password", "payment_password", "api_key"}

Blank == {" "}
Rules == {"-", "#"}         \* of which a separating line is made
Marks == {",", "-"}         \* that may surround a value

\* s without the tokens of set at both ends.
Trim(s, set) ==
  LET kept == {i \in DOMAIN s : s[i] \notin set}
  IN  IF kept = {} THEN <<>> ELSE SubSeq(s, Min(kept), Max(kept))

-----------------------------------------------------------------------------
(* Blocks.                                                                 *)

Separates(line) == line = <<>> \/ Head(line) = "#" \/ \A i \in DOMAIN line : line[i] \in Rules

\* The runs of lines between separating lines.
SplitBlocks(text) ==
  LET lines == [i \in DOMAIN text |-> Trim(text[i], Blank)]
      run[i \in 0 .. Len(lines)] ==   \* the block that line i is the last of
        IF i = 0 \/ Separates(lines[i]) THEN <<>> ELSE Append(run[i - 1], lines[i])
      Ends(i) == run[i] # <<>> /\ (i < Len(lines) => run[i + 1] = <<>>)
  IN  SelectSeq([i \in DOMAIN lines |-> IF Ends(i) THEN run[i] ELSE <<>>],
                LAMBDA b : b # <<>>)

-----------------------------------------------------------------------------
(* Labels and values in a line.                                            *)

\* Where label first stands in line from pos on; 0 if it does not.
Find(line, pos, label) ==
  LET at == {i \in pos .. Len(line) :
               SubSeq(line, i, Min({i + Len(label) - 1, Len(line)})) = label}
  IN  IF at = {} THEN 0 ELSE Min(at)

\* Where the value after a label that ends before i begins: after a colon, or
\* after a blank; otherwise it is no label, and this is 0.
ValueStart(line, i) ==
  LET j == Min({k \in i .. Len(line) : line[k] \notin Blank} \cup {Len(line) + 1})
  IN  IF j > Len(line) \/ (j = i /\ line[j] # ":") THEN 0
      ELSE IF line[j] = ":" THEN j + 1 ELSE j

\* Label k, if it stands at a place and a value follows it there.
Hit(line, k, at) ==
  [at |-> at, rank |-> k, field |-> Labels[k].field,
   from |-> IF at = 0 THEN 0 ELSE ValueStart(line, at + Len(Labels[k].text))]

\* For each label, its first place from pos on, if a value follows it there.
Found(line, pos) ==
  {h \in {Hit(line, k, Find(line, pos, Labels[k].text)) : k \in DOMAIN Labels} :
     h.from # 0}

\* The leftmost label; of several there the one tried first.
Leftmost(found) ==
  CHOOSE h \in found : \A g \in found :
    h.at < g.at \/ (h.at = g.at /\ h.rank <= g.rank)

\* Mutant of Hits: the search goes on inside the label, where another may stand.
HitsInside(line) ==
  LET hits[pos \in 1 .. Len(line) + 1] ==
        IF Found(line, pos) = {} THEN <<>>
        ELSE LET After(h) == <<h>> \o hits[h.at + 1]
             IN  After(Leftmost(Found(line, pos)))
  IN  hits[1]

\* The leftmost label of the line; then the leftmost from the beginning of its
\* value on; and so forth.
Hits(line) ==
  LET hits[pos \in 1 .. Len(line) + 1] ==
        IF Found(line, pos) = {} THEN <<>>
        ELSE LET After(h) == <<h>> \o hits[h.from]
             IN  After(Leftmost(Found(line, pos)))
  IN  hits[1]

\* The value of each label goes on to the next one.
ValuesOf(line, hits) ==
  LET End(i) == IF i < Len(hits) THEN hits[i + 1].at - 1 ELSE Len(line)
      Value(i) == Trim(Trim(Trim(SubSeq(line, hits[i].from, End(i)),
                                 Blank), Marks), Blank)
  IN  SelectSeq([i \in DOMAIN hits |-> [field |-> hits[i].field, value |-> Value(i)]],
                LAMBDA p : p.value # <<>>)
Pairs(line) == ValuesOf(line, Hits(line))

\* What stands before the first label.
Before(line, hits) ==
  Trim(IF hits = <<>> THEN line ELSE SubSeq(line, 1, hits[1].at - 1), Blank)
Prefix(line) == Before(line, Hits(line))

\* The name in brackets, or <<>>.
Between(line, open, close) ==
  IF open # 0 /\ close > open + 1
    THEN Trim(SubSeq(line, open + 1, close - 1), Blank) ELSE <<>>
Bracketed(line) == Between(line, Find(line, 1, <<"[">>), Find(line, 1, <<"]">>))

-----------------------------------------------------------------------------
(* Candidates.                                                             *)

\* A name in brackets is said before the pairs of its line.
Said(line) ==
  (IF Bracketed(line) = <<>> THEN <<>>
   ELSE <<[field |-> "app", value |-> Bracketed(line)]>>) \o Pairs(line)

\* The first value of a field is kept.
FirstSaid(said, field) ==
  LET at == {i \in DOMAIN said : said[i].field = field}
  IN  IF at = {} THEN <<>> ELSE said[Min(at)].value

HasPassword(cand) == \E f \in Passwords : cand[f] # <<>>

\* The host of an address.
Host(url) ==
  LET scheme == Find(url, 1, <<"://">>)
      rest == SubSeq(url, scheme + 1, Len(url))
      slash == Find(rest, 1, <<"/">>)
  IN  IF slash = 0 THEN rest ELSE SubSeq(rest, 1, slash - 1)

\* A block without a name is named by its first text without a label, or else by
\* the host of its address; one without a password is guessed to have the name
\* of the user next, and then the password.
Complete(read, plain) ==
  LET named == IF read["app"] # <<>> THEN read
               ELSE [read EXCEPT !["app"] = IF plain # <<>> THEN Head(plain)
                                            ELSE Host(read["url"])]
      rest == IF read["app"] = <<>> /\ plain # <<>> THEN Tail(plain) ELSE plain
  IN  IF HasPassword(read) \/ rest = <<>> THEN named
      ELSE [named EXCEPT !["username"] = rest[1],
                         !["login_password"] = IF Len(rest) > 1 THEN rest[2] ELSE <<>>]

ParseBlock(block) ==
  LET said[i \in 0 .. Len(block)] == IF i = 0 THEN <<>> ELSE said[i - 1] \o Said(block[i])
      Plain(line) == IF Bracketed(line) = <<>> THEN Prefix(line) ELSE <<>>
  IN  Complete([f \in Slots |-> FirstSaid(said[Len(block)], f)],
               SelectSeq([i \in DOMAIN block |-> Plain(block[i])],
                         LAMBDA p : p # <<>>))

\* A block with nothing but an address is dropped.
ParseNotes(text) ==
  LET blocks == SplitBlocks(text)
      Tells(cand) == HasPassword(cand)
                     \/ \E f \in {"app", "username", "notes"} : cand[f] # <<>>
  IN  SelectSeq([i \in DOMAIN blocks |-> ParseBlock(blocks[i])], Tells)

=============================================================================
