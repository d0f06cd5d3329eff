------------------------------- MODULE Texts --------------------------------
(* The library functions on texts (stdlib/string.c, cut.c, bytes.c,           *)
(* neutral.c).  A text is a sequence of characters, well-formed UTF-8: the    *)
(* functions of bytes.c are those that cannot split a character, found by     *)
(* strstr where the others compare characters.  Letters' case and the         *)
(* listings of bytes are left out.                                            *)
EXTENDS Values

Occurs(x, s, i) == i + Len(x) - 1 <= Len(s) /\ SubSeq(s, i, i + Len(x) - 1) = x

\* Where a text is found, 0 where it is not; an empty one at either end.
Found(x, s) == {i \in DOMAIN s : Occurs(x, s, i)}
utf8_find_first(s, x) ==
  IF x = <<>> THEN 1 ELSE IF Found(x, s) = {} THEN 0 ELSE Min(Found(x, s))
\* Mutant: the last one is looked for from the start.
utf8_find_last_first(s, x) ==
  IF x = <<>> THEN Len(s) + 1 ELSE IF Found(x, s) = {} THEN 0 ELSE Min(Found(x, s))

utf8_find_last(s, x) ==
  IF x = <<>> THEN Len(s) + 1 ELSE IF Found(x, s) = {} THEN 0 ELSE Max(Found(x, s))

indexof(s, x) == utf8_find_first(s, x)
has(s, x) == x = <<>> \/ Found(x, s) # {}
starts(s, x) == Occurs(x, s, 1)
ends(s, x) == Len(s) >= Len(x) /\ Occurs(x, s, Len(s) - Len(x) + 1)

\* What follows the next x.
AfterNext(s, x) == SubSeq(s, Min(Found(x, s)) + Len(x), Len(s))

RECURSIVE count(_, _)
count(s, x) == IF x = <<>> \/ Found(x, s) = {} THEN 0 ELSE 1 + count(AfterNext(s, x), x)

----------------------------------------------------------------------------
(* Cutting.                                                                   *)

cut_at(s, p, whole, piece) == IF p = 0 THEN whole ELSE piece
cut_after(s, x) ==
  LET p == utf8_find_first(s, x) IN cut_at(s, p, s, SubSeq(s, 1, p + Len(x) - 1))
cut_after_last(s, x) ==
  LET p == utf8_find_last(s, x) IN cut_at(s, p, s, SubSeq(s, 1, p + Len(x) - 1))
cut_before(s, x) ==
  LET p == utf8_find_first(s, x) IN cut_at(s, p, <<>>, SubSeq(s, p, Len(s)))
cut_before_last(s, x) ==
  LET p == utf8_find_last(s, x) IN cut_at(s, p, <<>>, SubSeq(s, p, Len(s)))

\* The last one by strstr, again and again from the character after the last.
RECURSIVE LastBytes(_, _, _)
LastBytes(s, x, from) ==
  LET later == {i \in Found(x, s) : i >= from} IN
  IF later = {} THEN from - 1 ELSE LastBytes(s, x, Min(later) + 1)

\* By bytes, an empty separator cuts nothing.
cutAfterbytes(s, x) ==
  IF x = <<>> \/ Found(x, s) = {} THEN s ELSE SubSeq(s, 1, Min(Found(x, s)) + Len(x) - 1)
cutAfterLastbytes(s, x) ==
  IF x = <<>> \/ Found(x, s) = {} THEN s ELSE SubSeq(s, 1, LastBytes(s, x, 1) + Len(x) - 1)
cutBeforebytes(s, x) ==
  IF x = <<>> THEN s ELSE IF Found(x, s) = {} THEN <<>> ELSE SubSeq(s, Min(Found(x, s)), Len(s))
cutBeforeLastbytes(s, x) ==
  IF x = <<>> THEN s ELSE IF Found(x, s) = {} THEN <<>> ELSE SubSeq(s, LastBytes(s, x, 1), Len(s))

\* head and tail take no character where cutHead and cutTail refuse.
head(s, n) == Str(SubSeq(s, 1, Lesser(Greater(n, 0), Len(s))))
tail(s, n) == Str(SubSeq(s, Len(s) - Lesser(Greater(n, 0), Len(s)) + 1, Len(s)))
cutHead(s, n) == IF n < 0 THEN Err ELSE Str(SubSeq(s, n + 1, Len(s)))
cutTail(s, n) == IF n < 0 THEN Err ELSE Str(SubSeq(s, 1, Len(s) - n))

----------------------------------------------------------------------------
(* Replacing, joining, blanks.                                                *)

\* Mutant: the search goes on inside what it found.
replace_pos_overlapping(s, x) == SetToSortSeq(Found(x, s), <)

RECURSIVE Positions_(_, _, _)
Positions_(s, x, i) ==
  IF i + Len(x) - 1 > Len(s) THEN <<>>
  ELSE IF Occurs(x, s, i) THEN <<i>> \o Positions_(s, x, i + Len(x)) ELSE Positions_(s, x, i + 1)
replace_pos(s, x) == Positions_(s, x, 1)

\* replace(): the places first, then the text between them.
replace(s, x, t) ==
  IF x = <<>> THEN s
  ELSE LET done == FoldLeft(LAMBDA d, i : [out |-> d.out \o SubSeq(s, d.at, i - 1) \o t,
                                           at |-> i + Len(x)],
                            [out |-> <<>>, at |-> 1], replace_pos(s, x))
       IN done.out \o SubSeq(s, done.at, Len(s))

\* replacebytes(): piece by piece.
RECURSIVE replacebytes(_, _, _)
replacebytes(s, x, t) ==
  IF x = <<>> \/ Found(x, s) = {} THEN s
  ELSE SubSeq(s, 1, Min(Found(x, s)) - 1) \o t \o replacebytes(AfterNext(s, x), x, t)

join(items, sep) ==
  IF \E i \in DOMAIN items : TypeOf(items[i]) # "string" THEN Err
  ELSE Str(FlattenSeq([i \in DOMAIN items |->
             items[i][2] \o (IF i < Len(items) THEN sep ELSE <<>>)]))

IsSpace(c) == c \in {" ", "\t", "\n"}
Ink(s) == {i \in DOMAIN s : ~IsSpace(s[i])}

do_trim(s, left, right) ==
  IF Ink(s) = {} THEN <<>>
  ELSE SubSeq(s, IF left THEN Min(Ink(s)) ELSE 1, IF right THEN Max(Ink(s)) ELSE Len(s))

\* Blanks between words become one; those at the ends stay.
trimcenter(s) ==
  LET inside(i) == Ink(s) # {} /\ i > Min(Ink(s)) /\ i < Max(Ink(s))
      kept == SelectSeq([i \in DOMAIN s |-> i],
                        LAMBDA i : ~(inside(i) /\ IsSpace(s[i]) /\ IsSpace(s[i - 1])))
  IN [k \in DOMAIN kept |->
        IF inside(kept[k]) /\ IsSpace(s[kept[k]]) THEN " " ELSE s[kept[k]]]

delspaces(s) == SelectSeq(s, LAMBDA c : ~IsSpace(c))
=============================================================================
