--------------------------- MODULE StoredDocuments ---------------------------
(* What else a script does to the document of Documents: it passes it to the  *)
(* functions on texts, and writes it to a text file and reads it back.        *)
EXTENDS Documents, DataFormats, Texts

\* d = f(d, x, t): the functions on texts, what they find and what they make.
Search(x) ==
  TypeOf(doc) = "string" /\
    \/ \E n \in {indexof(doc[2], x), count(doc[2], x), Len(doc[2])} : Gives(Int_(n))
    \/ \E b \in {has(doc[2], x), starts(doc[2], x), ends(doc[2], x)} : Gives(Bool(b))
Separate(x) ==
  TypeOf(doc) = "string" /\
    \E s \in {cut_after(doc[2], x), cut_after_last(doc[2], x), cut_before(doc[2], x),
              cut_before_last(doc[2], x), cutAfterbytes(doc[2], x), cutAfterLastbytes(doc[2], x),
              cutBeforebytes(doc[2], x), cutBeforeLastbytes(doc[2], x)} : Gives(Str(s))
Ends_(n) ==
  TypeOf(doc) = "string" /\
    \E r \in {head(doc[2], n), tail(doc[2], n), cutHead(doc[2], n), cutTail(doc[2], n)} : Gives(r)
Substitute(x, t) ==
  TypeOf(doc) = "string" /\ \E s \in {replace(doc[2], x, t), replacebytes(doc[2], x, t)} : Gives(Str(s))
Tidy ==
  TypeOf(doc) = "string" /\
    \E s \in {do_trim(doc[2], TRUE, TRUE), do_trim(doc[2], TRUE, FALSE), do_trim(doc[2], FALSE, TRUE),
              trimcenter(doc[2]), delspaces(doc[2]), Reverse(doc[2])} : Gives(Str(s))
Join(x) == TypeOf(doc) = "list" /\ Gives(join(doc[2], x))

\* tofile(d, f) and d = fromfile(f)
Reload ==
  LET text == value_to_text(doc) IN text # Err /\ Gives(text_to_value(text))

Needles == {<<>>} \union {v[2] : v \in {w \in Operands : TypeOf(w) = "string"}}

StoredNext ==
  \/ DocNext
  \/ \E x \in Needles : Search(x) \/ Separate(x) \/ Join(x)
  \/ \E n \in -1..MaxSize : Ends_(n)
  \/ \E x, t \in Needles : Substitute(x, t)
  \/ Tidy
  \/ Reload

StoredSpec == DocInit /\ [][StoredNext]_doc

----------------------------------------------------------------------------
(* Properties.                                                                *)

Pieces(s) == {SubSeq(s, i, j) : i, j \in 1..Len(s)} \union {<<a, b>> : a, b \in {s[i] : i \in DOMAIN s}}

\* What text keeps of a value: a whole float comes back as an int if it fits.
RECURSIVE Settled(_)
Settled(v) ==
  CASE Integral(v) /\ Fits(v[2]) -> Int_(v[2])
    [] TypeOf(v) = "list" -> List([i \in DOMAIN v[2] |-> Settled(v[2][i])])
    [] TypeOf(v) = "map" ->
         MapOf([i \in DOMAIN v[2] |->
           LET x == Settled(v[2][i].value) IN Pair(v[2][i].key, x, TokenType(x))])
    [] OTHER -> v

\* A copy of a document is the same document (value.c). Its text (database.c) is
\* refused where its bytes are, and reads back as far as half the depth that can
\* be written.
TextReadsBack ==
  LET text == value_to_text(doc) IN
  /\ copy_value_secure(doc) = doc
  /\ (text = Err) = (serialize_value_binary(doc) = Err)
  /\ text # Err =>
       text_to_value(text) = IF 2 * Nesting(doc) <= MaxDepth THEN Settled(doc) ELSE Err

\* A document and its text say the same, and the library on texts (string.c, cut.c,
\* bytes.c) does wherever two of its functions say it: the two parts of a text at
\* a character are the text; a text is found, counted, cut at and replaced at the
\* same places, by characters and by bytes, from the front and in the mirror from
\* the back; trimming touches blanks only.
TextsAgree ==
  /\ TextReadsBack
  /\ TypeOf(doc) = "string" =>
       LET s == doc[2]
           found(x) == has(s, x)
       IN /\ \A n \in 0..MaxSize + 1 : /\ head(s, n)[2] \o cutHead(s, n)[2] = s
                                      /\ cutTail(s, n)[2] \o tail(s, n)[2] = s
          /\ \A x \in Pieces(s) :
               /\ found(x) = (indexof(s, x) > 0) /\ found(x) = (count(s, x) > 0 \/ x = <<>>)
               /\ starts(s, x) = (head(s, Len(x)) = Str(x))
               /\ ends(s, x) = (tail(s, Len(x)) = Str(x))
               /\ x # <<>> =>
                    /\ cut_after(s, x) = cutAfterbytes(s, x) /\ cut_before(s, x) = cutBeforebytes(s, x)
                    /\ cut_after_last(s, x) = cutAfterLastbytes(s, x)
                    /\ cut_before_last(s, x) = cutBeforeLastbytes(s, x)
                    /\ found(x) =>
                         /\ ends(cut_after(s, x), x) /\ count(cut_after(s, x), x) = 1
                         /\ Reverse(cut_after(s, x)) = cut_before_last(Reverse(s), Reverse(x))
                         /\ Reverse(cut_before(s, x)) = cut_after_last(Reverse(s), Reverse(x))
               /\ \A t \in Pieces(s) \union {<<>>} :
                    LET r == replace(s, x, t) IN
                    /\ r = replacebytes(s, x, t)
                    /\ Len(r) = Len(s) + count(s, x) * (Len(t) - Len(x))
          /\ LET whole == do_trim(s, TRUE, TRUE)
                 once == trimcenter(whole)
             IN /\ do_trim(do_trim(s, FALSE, TRUE), TRUE, FALSE) = whole
                /\ do_trim(trimcenter(s), TRUE, TRUE) = once
                /\ ~has(once, <<" ", " ">>)
                /\ delspaces(once) = delspaces(s)
=============================================================================
