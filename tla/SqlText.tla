------------------------------ MODULE SqlText ------------------------------
(***************************************************************************)
(* The store's handling of SQL text (db.py): the scanner that tells code   *)
(* from literals, quoted names and comments, the splitting of a script     *)
(* into statements that builds on it, and the rewriting of the `?`         *)
(* placeholders for the drivers.                                           *)
(*                                                                         *)
(* The variable is the text, which grows by one character at a time, so    *)
(* that TLC meets every text of at most MaxLen characters.  A character    *)
(* stands for its class: "s" for any that has no meaning of its own, which *)
(* is a letter because of `%s`; whitespace is the newline.                 *)
(***************************************************************************)
EXTENDS Integers, Sequences, FiniteSets, SequencesExt

CONSTANTS
    StringQuotes,   \* the quotes of strings, ' and "
    NameQuotes,     \* the quote of names, the backtick
    MaxLen          \* bound: characters of a text

Quotes == StringQuotes \cup NameQuotes
Others == {"\\", "-", "/", "*", "\n", ";", "?", "%", "s"}
Chars == Quotes \cup Others
NoQuote == "none"

ASSUME SqlTextAssumption ==
    /\ StringQuotes \cap NameQuotes = {} /\ Quotes \cap Others = {}
    /\ NoQuote \notin Quotes
    /\ MaxLen \in Nat

VARIABLE text

TextInit == text = <<>>

Append1(c) ==
    /\ Len(text) < MaxLen
    /\ text' = Append(text, c)

TextNext == \E c \in Chars : Append1(c)

TextSpec == TextInit /\ [][TextNext]_text

\* Texts are sequences of characters, within the bound.
TextTypeOK == text \in Seq(Chars) /\ Len(text) <= MaxLen

-----------------------------------------------------------------------------
(* _scan_sql.  A piece is the characters from `first` to `last`, and the   *)
(* quote the scanner is in after it.                                       *)
Piece(first, last, code, quote) ==
    [first |-> first, last |-> last, code |-> code, quote |-> quote]

\* Where a literal or a comment is not terminated: ValueError.
Unterminated == Piece(0, 0, FALSE, NoQuote)

Smallest(S) == CHOOSE n \in S : \A m \in S : n <= m

Has(s, i, c) == i <= Len(s) /\ s[i] = c

\* MySQL escapes in strings, not in quoted names.
Escapes(s, esc, i, q) == esc /\ s[i] = "\\" /\ q \in StringQuotes /\ i < Len(s)

Quoted(s, esc, i, q) ==
    IF Escapes(s, esc, i, q) \/ (s[i] = q /\ Has(s, i + 1, q))
    THEN Piece(i, i + 1, FALSE, q)
    ELSE Piece(i, i, FALSE, IF s[i] = q THEN NoQuote ELSE q)

\* A line comment ends before its newline.
LineComment(s, i) ==
    LET ends == {j \in i..Len(s) : s[j] = "\n"} \cup {Len(s) + 1}
    IN  Piece(i, Smallest(ends) - 1, FALSE, NoQuote)

\* Seeded fault: the search for the end takes in the star of the beginning.
BlockCommentFromStar(s, i) ==
    LET ends == {j \in (i + 2)..Len(s) : s[j - 1] = "*" /\ s[j] = "/"}
    IN  IF ends = {} THEN Unterminated ELSE Piece(i, Smallest(ends), FALSE, NoQuote)

BlockComment(s, i) ==
    LET ends == {j \in (i + 3)..Len(s) : s[j - 1] = "*" /\ s[j] = "/"}
    IN  IF ends = {} THEN Unterminated ELSE Piece(i, Smallest(ends), FALSE, NoQuote)

Unquoted(s, i) ==
    CASE s[i] \in Quotes -> Piece(i, i, FALSE, s[i])
      [] s[i] = "-" /\ Has(s, i + 1, "-") -> LineComment(s, i)
      [] s[i] = "/" /\ Has(s, i + 1, "*") -> BlockComment(s, i)
      [] OTHER -> Piece(i, i, TRUE, NoQuote)

\* What the generator yields after p, and when there is nothing more of it.
AfterPiece(s, esc, p) ==
    IF p.last = Len(s) THEN Unterminated
    ELSE IF p.quote = NoQuote THEN Unquoted(s, p.last + 1)
                              ELSE Quoted(s, esc, p.last + 1, p.quote)
Ended(s, p) == p = Unterminated \/ (p.last = Len(s) /\ p.quote = NoQuote)

\* Before the first character.
Beginning == Piece(1, 0, FALSE, NoQuote)

\* Turn after turn of the loop.
Yields(s, esc) ==
    LET yield[k \in 0..(Len(s) + 1)] ==
            IF k = 0 THEN Beginning
            ELSE LET p == yield[k - 1]
                 IN  IF Ended(s, p) THEN p ELSE AfterPiece(s, esc, p)
    IN  yield

\* The pieces of s; the last is Unterminated if the scan fails.
Scan(s, esc) ==
    LET yield == Yields(s, esc)
        turns == Smallest({k \in 0..(Len(s) + 1) : Ended(s, yield[k])})
    IN  [k \in 1..turns |-> yield[k]]

Scans(s, esc) == Unterminated \notin ToSet(Scan(s, esc))

\* The positions callers may look at.
Code(s, esc) == {p.first : p \in {x \in ToSet(Scan(s, esc)) : x.code}}

CodeCount(s, esc, c) == Cardinality({i \in Code(s, esc) : s[i] = c})

-----------------------------------------------------------------------------
(* _split_statements, for text that scans.                                 *)

\* Seeded fault: every semicolon separates.
CutsAnywhere(s, esc) == {i \in DOMAIN s : s[i] = ";"}

Cuts(s, esc) == {i \in Code(s, esc) : s[i] = ";"}

\* What strip() and the test for blank parts look at: the characters other
\* than whitespace of the part that ends before e, a cut or the end of s.
Inked(s, cuts, e) ==
    {i \in DOMAIN s : i < e /\ s[i] # "\n" /\ \A c \in cuts : c < i \/ c >= e}

Greatest(S) == CHOOSE n \in S : \A m \in S : m <= n
Statement(s, inked) ==
    LET at == Smallest(inked)
    IN  [at |-> at, text |-> SubSeq(s, at, Greatest(inked))]

\* The statements, by where their parts end, which is the order of the list,
\* with where they begin.
Split(s, esc) ==
    LET cuts == Cuts(s, esc)
        ends == {e \in cuts \cup {Len(s) + 1} : Inked(s, cuts, e) # {}}
    IN  [e \in ends |-> Statement(s, Inked(s, cuts, e))]

\* One tuple of parameters is for one statement: otherwise ValueError.
Refused(s, esc, params) == params > 0 /\ Cardinality(DOMAIN Split(s, esc)) > 1

-----------------------------------------------------------------------------
(* _pg and, where there are parameters, _mysql_prepare.  What they put for *)
(* a placeholder is one symbol of the rewritten text.                      *)
Numbered(k) == <<"$", k>>

Pg(s) ==
    [i \in DOMAIN s |->
        IF i \in Code(s, FALSE) /\ s[i] = "?"
        THEN Numbered(Cardinality({j \in Code(s, FALSE) : j <= i /\ s[j] = "?"}))
        ELSE s[i]]

Replace(s, c, with) ==
    LET done[i \in 0..Len(s)] ==
            IF i = 0 THEN <<>>
            ELSE done[i - 1] \o (IF s[i] = c THEN with ELSE <<s[i]>>)
    IN  done[Len(s)]

\* Seeded fault: the placeholders first, and then every percent sign.
PreparePlaceholdersFirst(s) == Replace(Replace(s, "?", <<"%", "s">>), "%", <<"%", "%">>)

MysqlPrepare(s) == Replace(Replace(s, "%", <<"%", "%">>), "?", <<"%", "s">>)

\* The driver's `query % args`: `%%` is a percent sign, `%s` the next argument.
Argument(k) == <<"argument", k>>
Bad == <<"format error">>

\* One turn: where the driver reads on, the argument that is next, and what
\* there is of the statement.
Reading(at, next, out) == [at |-> at, next |-> next, out |-> out]
Formatted(s, t) ==
    CASE t.at > Len(s) -> t
      [] t.at <= Len(s) /\ s[t.at] # "%" ->
            Reading(t.at + 1, t.next, Append(t.out, s[t.at]))
      [] Has(s, t.at, "%") /\ Has(s, t.at + 1, "%") ->
            Reading(t.at + 2, t.next, Append(t.out, "%"))
      [] Has(s, t.at, "%") /\ Has(s, t.at + 1, "s") ->
            Reading(t.at + 2, t.next + 1, Append(t.out, Argument(t.next)))
      [] OTHER -> Reading(Len(s) + 1, t.next, Append(t.out, Bad))

Interpolate(s) ==
    LET turn[k \in 0..Len(s)] ==
            IF k = 0 THEN Reading(1, 1, <<>>) ELSE Formatted(s, turn[k - 1])
    IN  turn[Len(s)].out

-----------------------------------------------------------------------------
(* A lexer as the SQL standard, or MySQL, describes it, one character at a *)
(* time and without looking ahead, as the reference.                       *)
AfterCode(c) ==
    CASE c \in Quotes -> <<"in", c>>
      [] c = "-" -> <<"dash">>
      [] c = "/" -> <<"slash">>
      [] OTHER -> <<"code">>

After(mode, c, esc) ==
    CASE mode[1] = "in" ->
            IF c = mode[2] THEN <<"seen", c>>
            ELSE IF esc /\ c = "\\" /\ mode[2] \in StringQuotes THEN <<"escape", mode[2]>> ELSE mode
      [] mode[1] = "escape" -> <<"in", mode[2]>>
      [] mode[1] = "seen" -> IF c = mode[2] THEN <<"in", c>> ELSE AfterCode(c)
      [] mode = <<"dash">> -> IF c = "-" THEN <<"line">> ELSE AfterCode(c)
      [] mode = <<"slash">> -> IF c = "*" THEN <<"block">> ELSE AfterCode(c)
      [] mode = <<"line">> -> IF c = "\n" THEN <<"code">> ELSE mode
      [] mode = <<"block">> -> IF c = "*" THEN <<"star">> ELSE mode
      [] mode = <<"star">> ->
            CASE c = "/" -> <<"closed">> [] c = "*" -> mode [] OTHER -> <<"block">>
      [] OTHER -> AfterCode(c)

\* The modes after none, one, two... characters.
Modes(s, esc) ==
    LET mode[i \in 0..Len(s)] ==
            IF i = 0 THEN <<"code">> ELSE After(mode[i - 1], s[i], esc)
    IN  mode

\* A dash or a slash is code unless the next character makes it a comment.
LexedCode(s, esc) ==
    LET mode == Modes(s, esc) IN
    {i \in DOMAIN s :
        \/ mode[i] = <<"code">>
        \/ mode[i] = <<"dash">> /\ (i = Len(s) \/ mode[i + 1] # <<"line">>)
        \/ mode[i] = <<"slash">> /\ (i = Len(s) \/ mode[i + 1] # <<"block">>)}

Lexes(s, esc) == Modes(s, esc)[Len(s)][1] \notin {"in", "escape", "block", "star"}

-----------------------------------------------------------------------------
\* The pieces lie end to end and make up the text.
Tiles(pieces, s) ==
    /\ \A k \in DOMAIN pieces :
           /\ pieces[k].first = (IF k = 1 THEN 1 ELSE pieces[k - 1].last + 1)
           /\ pieces[k].first <= pieces[k].last
    /\ (IF pieces = <<>> THEN 0 ELSE Last(pieces).last) = Len(s)

(* db.py 89-104: a text is refused exactly if a literal or a comment in it *)
(* is not terminated, and otherwise the pieces make up the text and what   *)
(* they call code is code, in the dialect of either kind of server.        *)
ScanMatchesLexer ==
    \A esc \in BOOLEAN :
        /\ Scans(text, esc) <=> Lexes(text, esc)
        /\ Scans(text, esc) =>
              /\ Code(text, esc) = LexedCode(text, esc)
              /\ Tiles(Scan(text, esc), text)

\* Where the j-th character of a statement was, and whether it has the i-th.
Place(st, j) == (st.at + j) - 1
Holds(st, i) == \E j \in DOMAIN st.text : Place(st, j) = i

\* A statement is terminated, does not separate again, and has its code where
\* the text has it.
StandsAlone(s, esc, st) ==
    /\ Scans(st.text, esc) /\ Cuts(st.text, esc) = {}
    /\ Code(st.text, esc) = {j \in DOMAIN st.text : Place(st, j) \in Code(s, esc)}

\* Nothing but cuts and whitespace is lost between the statements.
NothingIsLost(s, esc) ==
    \A i \in DOMAIN s \ Cuts(s, esc) : s[i] # "\n" =>
        \E e \in DOMAIN Split(s, esc) : Holds(Split(s, esc)[e], i)

\* A text with placeholders that is accepted with parameters is one statement,
\* with all of them.
KeepsPlaceholders(s, esc) ==
    ~Refused(s, esc, 1) /\ CodeCount(s, esc, "?") > 0 =>
        \E e \in DOMAIN Split(s, esc) :
            /\ DOMAIN Split(s, esc) = {e}
            /\ CodeCount(Split(s, esc)[e].text, esc, "?") = CodeCount(s, esc, "?")

(* db.py 1065-1085: the statements of a script, sent one by one, are read  *)
(* as they were in the script, nothing of it is lost between them, and one *)
(* that is accepted with parameters keeps all its placeholders.            *)
PiecesStandAlone ==
    \A esc \in BOOLEAN : Scans(text, esc) =>
        /\ \A e \in DOMAIN Split(text, esc) : StandsAlone(text, esc, Split(text, esc)[e])
        /\ NothingIsLost(text, esc)
        /\ KeepsPlaceholders(text, esc)

(* db.py 1043-1063: the text MySQL gets is the one Postgres gets, with the *)
(* arguments in the same places and every other character, percent signs   *)
(* included, as it was.  Only of texts whose every `?` is a placeholder:   *)
(* _mysql_prepare also replaces one in a literal, a name or a comment.     *)
DriversBindAlike ==
    /\ Scans(text, FALSE)
    /\ \A i \in DOMAIN text : text[i] = "?" => i \in Code(text, FALSE)
    => Interpolate(MysqlPrepare(text)) =
          [i \in DOMAIN text |->
              IF text[i] # "?" THEN text[i]
              ELSE Argument(Pg(text)[i][2])]
=============================================================================
