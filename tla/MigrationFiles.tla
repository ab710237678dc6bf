--------------------------- MODULE MigrationFiles ---------------------------
(***************************************************************************)
(* splitSQL, which cuts a migration file into the statements Migrations    *)
(* executes, checked against a definition of the cuts over every text up   *)
(* to a bound. A behaviour either writes a text or migrates.               *)
(***************************************************************************)
EXTENDS Migrations, Sequences

CONSTANT Texts  \* pairs: an alphabet of lexemes and a bound on the length

VARIABLES
    text,      \* a migration file, as a sequence of lexemes
    texts      \* the member of Texts it is written with

filesVars == <<migrateVars, text, texts>>

(***************************************************************************)
(* splitSQL. "t" is a character of a tag; the markers of comments are one  *)
(* lexeme each, and " " and "nl" are white space.                          *)
(***************************************************************************)
Blank(c) == c \in {" ", "nl"}

\* strings.TrimSpace
Trim(s) ==
    LET ink == {i \in DOMAIN s : ~Blank(s[i])} IN
    IF ink = {} THEN <<>>
    ELSE SubSeq(s, CHOOSE i \in ink : \A j \in ink : i <= j,
                   CHOOSE i \in ink : \A j \in ink : j <= i)

\* Where s[i..] first holds one of cs, Len(s) + 1 if nowhere.
IndexOf(s, i, cs) ==
    LET at == {j \in i..Len(s) : s[j] \in cs} IN
    IF at = {} THEN Len(s) + 1 ELSE CHOOSE j \in at : \A k \in at : j <= k

Lesser(a, b) == IF a < b THEN a ELSE b

\* The $ that ends the tag which the $ at i starts, 0 if none does.
TagEnd(s, i) ==
    LET j == IndexOf(s, i + 1, {";", "'", "dq", "--", "/*", "*/", " ", "nl", "$"}) IN
    IF j <= Len(s) /\ s[j] = "$" THEN j ELSE 0

\* After the closing tag, Len(s) + 1 if there is none (strings.Index).
AfterTagAny(s, i, end) == Lesser(IndexOf(s, end + 1, {"$"}) + 1, Len(s) + 1)
AfterTag(s, i, end) ==
    LET n == end - i + 1
        at == {j \in (end + 1)..(Len(s) - n + 1) : SubSeq(s, j, j + n - 1) = SubSeq(s, i, end)} IN
    IF at = {} THEN Len(s) + 1 ELSE (CHOOSE j \in at : \A k \in at : j <= k) + n

\* After the literal whose body starts at i: '' does not end it.
RECURSIVE AfterLiteral(_, _)
AfterLiteral(s, i) ==
    LET q == IndexOf(s, i, {"'"}) IN
    IF q < Len(s) /\ s[q + 1] = "'" THEN AfterLiteral(s, q + 2) ELSE Lesser(q, Len(s)) + 1

\* The index after what the branch of the switch for s[i] copies. (The last
\* byte of a comment that is not closed is looked at again, to no effect.)
After(s, i) ==
    CASE s[i] = "--" -> IndexOf(s, i, {"nl"})
      [] s[i] = "/*" -> Lesser(IndexOf(s, i + 1, {"*/"}), Len(s)) + 1
      [] s[i] = "'"  -> AfterLiteral(s, i + 1)
      [] s[i] = "dq" -> Lesser(IndexOf(s, i + 1, {"dq"}), Len(s)) + 1
      [] s[i] = "$" /\ TagEnd(s, i) # 0 -> AfterTag(s, i, TagEnd(s, i))
      [] OTHER -> i + 1

Flush(out, cur) == IF Trim(cur) = <<>> THEN out ELSE Append(out, Trim(cur))

RECURSIVE SplitFrom(_, _, _, _)
SplitFrom(s, i, cur, out) ==
    IF i > Len(s) THEN Flush(out, cur)
    ELSE LET next == After(s, i)
             more == cur \o SubSeq(s, i, next - 1) IN
         IF s[i] = ";" THEN SplitFrom(s, next, <<>>, Flush(out, more))
         ELSE SplitFrom(s, next, more, out)

splitSQL(s) == SplitFrom(s, 1, <<>>, <<>>)

\* One more lexeme of a file.
Write ==
    /\ starts = 0 /\ Len(text) < texts[2]
    /\ \E c \in texts[1] : text' = Append(text, c)
    /\ UNCHANGED <<migrateVars, texts>>

Migrate == text = <<>> /\ MigrateNext /\ UNCHANGED <<text, texts>>

FilesInit == MigrateInit /\ text = <<>> /\ texts \in Texts
FilesNext == Migrate \/ Write
FilesSpec == FilesInit /\ [][FilesNext]_filesVars

(***************************************************************************)
(* Properties.                                                             *)
(***************************************************************************)

\* The reference for splitSQL: a quoted part is what lies between an opening
\* that is not itself quoted and the next closing that fits it.
Opens(s, p) == s[p] \in {"--", "/*", "'", "dq"} \/ (s[p] = "$" /\ TagEnd(s, p) # 0)
Closes(s, p, q) ==
    CASE s[p] = "--" -> s[q] = "nl"
      [] s[p] = "/*" -> s[q] = "*/"
      [] s[p] = "$" ->
           LET n == TagEnd(s, p) - p IN
           q - n > p + n /\ SubSeq(s, q - n, q) = SubSeq(s, p, p + n)
      [] OTHER -> s[q] = s[p]
QuotedUpTo(s) ==
    LET last(p) == {q \in (p + 1)..Len(s) : Closes(s, p, q)}
        end(p) == IF last(p) = {} THEN Len(s) ELSE CHOOSE q \in last(p) : \A r \in last(p) : q <= r
        upTo[p \in 0..Len(s)] ==
            IF p = 0 THEN 0
            ELSE IF p > upTo[p - 1] /\ Opens(s, p) THEN end(p) ELSE upTo[p - 1] IN
    upTo
Cuts(s) == {p \in DOMAIN s : s[p] = ";" /\ p > QuotedUpTo(s)[p]}
Piece(s, p) ==
    LET before == {c \in Cuts(s) : c < p} IN
    SubSeq(s, (IF before = {} THEN 0 ELSE CHOOSE c \in before : \A d \in before : d <= c) + 1, p)

\* The statements are the text cut after the semicolons outside comments,
\* quotes and dollar quotes, of which the ones that are blank are dropped
\* (splitSQL).
SplitAtTopLevel ==
    LET ends == SelectSeq([p \in DOMAIN text |-> p],
                          LAMBDA p : p \in Cuts(text) \cup {Len(text)})
        pieces == [k \in DOMAIN ends |-> Trim(Piece(text, ends[k]))] IN
    splitSQL(text) = SelectSeq(pieces, LAMBDA s : s # <<>>)
=============================================================================
