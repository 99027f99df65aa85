------------------------------ MODULE ImapText ------------------------------
(***************************************************************************)
(* The text an IMAP command carries, internal/imap: sequence sets,         *)
(* mailbox patterns, search criteria, FETCH items, header sections and     *)
(* quoted strings; and the maildir names that carry flags.  Each parser is *)
(* an operator compared with a reference definition.  A client types the   *)
(* text piece by piece, so that the states are the inputs.  Characters and *)
(* keywords are abstract; the control flow of the parsers is not.          *)
(***************************************************************************)
EXTENDS Integers, Sequences, FiniteSets

CONSTANTS
    MaxNum,       \* the highest uint32, which also stands for "*"
    MaxText,      \* bound: characters of a pattern and of a name (a message has 3 more)
    MaxCriteria   \* bound: criteria of a SEARCH

ASSUME ImapTextAssumption ==
    /\ MaxNum \in Nat /\ MaxNum > 2
    /\ MaxText \in Nat /\ MaxCriteria \in Nat

VARIABLES
    kind,    \* what the text is read as
    text,    \* the argument, a sequence of characters, numbers or criteria
    name     \* LIST: the folder the pattern is held against

textVars == <<kind, text, name>>

-----------------------------------------------------------------------------
(***************************************************************************)
(* Sequence sets (parse.go)                                                *)
(***************************************************************************)
\* What a client may not write, 0, stands for the token "*".
Star == 0

\* parseSeqNum; zero and text are refused.
ParseSeqNum(t) == IF t = Star THEN MaxNum ELSE t

\* One "lo:hi" of parseSeqSet, in order.
ParseRange(a, b) ==
    LET x == ParseSeqNum(a)
        y == ParseSeqNum(b)
    IN IF x > y THEN <<y, x>> ELSE <<x, y>>

\* Seeded fault: the range is not put in order again once "*" is known.
InRangeUnordered(r, n, max) ==
    LET lo == IF r[1] = MaxNum THEN max ELSE r[1]
        hi == IF r[2] = MaxNum THEN max ELSE r[2]
    IN lo <= n /\ n <= hi

\* One range of seqSet.contains.
InRange(r, n, max) ==
    LET lo == IF r[1] = MaxNum THEN max ELSE r[1]
        hi == IF r[2] = MaxNum THEN max ELSE r[2]
    IN IF lo > hi THEN hi <= n /\ n <= lo ELSE lo <= n /\ n <= hi

Contains(set, n, max) == \E r \in set : InRange(r, n, max)

-----------------------------------------------------------------------------
(***************************************************************************)
(* LIST patterns (session.go matchPattern, wildcard)                       *)
(***************************************************************************)
PatternChars == {"a", "b", ".", "*", "%"}
NameChars == {"a", "b", "."}

\* Seeded fault: "%" crosses the hierarchy delimiter.
PercentCrosses(s, i, j) == TRUE

\* "%" may consume s[i..j-1]: no delimiter in it.
PercentSpans(s, i, j) == \A k \in i..(j - 1) : s[k] # "."

\* wildcard.  W[n] are the places of s from which the last n characters of
\* the pattern match what is left.
Wildcard(pat, s) ==
    LET W[n \in 0..Len(pat)] ==
        IF n = 0 THEN {Len(s) + 1}
        ELSE LET c == pat[Len(pat) - n + 1]
             IN {j \in 1..(Len(s) + 1) :
                    CASE c = "*" -> n = 1 \/ \E k \in j..(Len(s) + 1) : k \in W[n - 1]
                      [] c = "%" -> \E k \in j..(Len(s) + 1) :
                                        PercentSpans(s, j, k) /\ k \in W[n - 1]
                      [] OTHER -> j <= Len(s) /\ s[j] = c /\ j + 1 \in W[n - 1]}
    IN 1 \in W[Len(pat)]

\* The letter case, which EqualFold ignores, is left out.
MatchPattern(pat, s) ==
    IF pat = <<>> THEN s = <<>> ELSE pat = s \/ Wildcard(pat, s)

-----------------------------------------------------------------------------
(***************************************************************************)
(* SEARCH (fetch.go search, matches).  A message is described by what the  *)
(* keys ask: m.seen, m.recent, its sequence number and UID, and the words  *)
(* its header holds.  Words and keys share one alphabet, as tokens do.     *)
(***************************************************************************)
FlagKeys == {"ALL", "SEEN", "UNSEEN", "NEW", "OLD", "RECENT", "1"}
Words == {"SEEN", "1", "x"}
Messages == [seen : BOOLEAN, recent : BOOLEAN, num : 1..2, words : SUBSET {"SEEN", "x"}]

\* A key without arguments.  "1" is a bare sequence set; a key the server
\* does not know, "OR" among them, asks for nothing.
HoldsFlag(m, key) ==
    CASE key = "SEEN"   -> m.seen
      [] key = "UNSEEN" -> ~m.seen
      [] key = "NEW"    -> m.recent /\ ~m.seen
      [] key = "OLD"    -> ~m.recent
      [] key = "RECENT" -> m.recent
      [] key = "1"      -> m.num = 1
      [] OTHER          -> TRUE

\* A key with its argument: FROM and its kin ask for a header holding the
\* word, or just for the header; UID for a set, and "" is not one.
HoldsArg(m, key, arg) ==
    CASE key = "FROM" -> IF arg = "" THEN m.words # {} ELSE arg \in m.words
      [] key = "UID"  -> arg = "1" /\ m.num = 1

\* HEADER takes the name of a field and a word.
HoldsHeader(m, field, arg) ==
    field = "x" /\ (IF arg = "" THEN m.words # {} ELSE arg \in m.words)

\* matches for a one-token list, which is what NOT negates.
HoldsAlone(m, tok) ==
    CASE tok \in {"FROM", "UID"} -> HoldsArg(m, tok, "")
      [] tok = "HEADER" -> HoldsHeader(m, "", "")
      [] tok = "NOT" -> TRUE
      [] OTHER -> HoldsFlag(m, tok)

\* Seeded fault: an argument is looked at, and then read as a key.
WidthOne(tok) == 1

\* Tokens a criterion takes: its key and its arguments.
Width(tok) ==
    CASE tok \in {"FROM", "UID", "NOT"} -> 2
      [] tok = "HEADER" -> 3
      [] OTHER -> 1

\* The loop of matches over the tokens of the command.
Matches(m, crit) ==
    LET Tok(i) == IF i <= Len(crit) THEN crit[i] ELSE ""
        M[i \in 1..(Len(crit) + 3)] ==
            \/ i > Len(crit)
            \/ /\ CASE crit[i] \in {"FROM", "UID"} -> HoldsArg(m, crit[i], Tok(i + 1))
                    [] crit[i] = "HEADER" -> HoldsHeader(m, Tok(i + 1), Tok(i + 2))
                    [] crit[i] = "NOT" -> i < Len(crit) => ~HoldsAlone(m, crit[i + 1])
                    [] OTHER -> HoldsFlag(m, crit[i])
               /\ M[i + Width(crit[i])]
    IN M[1]

\* The criteria a client can write: a key, alone or with words; a negated
\* key; two keys of which one is to hold.
PlainCriteria ==
    {<<k>> : k \in FlagKeys} \cup {<<"NOT", k>> : k \in FlagKeys}
    \cup {<<"FROM", w>> : w \in Words} \cup {<<"UID", "1">>}
    \cup {<<"HEADER", "x", w>> : w \in Words}

NestedCriteria ==
    {<<"NOT", "FROM", w>> : w \in Words} \cup {<<"NOT", "UID", "1">>}
    \cup {<<"NOT", "HEADER", "x", w>> : w \in Words}
    \cup {<<"NOT", "NOT", k>> : k \in FlagKeys}
    \cup {<<"OR", j, k>> : j, k \in FlagKeys}

Criteria == PlainCriteria \cup NestedCriteria

-----------------------------------------------------------------------------
(***************************************************************************)
(* FETCH sections (fetch.go section, headerOf, bodyOf, filterHeaders).     *)
(* A message is a string over CR, LF and other characters; a header line   *)
(* starts a field or continues one.                                        *)
(***************************************************************************)
CRLF2 == <<"r", "n", "r", "n">>
LF2   == <<"n", "n">>

\* bytes.Index: the first place the mark is at, or 0.
IndexOf(data, mark) ==
    LET at == {i \in 1..(Len(data) - Len(mark) + 1) :
                 SubSeq(data, i, i + Len(mark) - 1) = mark}
    IN IF at = {} THEN 0 ELSE CHOOSE i \in at : \A j \in at : i <= j

\* Where the header block ends, its blank line included; both headerOf and
\* bodyOf look for CRLF CRLF anywhere before they look for LF LF.
SplitAt(data) ==
    LET i == IndexOf(data, CRLF2)
        j == IndexOf(data, LF2)
    IN IF i > 0 THEN i + 3 ELSE IF j > 0 THEN j + 1 ELSE Len(data)

HeaderOf(data) == SubSeq(data, 1, SplitAt(data))
BodyOf(data) == SubSeq(data, SplitAt(data) + 1, Len(data))

Continued == " "
HeaderLines == {"a", "b", Continued}

\* Seeded fault: a continuation line is taken for a field of its own.
KeptByName(lines, fields, exclude) ==
    {k \in DOMAIN lines : (lines[k] \in fields) # exclude}

\* The lines filterHeaders writes: a field when it is wanted, a continuation
\* when the field before it was.
Kept(lines, fields, exclude) ==
    LET K[k \in 0..Len(lines)] ==
        IF k = 0 THEN FALSE
        ELSE IF lines[k] = Continued THEN K[k - 1]
        ELSE (lines[k] \in fields) # exclude
    IN {k \in DOMAIN lines : K[k]}

\* splitItems: the spaces outside of brackets separate the items of a FETCH;
\* one pair of outer parentheses is dropped.
Trimmed(spec) ==
    LET a == IF spec # <<>> /\ spec[1] = "(" THEN Tail(spec) ELSE spec
    IN IF a # <<>> /\ a[Len(a)] = ")" THEN SubSeq(a, 1, Len(a) - 1) ELSE a

Deeper(c) == CASE c \in {"[", "("} -> 1 [] c \in {"]", ")"} -> -1 [] OTHER -> 0

SplitItems(given) ==
    LET spec == Trimmed(given)
        R[i \in 0..Len(spec)] ==
            IF i = 0 THEN [items |-> <<>>, start |-> 1, depth |-> 0]
            ELSE LET r == R[i - 1]
                 IN IF spec[i] = " " /\ r.depth = 0
                    THEN [r EXCEPT !.start = i + 1,
                                   !.items = IF i > r.start
                                             THEN Append(@, SubSeq(spec, r.start, i - 1)) ELSE @]
                    ELSE [r EXCEPT !.depth = @ + Deeper(spec[i])]
        end == R[Len(spec)]
    IN IF end.start <= Len(spec) THEN Append(end.items, SubSeq(spec, end.start, Len(spec)))
       ELSE end.items

-----------------------------------------------------------------------------
(***************************************************************************)
(* Quoted strings (parse.go quote, parseQuoted) and file names (maildir    *)
(* flags.go).  "q" is the quotation mark, "e" the backslash; ":" is the    *)
(* separator before the flags of a name, S and T are flags.                *)
(***************************************************************************)
\* Seeded fault: only the quotation mark is escaped.
EscapesQuote(c) == c = "q"

Escapes(c) == c \in {"q", "e"}

Quote(s) ==
    LET Q[i \in 0..Len(s)] ==
        IF i = 0 THEN <<"q">>
        ELSE Q[i - 1] \o IF Escapes(s[i]) THEN <<"e", s[i]>> ELSE <<s[i]>>
    IN Append(Q[Len(s)], "q")

\* parseQuoted of a line that starts with a quotation mark: the string and
\* what is left of the line, or an error.
ParseQuoted(line) ==
    LET n == Len(line)
        P[k \in 0..n] ==   \* k characters are left
            IF k = 0 THEN [ok |-> FALSE, str |-> <<>>, rest |-> <<>>]
            ELSE CASE line[n - k + 1] = "q" ->
                        [ok |-> TRUE, str |-> <<>>, rest |-> SubSeq(line, n - k + 2, n)]
                   [] line[n - k + 1] = "e" ->
                        IF k = 1 THEN P[0]
                        ELSE [P[k - 2] EXCEPT !.str = <<line[n - k + 2]>> \o @]
                   [] OTHER -> [P[k - 1] EXCEPT !.str = <<line[n - k + 1]>> \o @]
    IN P[n - 1]

\* strings.Index(name, infoSep), or past the end.
InfoAt(file) == LET i == IndexOf(file, <<":">>) IN IF i = 0 THEN Len(file) + 1 ELSE i

BaseName(file) == SubSeq(file, 1, InfoAt(file) - 1)

\* The letters after the first separator that are flags.
ParseFlags(file) == {file[i] : i \in (InfoAt(file) + 1)..Len(file)} \cap {"S", "T"}

Letter(fl, f) == IF f \in fl THEN <<f>> ELSE <<>>

\* Flags are written in order.
FileName(base, fl) == base \o <<":">> \o Letter(fl, "S") \o Letter(fl, "T")

-----------------------------------------------------------------------------
(***************************************************************************)
(* The client                                                              *)
(***************************************************************************)
Alphabet(k) ==
    CASE k = "set"     -> 0..MaxNum
      [] k = "list"    -> PatternChars
      [] k = "search"  -> Criteria
      [] k = "section" -> {"r", "n", "x"}
      [] k = "fields"  -> HeaderLines
      [] k = "items"   -> {<<"w">>, <<"w", "[", "w", " ", "(", "w", " ", "w", ")", "]">>}
      [] k = "quoted"  -> {"a", " ", "q", "e"}
      [] k = "file"    -> {"b", ":", "S", "T", "x"}

Room(k) ==
    CASE k = "set"     -> 2
      [] k = "list"    -> MaxText
      [] k = "search"  -> MaxCriteria
      [] k = "section" -> MaxText + 3
      [] OTHER         -> MaxText + 1

TextInit ==
    /\ kind \in {"set", "list", "search", "section", "fields", "items", "quoted", "file"}
    /\ text = <<>>
    /\ name = <<>>

Type(c) ==
    /\ Len(text) < Room(kind)
    /\ text' = Append(text, c)
    /\ UNCHANGED <<kind, name>>

NameFolder(c) ==
    /\ kind = "list" /\ Len(name) < MaxText
    /\ name' = Append(name, c)
    /\ UNCHANGED <<kind, text>>

TextNext == (\E c \in Alphabet(kind) : Type(c)) \/ \E c \in NameChars : NameFolder(c)

TextSpec == TextInit /\ [][TextNext]_textVars

-----------------------------------------------------------------------------
(***************************************************************************)
(* Properties                                                              *)
(***************************************************************************)
\* "*" is the highest number in use, a range may be written either way round,
\* and "7:*" holds the last message even when 7 is past it (contains).  The
\* number 4294967295, which parseSeqNum takes and nothing else tells from
\* "*", is read as "*" too.
SetsMeanRanges ==
    kind = "set" /\ Len(text) = 2 =>
        \A max \in 0..(MaxNum - 1) : \A n \in 1..max :
            LET ends == {IF text[i] \in {Star, MaxNum} THEN max ELSE text[i] : i \in 1..2}
            IN Contains({ParseRange(text[1], text[2])}, n, max)
                <=> (\E x \in ends : x <= n) /\ (\E y \in ends : n <= y)

\* Every wildcard stands for a run of characters, the other characters for
\* themselves, and only "*" runs across the delimiter (matchPattern: "'*'
\* spans the hierarchy delimiter, '%' stops at it").
PatternsMatchByParts ==
    kind = "list" =>
        (MatchPattern(text, name) <=>
            \E cut \in [0..Len(text) -> 0..Len(name)] :
                /\ cut[0] = 0 /\ cut[Len(text)] = Len(name)
                /\ \A i \in 1..Len(text) :
                    LET piece == SubSeq(name, cut[i - 1] + 1, cut[i])
                    IN /\ cut[i - 1] <= cut[i]
                       /\ text[i] = "%" => \A k \in DOMAIN piece : piece[k] # "."
                       /\ text[i] \notin {"*", "%"} => piece = <<text[i]>>)

\* What RFC 3501 means by a plain criterion.
Meant(m, c) ==
    CASE c[1] = "NOT" -> ~HoldsFlag(m, c[2])
      [] c[1] \in {"FROM", "UID"} -> HoldsArg(m, c[1], c[2])
      [] c[1] = "HEADER" -> HoldsHeader(m, c[2], c[3])
      [] OTHER -> HoldsFlag(m, c[1])

\* What matches makes of a nested one, which is not what RFC 3501 means: NOT
\* negates the one token after it, read without its words, and OR asks for
\* nothing; the words and keys that are left are keys of their own.
Taken(m, c) ==
    IF c[1] = "NOT"
    THEN ~HoldsAlone(m, c[2]) /\ \A i \in 3..Len(c) : HoldsFlag(m, c[i])
    ELSE \A i \in 2..Len(c) : HoldsFlag(m, c[i])

Holds(m, c) == IF c \in NestedCriteria THEN Taken(m, c) ELSE Meant(m, c)

\* SEARCH finds the messages for which every criterion holds ("ANDing them
\* as RFC 3501 requires", search), in whatever order they are written: no
\* argument of a plain criterion is taken for a key and no key for an
\* argument, next to whatever else.  NOT before a key with words or before
\* another NOT, and OR, are exceptions: they hold as Taken says, and nothing
\* of them reaches into the criterion after them.
SearchIsConjunction ==
    kind = "search" =>
        LET Flat[n \in 0..Len(text)] == IF n = 0 THEN <<>> ELSE Flat[n - 1] \o text[n]
        IN \A m \in Messages :
            Matches(m, Flat[Len(text)]) <=> \A n \in DOMAIN text : Holds(m, text[n])

\* A message is its header block and its body, and the blank line that ends
\* the block is nowhere else in it, whichever line ends are used (headerOf).
HeaderEndsAtBlankLine ==
    kind = "section" =>
        /\ HeaderOf(text) \o BodyOf(text) = text
        /\ \A mark \in {CRLF2, LF2} :
            IndexOf(text, mark) > 0 /\ (mark = LF2 => IndexOf(text, CRLF2) = 0)
                => IndexOf(HeaderOf(text), mark) + Len(mark) - 1 = Len(HeaderOf(text))

\* HEADER.FIELDS and HEADER.FIELDS.NOT share a header out between them, and a
\* continuation line stays with its field (filterHeaders).
FieldsShareHeader ==
    kind = "fields" /\ text # <<>> /\ text[1] # Continued =>
        \A fields \in SUBSET {"a", "b"} :
            LET in == Kept(text, fields, FALSE)
                out == Kept(text, fields, TRUE)
            IN /\ in \cap out = {}
               /\ in \cup out = DOMAIN text
               /\ \A k \in DOMAIN text :
                    text[k] = Continued => ((k \in in) <=> (k - 1 \in in))

\* The items of a FETCH come back as they were written, in parentheses or not,
\* the field lists inside their brackets included (splitItems).
ItemsKeepTheirFields ==
    kind = "items" =>
        LET J[n \in 0..Len(text)] ==
                IF n = 0 THEN <<>> ELSE IF n = 1 THEN text[1] ELSE J[n - 1] \o <<" ">> \o text[n]
            spec == J[Len(text)]
        IN SplitItems(spec) = text /\ SplitItems(<<"(">> \o spec \o <<")">>) = text

\* A FETCH takes a message and its own arguments apart without losing or
\* repeating anything (headerOf, bodyOf, filterHeaders, splitItems).
FetchLosesNothing == HeaderEndsAtBlankLine /\ FieldsShareHeader /\ ItemsKeepTheirFields

\* What the server quotes reads back as it was, and nothing after it is
\* swallowed (quote, parseQuoted).
QuotingReadsBack ==
    kind = "quoted" =>
        \A after \in {<<>>, <<" ", "q">>} :
            ParseQuoted(Quote(text) \o after) = [ok |-> TRUE, str |-> text, rest |-> after]

\* Whatever is in a file's name, renaming it to carry flags leaves the base
\* name alone and is read back as just those flags (BaseName: "stable across
\* flag changes, so it is what the UID list keys on").
NamesCarryFlags ==
    kind = "file" =>
        \A fl \in SUBSET {"S", "T"} :
            LET renamed == FileName(BaseName(text), fl)
            IN BaseName(renamed) = BaseName(text) /\ ParseFlags(renamed) = fl

\* What the server writes, a quoted string or a file name, it reads back as it
\* was meant (quote, parseQuoted, FileName, BaseName, ParseFlags).
TextReadsBack == QuotingReadsBack /\ NamesCarryFlags
=============================================================================
