--------------------------- MODULE LinesProperties ---------------------------
(***************************************************************************)
(* What the text algorithms are to compute, stated without them.           *)
(***************************************************************************)
EXTENDS Lines

\* The member of a set of numbers that n of its members do not exceed.
Nth(S, n) == CHOOSE i \in S : Cardinality(S \cap 1..i) = n

\* What is at the places S of s, in its order.
Picked(s, S) == [n \in 1..Cardinality(S) |-> s[Nth(S, n)]]

\* Where the longest runs of s in which no character is in Sep begin.
Begins(s, Sep) ==
    {i \in 1..Len(s) : s[i] \notin Sep /\ (i = 1 \/ s[i - 1] \in Sep)}

\* What is left of a run from place i on.
RunFrom(s, Sep, i) ==
    SubSeq(s, i, Min({j \in i..Len(s) : s[j] \in Sep} \cup {Len(s) + 1}) - 1)

Runs(s, Sep) ==
    Picked([i \in 1..Len(s) |-> RunFrom(s, Sep, i)], Begins(s, Sep))

Words(s) == Runs(s, {Newline, Blank})

\* The words of s with one blank between them: the characters of the words,
\* and the last white space of each gap between two words.
Joined(s) ==
    LET word(i) == ~isspace(s[i])
        gap(i) == i < Len(s) /\ word(i + 1) /\ \E h \in 1..i : word(h)
    IN Picked([i \in 1..Len(s) |-> IF word(i) THEN s[i] ELSE Blank],
              {i \in 1..Len(s) : word(i) \/ gap(i)})

\* The lines that were typed, tidied, without those that are blank.
TypedLines ==
    LET tidy == [i \in 1..Len(text) |-> Joined(RunFrom(text, {Newline}, i))]
    IN Picked(tidy, {i \in Begins(text, {Newline}) : tidy[i] # <<>>})

\* No line of s, with its newline, needs more than a buffer of this size.
Fit(s, size) ==
    \A i \in Begins(s, {Newline}) : Len(RunFrom(s, {Newline}, i)) < size - 1

\* sanitise_whitespace never overtakes itself in its buffer: what it leaves
\* are the words with single blanks.
SanitiseExact == typed = text => Sanitised(text) = Joined(text)

\* What reaches handle_command, but for empty lines, are the lines the client
\* meant to send, none of them split, joined with the next or lost.
InStep ==
    LET full == Picked(got, {i \in DOMAIN got : got[i] # <<>>})
    IN IsPrefix(full, meant) /\ (pipe = <<>> => full = meant)

\* Lines that fit into the buffer reach the server as they were typed.
AsTyped ==
    begun = "rpc" /\ Fit(text, MAX_RPC_BUF_LEN) =>
        /\ IsPrefix(got, TypedLines)
        /\ typed = <<>> /\ pipe = <<>> => got = TypedLines

\* However long the lines are that are typed, and however the server's reads
\* fall between the client's writes: each fits its buffer with its NUL when
\* the server has it (TypeOK), the two sides cut the text at the same places,
\* and nothing is changed that need not be cut.
LinesArrive == TypeOK /\ InStep /\ AsTyped

\* The user on a line of users.txt whose first word is the name and whose
\* second begins with a number.
Entry(line, name) ==
    /\ Len(Words(line)) >= 2 /\ Words(line)[1] = name
    /\ Words(line)[2][1] \in DOMAIN Digits

\* A name is found exactly when users.txt has an entry for it, never through
\* the entry of a longer or a shorter name, and the first entry decides, so
\* long as the lines fit into the buffer and no number has a sign.
BalanceExact ==
    typed = text /\ Fit(text, MAX_UTXT_LINEBUF_LEN) =>
      LET lines == Runs(text, {Newline}) IN
      \A name \in {<<c>> : c \in Char} \cup {<<c, d>> : c, d \in Char} :
        (\A i \in DOMAIN name : ~isspace(name[i])) =>
          LET hits == {n \in DOMAIN lines : Entry(lines[n], name)}
              answer == usertxt_get_balance(name, text)
          IN IF hits = {} THEN answer = "AUTH_UN"
             ELSE answer = (IF Strtol(Words(lines[Min(hits)])[2]).value > 0
                            THEN "AUTH_OK" ELSE "AUTH_NO")
=============================================================================
