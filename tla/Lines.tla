-------------------------------- MODULE Lines --------------------------------
(***************************************************************************)
(* Text on its way: what is typed, cut by fgets, tidied by                 *)
(* sanitise_whitespace, written to the FIFO (authorise, send_user_input),  *)
(* and cut again by the server's read_until_delim; and the search of       *)
(* usertxt_get_balance in users.txt. Nothing on the way tells a line that  *)
(* was cut from a line that ended: both sides rely on their equal limits.  *)
(*                                                                         *)
(* A character is a member of Char, a text a sequence of them; NUL is the  *)
(* end of the sequence.                                                    *)
(***************************************************************************)
EXTENDS Integers, Sequences, SequencesExt, FiniteSetsExt

CONSTANTS
    Char, Newline, Blank,   \* Newline and Blank are white space
    Digits,                 \* a function from the digits to their values
    LOGIN,                  \* the text "Login "
    QUIT,                   \* the text "Disconnect"
    MAX_RPC_BUF_LEN,        \* size of the buffers for lines, 128 in the code
    MAX_UTXT_LINEBUF_LEN,   \* size of the buffer for users.txt, 64
    Texts                   \* what is typed, and what users.txt holds

ASSUME LinesConstants ==
    /\ {Newline, Blank} \cup DOMAIN Digits \subseteq Char
    /\ Newline # Blank
    /\ Digits \in [DOMAIN Digits -> 0..9]
    /\ {Newline, Blank} \cap DOMAIN Digits = {}
    /\ MAX_RPC_BUF_LEN \in Nat \ {0, 1} /\ MAX_UTXT_LINEBUF_LEN \in Nat \ {0, 1}
    /\ LOGIN \in Seq(Char) /\ QUIT \in Seq(Char) \ {<<>>}
    /\ Texts \subseteq Seq(Char)

isspace(c) == c \in {Newline, Blank}
-----------------------------------------------------------------------------
(* The helpers *)

\* Deviation: the first cell may get a space.
GapBefore_Always(w) == TRUE

\* No space is put into the first cell.
GapBefore(w) == w > 0

\* One turn of the loop of sanitise_whitespace, at cell r of the buffer m.s;
\* m.w counts the cells written, m.ws is in_whitespace.
Turn(m, r) ==
    LET put(n, c) == [n EXCEPT !.s[n.w + 1] = c, !.w = @ + 1]
        gap == IF m.ws /\ GapBefore(m.w) THEN put(m, Blank) ELSE m
    IN IF isspace(m.s[r]) THEN [m EXCEPT !.ws = TRUE]
       ELSE [put(gap, m.s[r]) EXCEPT !.ws = FALSE]

\* sanitise_whitespace, in place: cells behind the reader are overwritten.
Sanitised(str) ==
    LET pass[r \in 0..Len(str)] ==
            IF r = 0 THEN [s |-> str, w |-> 0, ws |-> FALSE]
            ELSE Turn(pass[r - 1], r)
        last == pass[Len(str)]
    IN SubSeq(last.s, 1, last.w)

Least(a, b) == IF a < b THEN a ELSE b

\* Where the first newline of s is, or past the end.
LineEnd(s) ==
    Min({i \in 1..Len(s) : s[i] = Newline} \cup {Len(s) + 1})

\* fgets(buf, size, f) takes a line with its newline, or size - 1 characters.
Fgets(s, size) == SubSeq(s, 1, Least(LineEnd(s), Least(size - 1, Len(s))))

Drop(s, n) == SubSeq(s, n + 1, Len(s))

\* snprintf(buf, size, "%s\n", s) drops what does not fit with the NUL.
Snprintf(s, size) == SubSeq(s, 1, Least(size - 1, Len(s)))

\* Deviation: one character fewer.
Room_Short(maxlen) == maxlen - 2

\* total < maxlen - 1
Room(maxlen) == maxlen - 1

\* read_until_delim: the text before the delimiter, or a buffer full
\* without one; what came of a line that is not complete is lost.
ReadUntilDelim(s, maxlen) ==
    LET n == Least(LineEnd(s) - 1, Room(maxlen))
        cut == n = Room(maxlen)
        found == ~cut /\ n < Len(s)
    IN [done |-> cut \/ found, line |-> SubSeq(s, 1, n),
        rest |-> Drop(s, IF found THEN n + 1 ELSE n)]
-----------------------------------------------------------------------------
(* usertxt_get_balance *)

\* The number that digits write in base 10.
Value(digits) == FoldLeft(LAMBDA v, c : 10 * v + Digits[c], 0, digits)

\* strtol: white space, digits; what it finds no digits in is malformed. A
\* sign is left out.
Strtol(s) ==
    LET start == Min({i \in 1..Len(s) : ~isspace(s[i])} \cup {Len(s) + 1})
        stop == Min({i \in start..Len(s) : s[i] \notin DOMAIN Digits}
                      \cup {Len(s) + 1})
    IN [malformed |-> stop = start, value |-> Value(SubSeq(s, start, stop - 1))]

\* Deviation: a name that begins with the user's will do.
Names_Prefix(buffer, username) == IsPrefix(username, buffer)

\* strncmp, and isspace(buffer[username_len]).
Names(buffer, username) ==
    /\ IsPrefix(username, buffer)
    /\ Len(username) < Len(buffer) /\ isspace(buffer[Len(username) + 1])

usertxt_get_balance(username, file) ==
    LET scan[pos \in 0..Len(file)] ==
            LET rest == Drop(file, pos)
                piece == Fgets(rest, MAX_UTXT_LINEBUF_LEN)
                buffer == Sanitised(piece)
                bal == Strtol(Drop(buffer, Len(username)))
            IN IF rest = <<>> THEN "AUTH_UN"
               ELSE IF Names(buffer, username) /\ ~bal.malformed
               THEN IF bal.value > 0 THEN "AUTH_OK" ELSE "AUTH_NO"
               ELSE scan[pos + Len(piece)]
    IN scan[0]
-----------------------------------------------------------------------------
(* The way from the client's terminal to handle_command *)

VARIABLES
    text,       \* all that is typed; also taken for users.txt
    begun,      \* the phase the client begins in here
    typed,      \* what the client has not read yet
    phase,      \* auth, wait, rpc, end
    meant,      \* the lines the client has sent, before they are cut
    pipe,       \* what is in the FIFO
    got         \* the lines the server has read

vars == <<text, begun, typed, phase, meant, pipe, got>>

TypeOK ==
    /\ text \in Texts /\ IsSuffix(typed, text)
    /\ begun \in {"auth", "rpc"} /\ phase \in {"auth", "wait", "rpc", "end"}
    /\ meant \in Seq(Seq(Char)) /\ got \in Seq(Seq(Char))
    /\ pipe \in Seq(Char)
    /\ \A i \in DOMAIN got : Len(got[i]) < MAX_RPC_BUF_LEN

Init ==
    /\ text \in Texts /\ typed = text
    /\ begun \in {"auth", "rpc"} /\ phase = begun
    /\ meant = <<>> /\ pipe = <<>> /\ got = <<>>

\* A line is written in one piece.
Send(line, message) == /\ meant' = Append(meant, line)
                       /\ pipe' = pipe \o message

\* authorise: the newline is stripped, Login goes out in a longer buffer.
Authorise ==
    /\ phase = "auth" /\ typed # <<>>
    /\ LET input == Fgets(typed, MAX_RPC_BUF_LEN)
           line == Sanitised(IF Last(input) = Newline THEN Front(input)
                             ELSE input)
       IN /\ typed' = Drop(typed, Len(input))
          /\ \/ /\ line = <<>> \/ ~IsPrefix(LOGIN, line)
                /\ UNCHANGED <<phase, meant, pipe>>
             \/ /\ line # <<>> /\ IsPrefix(LOGIN, line)
                /\ Send(line, Snprintf(Append(line, Newline),
                                       MAX_RPC_BUF_LEN + 1))
                /\ phase' = "wait"
    /\ UNCHANGED <<text, begun, got>>

\* The answer to Login.
Answered ==
    /\ phase = "wait" /\ got # <<>>
    /\ phase' \in {"rpc", "end"}
    /\ UNCHANGED <<text, begun, typed, meant, pipe, got>>

\* send_user_input
SendUserInput ==
    /\ phase = "rpc" /\ typed # <<>>
    /\ LET out == Fgets(typed, MAX_RPC_BUF_LEN)
           line == Sanitised(out)
       IN /\ typed' = Drop(typed, Len(out))
          /\ \/ line = <<>> /\ UNCHANGED <<phase, meant, pipe>>
             \/ /\ line = QUIT
                /\ Send(line, Append(QUIT, Newline)) /\ phase' = "end"
             \/ /\ line \notin {<<>>, QUIT}
                /\ Send(line, Snprintf(Append(line, Newline),
                                       MAX_RPC_BUF_LEN))
                /\ UNCHANGED phase
    /\ UNCHANGED <<text, begun, got>>

\* One turn of the server's sweep: a line, or PIPE_EMPTY.
Sweep ==
    /\ pipe # <<>>
    /\ LET r == ReadUntilDelim(pipe, MAX_RPC_BUF_LEN)
       IN /\ pipe' = r.rest
          /\ got' = IF r.done THEN Append(got, r.line) ELSE got
    /\ UNCHANGED <<text, begun, typed, phase, meant>>

Next == Authorise \/ Answered \/ SendUserInput \/ Sweep

Spec == Init /\ [][Next]_vars
=============================================================================
