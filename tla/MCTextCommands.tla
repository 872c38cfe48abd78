--------------------------- MODULE MCTextCommands ---------------------------
(***************************************************************************)
(* TextCommands with a buffer of 14 characters, of which a command word is *)
(* one.  The meanings of the lines are written by hand, from what a reader *)
(* of the code and of its messages expects of them.                        *)
(***************************************************************************)
EXTENDS TextCommands

MCStrayValues == {-1, 0, 9}

\* Lines that set nothing.
Plain(text, c) ==
    [text |-> text, means |-> [command |-> c, addresses |-> {Keep}, debug |-> {Keep}]]

Addr(text, to) ==
    [text |-> text, means |-> [command |-> "ADDR", addresses |-> to, debug |-> {Keep}]]

To(p, s, d) == [poll |-> p, select |-> s, device |-> d]

Debug(text, to) ==
    [text |-> text, means |-> [command |-> "DEBUG", addresses |-> {Keep}, debug |-> to]]

\* In the order of the code: the commands, with spaces, small letters and
\* characters taken back; numbers of two digits, of a negative int and of
\* more digits than an int has; parameters that are none or not there.
MCLines ==
    {Plain(<<"poll", CR, NL>>, "POLL"),
     Plain(<<BS, "WRITE", BS, BS, "WRITE", NL>>, "WRITE"),
     Plain(<<"RESET", NL>>, "RESET"),
     Plain(<<" ", "BIN", CR, NL>>, "BIN"),
     Addr(<<"addr", " ", "C", "1", ",", "6", "1", BS, "0", ",", "a", "f", NL>>,
          {To(193, 96, 175)}),
     Addr(<<"ADDR", " ", "8", "0", "0", "0", ",", "1", ",", "1", NL>>, {Keep}),
     Addr(<<"ADDR", ",", "1", "0", "0", "C", "2", ",", "2", ",", "3", NL>>,
          {To(194, 2, 3)}),
     Addr(<<"ADDR", " ", "0", "x", "4", ",", "5", ",", "6", NL>>, {Keep}),
     Addr(<<"ADDR", " ", "5", ",", ",", "6", NL>>,
          IF -1 \in StrayValues
          THEN {Keep} \cup {To(5, 6, v) : v \in StrayValues \ {-1}}
          ELSE {To(5, 6, v) : v \in StrayValues}),
     Debug(<<"DEBUG", " ", " ", "0", NL>>, {FALSE}),
     Debug(<<"DEBUG", " ", "OFF", NL>>, {TRUE}),
     Debug(<<"DEBUG", NL>>, {TRUE, FALSE}),
     Plain(<<NL>>, None),
     Plain(<<"POLL", "0", NL>>, None),
     Plain(<<"1", "2", "3", "4", "5", "6", "7", "8", "9", "A", "B", "C", "D", NL>>, None),
     Plain(<<"POLL", " ", "3", "4", "5", "6", CR, "7", "8", "9", "A", "B", "C", "D", "E">>, None)}
=============================================================================
