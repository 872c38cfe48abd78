---------------------------- MODULE TextCommands ----------------------------
(***************************************************************************)
(* CommandProcessorText and the user at the terminal: the line editor, one *)
(* character per step, the words of the line, and the commands.            *)
(*                                                                         *)
(* The user may type ahead.  The exchange on the line (modules SendEngine  *)
(* and ReceiveEngine) is one step per frame, and one for the read.         *)
(*                                                                         *)
(* Characters are strings; the letters of a command word are one of them.  *)
(* What is printed is not modelled, but when the next line is read is.     *)
(***************************************************************************)
EXTENDS CommandFrames, Integers, SequencesExt

CONSTANTS
    LineSize,       \* commandBuffLength
    Lines,          \* what the user types, [text, means]: see TextConsole
    Keep,
    StrayValues,    \* what a parameter that is not there may be read as
    MaxAhead,       \* bound: lines typed and not yet executed
    MaxLines        \* bound: lines of a session in text mode, before its BIN

NUL == "NUL"
CR  == "CR"
NL  == "NL"
BS  == "BS"

\* toupper(); what it leaves alone is left out.
Upper(c) ==
    CASE c = "a" -> "A" [] c = "f" -> "F" [] c = "x" -> "X"
      [] c = "addr" -> "ADDR" [] c = "poll" -> "POLL" [] OTHER -> c

Digits == <<"0", "1", "2", "3", "4", "5", "6", "7", "8", "9",
            "A", "B", "C", "D", "E", "F">>

Commands == {"POLL", "WRITE", "ADDR", "DEBUG", "BIN", "RESET", "MEM", "HELP", "?"}

IntSize == 65536
Ints == (-(IntSize \div 2))..(IntSize \div 2 - 1)

\* Where readCommand() is in the buffer after each character of a line.
CursorAfter(x, c) ==
    CASE c = CR -> x
      [] c = BS -> IF x > 0 THEN x - 1 ELSE x
      [] OTHER  -> x + 1

Cursor(text) ==
    LET after[k \in 0..Len(text)] ==
            IF k = 0 THEN 0 ELSE CursorAfter(after[k - 1], text[k])
    IN after

\* A line of the user ends in its only newline, or else with the character
\* that fills the buffer: an overlong line counts as two.
ASSUME LineAssumption ==
    /\ StrayValues \subseteq Ints
    /\ LineSize \in Nat \ {0} /\ MaxAhead \in Nat /\ MaxLines \in Nat
    /\ \A l \in Lines :
        /\ l.text \in Seq(STRING) \ {<<>>}
        /\ \A k \in 1..(Len(l.text) - 1) :
            l.text[k] # NL /\ Cursor(l.text)[k] < LineSize
        /\ Last(l.text) = NL \/ Cursor(l.text)[Len(l.text)] = LineSize

VARIABLES
    toDongle,           \* characters typed and not yet read
    pc,
    commandBuffer,      \* the array; the loop index is x
    x,
    command,
    rest,               \* what strtok() has not returned yet
    parms,              \* parameters read so far: parm1, parm2, parm3
    addresses,          \* addressCuPoll, addressCuSelect, addressDevice
    debugEnabled,
    sent,               \* frames the command has sent
    typed,              \* history: the lines not yet executed
    session             \* history: number of lines typed in this session

lineVars   == <<commandBuffer, x>>
parseVars  == <<command, rest, parms>>
objectVars == <<addresses, debugEnabled>>
vars == <<toDongle, pc, lineVars, parseVars, objectVars, sent, typed, session>>

None == "none"

TextTypeOK ==
    /\ pc \in {"prompt", "read", "split", "execute", "receive", "binary"}
    /\ x \in 0..LineSize
    /\ Len(commandBuffer) = LineSize
    /\ command \in Commands \cup {None}
    /\ \A k \in DOMAIN addresses : addresses[k] \in 0..(IntSize \div 2 - 1)
    /\ debugEnabled \in BOOLEAN
    /\ Len(sent) <= 3 /\ Len(typed) <= MaxAhead /\ session \in 0..MaxLines

\* The constructor of the processor; it also sets addressSet, which nothing
\* resets, so the commands never find it false.
NewSettings == [poll |-> 64, select |-> 96, device |-> 64]

\* Memory nobody wrote, with a NUL in it and without one.
FreshBuffer == {[k \in 1..LineSize |-> c] : c \in {NUL, "?"}}

Init ==
    /\ session = 0
    /\ toDongle = <<>> /\ typed = <<>> /\ sent = <<>> /\ rest = <<>> /\ parms = <<>>
    /\ pc = "prompt"
    /\ commandBuffer \in FreshBuffer
    /\ x = 0
    /\ command = None
    /\ addresses = NewSettings
    /\ debugEnabled = TRUE

-----------------------------------------------------------------------------
\* The user types a line, but no text behind a BIN.
UserTypes(l) ==
    /\ pc # "binary"
    /\ \A k \in DOMAIN typed : typed[k].means.command # "BIN"
    /\ Len(typed) < MaxAhead
    /\ toDongle' = toDongle \o l.text
    /\ typed' = Append(typed, l)
    /\ IF l.means.command = "BIN" THEN UNCHANGED session
       ELSE session < MaxLines /\ session' = session + 1
    /\ UNCHANGED <<pc, lineVars, parseVars, objectVars, sent>>

-----------------------------------------------------------------------------
\* readCommand(): the loop over the characters.

Prompt ==
    /\ pc = "prompt"
    /\ pc' = "read"
    /\ UNCHANGED <<toDongle, lineVars, parseVars, objectVars, sent, typed, session>>

ReadChar ==
    /\ pc = "read" /\ x < LineSize
    /\ toDongle # <<>>
    /\ toDongle' = Tail(toDongle)
    /\ UNCHANGED <<parseVars, objectVars, sent, typed, session>>

Store(c) ==
    /\ commandBuffer' = [commandBuffer EXCEPT ![x + 1] = c]
    /\ x' = x + 1

\* Seeded fault: a carriage return ends the line.
CarriageReturnEnds ==
    /\ ReadChar /\ Head(toDongle) = CR
    /\ Store(NUL)
    /\ pc' = "split"

CarriageReturn ==
    /\ ReadChar /\ Head(toDongle) = CR
    /\ UNCHANGED <<pc, lineVars>>

\* Seeded fault: a newline ends the line without the NUL.
NoTerminator ==
    /\ ReadChar /\ Head(toDongle) = NL
    /\ x' = x + 1 /\ UNCHANGED commandBuffer
    /\ pc' = "split"

NewLine ==
    /\ ReadChar /\ Head(toDongle) = NL
    /\ Store(NUL)
    /\ pc' = "split"

\* Seeded fault: backspace at the beginning of the line.
BackSpaceAnyway ==
    /\ ReadChar /\ Head(toDongle) = BS
    /\ x' = x - 1
    /\ UNCHANGED <<pc, commandBuffer>>

BackSpace ==
    /\ ReadChar /\ Head(toDongle) = BS
    /\ x' = IF x > 0 THEN x - 1 ELSE x
    /\ UNCHANGED <<pc, commandBuffer>>

OtherChar ==
    /\ ReadChar /\ Head(toDongle) \notin {CR, NL, BS}
    /\ Store(Upper(Head(toDongle)))
    /\ UNCHANGED pc

\* The end of a command: its locals are gone, and what is left for strtok()
\* is never asked for.
Forget == x' = 0 /\ command' = None /\ rest' = <<>> /\ parms' = <<>> /\ sent' = <<>>

Done ==
    /\ pc' = "prompt"
    /\ Forget
    /\ typed' = Tail(typed)
    /\ UNCHANGED session

\* Also when the last one was the NUL.
CommandTooLong ==
    /\ pc \in {"read", "split"} /\ x >= LineSize
    /\ Done
    /\ UNCHANGED <<toDongle, commandBuffer, objectVars>>

-----------------------------------------------------------------------------
\* strtok() on a string that ends in NUL: the token is empty for a null
\* pointer.
Strtok(text, delimiters) ==
    LET from == SelectInSeq(text, LAMBDA c : c \notin delimiters)
        to   == SelectInSubSeq(text, from, Len(text), LAMBDA c : c \in delimiters \cup {NUL})
    IN CASE from = 0 \/ to = from -> [token |-> <<>>, rest |-> <<>>]
         [] from # 0 /\ to = 0    -> [token |-> SubSeq(text, from, Len(text)), rest |-> <<>>]
         [] OTHER ->
                [token |-> SubSeq(text, from, to - 1),
                 rest  |-> IF text[to] = NUL THEN <<>> ELSE SubSeq(text, to + 1, Len(text))]

\* A null pointer is a string of at most one character to the processor:
\* address 0 is a scratch register, address 1 a register that is zero.
CommandsOf(word) ==
    CASE word = <<>>                                  -> {None, "?"}
      [] Len(word) = 1 /\ word[1] \in Commands       -> {word[1]}
      [] OTHER                                        -> {None}

Split ==
    /\ pc = "split" /\ x < LineSize
    /\ \E first \in {Strtok(commandBuffer, {" ", ","})} :
        /\ command' \in CommandsOf(first.token)
        /\ rest' = first.rest
    /\ pc' = "execute"
    /\ UNCHANGED <<toDongle, lineVars, parms, objectVars, sent, typed, session>>

-----------------------------------------------------------------------------
\* getCommandParamHexadecimal()

Int16(n) ==
    LET low == n % IntSize IN IF low < IntSize \div 2 THEN low ELSE low - IntSize

IsDigit(c) == Contains(Digits, c)
Digit(c)   == CHOOSE d \in 0..15 : Digits[d + 1] = c

Skipped == {" ", "x"}

HexDigit(hexValue, c) ==
    IF c \in Skipped THEN hexValue ELSE Int16(hexValue * 16 + Digit(c))

HexValue(parmStr) ==
    LET hexValue[k \in 0..Len(parmStr)] ==
            IF k = 0 THEN 0 ELSE HexDigit(hexValue[k - 1], parmStr[k])
    IN IF \A k \in DOMAIN parmStr : parmStr[k] \in Skipped \/ IsDigit(parmStr[k])
       THEN hexValue[Len(parmStr)] ELSE -1

ParamValues(parmStr) == IF parmStr = <<>> THEN StrayValues ELSE {HexValue(parmStr)}

-----------------------------------------------------------------------------
\* getAndProcessCommand()

Execute(c) == pc = "execute" /\ command = c

Parameters(c) == CASE c = "ADDR" -> 3 [] c = "DEBUG" -> 1 [] OTHER -> 0

GetParam ==
    /\ pc = "execute" /\ Len(parms) < Parameters(command)
    /\ \E next \in {Strtok(rest, {","})} :
        /\ \E parm \in ParamValues(next.token) : parms' = Append(parms, parm)
        /\ rest' = next.rest
    /\ UNCHANGED <<toDongle, pc, lineVars, command, objectVars, sent, typed, session>>

Executed == Done /\ UNCHANGED <<toDongle, commandBuffer>>

InvalidCommand == Execute(None) /\ Executed /\ UNCHANGED objectVars

DebugCommand ==
    /\ Execute("DEBUG") /\ Len(parms) = 1
    /\ debugEnabled' = (parms[1] # 0)
    /\ Executed /\ UNCHANGED addresses

AddrCommand ==
    /\ Execute("ADDR") /\ Len(parms) = 3
    /\ addresses' = IF \A k \in 1..3 : parms[k] >= 0
                    THEN [poll |-> parms[1], select |-> parms[2], device |-> parms[3]]
                    ELSE addresses
    /\ Executed /\ UNCHANGED debugEnabled

Sends(frame) ==
    /\ sent' = Append(sent, frame)
    /\ UNCHANGED <<toDongle, lineVars, parseVars, objectVars, typed, session>>

ExecReset ==
    /\ Execute("POLL") \/ Execute("WRITE")
    /\ sent = <<>>
    /\ Sends(ResetFrame)
    /\ UNCHANGED pc

ExecPoll ==
    /\ Execute("POLL") /\ Len(sent) = 1
    /\ Sends(AddressFrame(addresses.poll % 256, addresses.device % 256))
    /\ pc' = "receive"

ExecSelect ==
    /\ Execute("WRITE") /\ Len(sent) = 1
    /\ Sends(AddressFrame(addresses.select % 256, addresses.device % 256))
    /\ UNCHANGED pc

ExecWrite ==
    /\ Execute("WRITE") /\ Len(sent) = 2
    /\ Sends(ScreenFrame)
    /\ pc' = "receive"

\* A frame or the timeout; both end the command.
ExecRead == pc = "receive" /\ Executed /\ UNCHANGED objectVars

\* MEM and HELP print; RESET drives the modem lines (see BinaryCommands).
PrintCommand ==
    /\ \E c \in {"MEM", "RESET", "HELP", "?"} : Execute(c)
    /\ Executed /\ UNCHANGED objectVars

\* The front end deletes the processor.
BinCommand ==
    /\ Execute("BIN")
    /\ pc' = "binary"
    /\ Forget /\ typed' = Tail(typed)
    /\ UNCHANGED <<toDongle, commandBuffer, objectVars, session>>

\* The host gave CMD_TEXTMODE: the front end makes a new one.
TextMode ==
    /\ pc = "binary"
    /\ pc' = "prompt"
    /\ addresses' = NewSettings
    /\ debugEnabled' = TRUE
    /\ commandBuffer' \in FreshBuffer
    /\ session' = 0
    /\ UNCHANGED <<toDongle, x, parseVars, sent, typed>>

Dongle ==
    \/ Prompt \/ CarriageReturn \/ NewLine \/ BackSpace \/ OtherChar \/ CommandTooLong
    \/ Split \/ GetParam \/ InvalidCommand \/ DebugCommand \/ AddrCommand
    \/ ExecReset \/ ExecPoll \/ ExecSelect \/ ExecWrite \/ ExecRead
    \/ PrintCommand \/ BinCommand

Next == (\E l \in Lines : UserTypes(l)) \/ Dongle \/ TextMode

\* Reads of characters that are there return, and so do the engines (modules
\* SendEngine and TributaryLink) and the writes to USB.
Spec == Init /\ [][Next]_vars /\ WF_vars(Dongle)

-----------------------------------------------------------------------------
\* At the prompt nothing of an executed line is left and nothing of the next
\* one is gone, whatever was typed ahead: a line ends at its newline, or at
\* the character that fills the buffer (readCommand).
LinesInStep ==
    pc = "prompt" =>
        toDongle = FlattenSeq([k \in DOMAIN typed |-> typed[k].text])

-----------------------------------------------------------------------------
(***************************************************************************)
(* The inductive invariant behind it: what is left of the line that is     *)
(* read, and the lines behind it.                                          *)
(***************************************************************************)

Texts(lines) == FlattenSeq([k \in DOMAIN lines |-> lines[k].text])

Characters ==
    {NUL, "?", "A", "F", "X", "ADDR", "POLL"} \cup UNION {ToSet(l.text) : l \in Lines}

TextValues ==
    /\ toDongle \in Seq(Characters)
    /\ commandBuffer \in [1..LineSize -> Characters]
    /\ rest \in Seq(Characters)
    /\ parms \in Seq(Ints)
    /\ addresses \in [poll : 0..(IntSize \div 2 - 1), select : 0..(IntSize \div 2 - 1),
                      device : 0..(IntSize \div 2 - 1)]
    /\ sent \in Seq(Seq(Nat))
    /\ typed \in Seq(Lines)

\* k characters of the first line have been read.
InLine(k) ==
    LET text == Head(typed).text IN
    /\ typed # <<>> /\ k \in 1..Len(text)
    /\ x = Cursor(text)[k]
    /\ k = Len(text) => x = LineSize
    /\ toDongle = SubSeq(text, k + 1, Len(text)) \o Texts(Tail(typed))

LineBegins == x = 0 /\ toDongle = Texts(typed)

LineEnded == typed # <<>> /\ toDongle = Texts(Tail(typed))

LinePlace ==
    /\ pc \in {"prompt", "binary"} => LineBegins
    /\ pc = "read" => LineBegins \/ \E k \in 1..Len(Head(typed).text) : InLine(k)
    /\ pc \in {"split", "execute", "receive"} => LineEnded

TextInv == TextTypeOK /\ TextValues /\ LinePlace

-----------------------------------------------------------------------------
\* What the user sees is the console of TextConsole: each line is executed
\* for what it means, without a trace of the longer lines that were in the
\* buffer before it, and each one is executed some time (readCommand,
\* getCommandParamHexadecimal, getAndProcessCommand).
Console == INSTANCE TextConsole WITH
    Meanings    <- {l.means : l \in Lines},
    lines       <- [k \in DOMAIN typed |-> typed[k].means],
    addresses   <- IF pc = "binary" THEN NewSettings ELSE addresses,
    debug       <- pc = "binary" \/ debugEnabled,
    transmitted <- sent

LinesExecuted == Console!ConsoleSpec
=============================================================================
