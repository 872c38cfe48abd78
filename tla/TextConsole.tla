---------------------------- MODULE TextConsole ----------------------------
(***************************************************************************)
(* What a user at the terminal relies on: the lines are executed one after *)
(* the other, each one for what it means; a POLL or a WRITE puts exactly   *)
(* its frames on the line, in order, for the addresses that were set last; *)
(* and every line is executed some time.                                   *)
(*                                                                         *)
(* A meaning is a record: the command, and the set of settings that the    *)
(* line may lead to, of which there are several only when it leaves a      *)
(* parameter out.  Keep stands for the settings as they are.               *)
(***************************************************************************)
EXTENDS CommandFrames

CONSTANTS
    Meanings,           \* records [command, addresses, debug]
    Keep

VARIABLES
    lines,              \* meanings of the lines not yet executed
    addresses,          \* [poll, select, device]
    debug,
    transmitted         \* frames the line being executed has put on the line

consoleVars == <<lines, addresses, debug, transmitted>>

\* The addresses of the first device (README.md of the repository).
Defaults == [poll |-> 64, select |-> 96, device |-> 64]

\* A station hears the low byte of an address.
Addressed(cu, device) == AddressFrame(cu % 256, device % 256)

FramesOf(command, a) ==
    CASE command = "POLL" ->
            <<ResetFrame, Addressed(a.poll, a.device)>>
      [] command = "WRITE" ->
            <<ResetFrame, Addressed(a.select, a.device), ScreenFrame>>
      [] OTHER -> <<>>

ConsoleInit ==
    /\ lines = <<>> /\ transmitted = <<>>
    /\ addresses = Defaults
    /\ debug = TRUE

Type(m) ==
    /\ lines' = Append(lines, m)
    /\ UNCHANGED <<addresses, debug, transmitted>>

Transmit ==
    /\ lines # <<>>
    /\ LET frames == FramesOf(Head(lines).command, addresses) IN
        /\ Len(transmitted) < Len(frames)
        /\ transmitted' = Append(transmitted, frames[Len(transmitted) + 1])
    /\ UNCHANGED <<lines, addresses, debug>>

\* BIN ends the settings: the next text session starts from the defaults.
Executed ==
    /\ lines # <<>>
    /\ transmitted = FramesOf(Head(lines).command, addresses)
    /\ transmitted' = <<>>
    /\ lines' = Tail(lines)
    /\ IF Head(lines).command = "BIN"
       THEN addresses' = Defaults /\ debug' = TRUE
       ELSE /\ \E a \in Head(lines).addresses :
                addresses' = IF a = Keep THEN addresses ELSE a
            /\ \E d \in Head(lines).debug : debug' = IF d = Keep THEN debug ELSE d

ConsoleNext == (\E m \in Meanings : Type(m)) \/ Transmit \/ Executed

ConsoleSpec ==
    /\ ConsoleInit /\ [][ConsoleNext]_consoleVars
    /\ WF_consoleVars(Transmit \/ Executed)
=============================================================================
