--------------------------- MODULE CommandServer ---------------------------
(***************************************************************************)
(* What a host program relies on: its commands are answered in the order   *)
(* in which it sent them, each one once, with a response that belongs to   *)
(* the command, and every command is answered some time.                   *)
(***************************************************************************)
EXTENDS Naturals, Sequences

CONSTANTS Codes, Answers        \* Answers[c]: the responses to command c

VARIABLES
    pending,        \* commands that wait for their answer
    answers         \* answers that wait for the host

serverVars == <<pending, answers>>

ServerInit == pending = <<>> /\ answers = <<>>

Submit(c) == pending' = Append(pending, c) /\ UNCHANGED answers

Answer ==
    /\ pending # <<>>
    /\ \E a \in Answers[Head(pending)] : answers' = Append(answers, a)
    /\ pending' = Tail(pending)

Take ==
    /\ answers # <<>>
    /\ answers' = Tail(answers)
    /\ UNCHANGED pending

ServerNext == (\E c \in Codes : Submit(c)) \/ Answer \/ Take

ServerSpec == ServerInit /\ [][ServerNext]_serverVars /\ WF_serverVars(Answer)
=============================================================================
