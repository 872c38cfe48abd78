----------------------------- MODULE LineSender -----------------------------
(***************************************************************************)
(* What the main loop relies on when it sends a frame: the bits of the     *)
(* frame go out in order, none twice and none left out, the sender does    *)
(* not stop before the last one is out, and where it has nothing to send   *)
(* it sends idle characters.  A frame is only put together while the       *)
(* sender is off.                                                          *)
(***************************************************************************)
EXTENDS BscProtocol, Sequences

VARIABLES
    frame,      \* the characters to send
    sent,       \* how many bits of them are out
    idle,       \* how many bits of an idle character are out
    on,         \* the sender is on
    level       \* the level of the line

senderVars == <<frame, sent, idle, on, level>>

AllOut == sent = 8 * Len(frame)

SenderInit == frame = <<>> /\ sent = 0 /\ idle = 0 /\ on = FALSE /\ level = 1

\* The frame that is out is forgotten.
Forget ==
    /\ on => AllOut
    /\ frame' = <<>>
    /\ sent' = 0
    /\ UNCHANGED <<idle, on, level>>

AppendByte ==
    /\ ~on
    /\ sent = 0
    /\ \E b \in Byte : frame' = Append(frame, b)
    /\ UNCHANGED <<sent, idle, on, level>>

TurnOn == ~on /\ on' = TRUE /\ UNCHANGED <<frame, sent, idle, level>>

EmitFrameBit ==
    /\ on
    /\ idle = 0
    /\ sent < 8 * Len(frame)
    /\ level' = BitOf(frame[1 + sent \div 8], sent % 8)
    /\ sent' = sent + 1
    /\ UNCHANGED <<frame, idle, on>>

EmitIdleBit ==
    /\ on
    /\ AllOut
    /\ level' = BitOf(SYN, idle)
    /\ idle' = (idle + 1) % 8
    /\ UNCHANGED <<frame, sent, on>>

\* An idle character may be cut short.
CutIdle == on /\ AllOut /\ idle' = 0 /\ UNCHANGED <<frame, sent, on, level>>

TurnOff ==
    /\ on
    /\ AllOut
    /\ idle = 0
    /\ on' = FALSE
    /\ level' \in {level, 1}
    /\ UNCHANGED <<frame, sent, idle>>

SenderNext == Forget \/ AppendByte \/ TurnOn \/ EmitFrameBit \/ EmitIdleBit
              \/ CutIdle \/ TurnOff

SenderSpec == SenderInit /\ [][SenderNext]_senderVars
=============================================================================
