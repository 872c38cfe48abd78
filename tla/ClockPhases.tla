---------------------------- MODULE ClockPhases ----------------------------
(***************************************************************************)
(* SyncBitBanger: the four phases of the timer interrupt, the clock and    *)
(* modem lines, and the commands of the main loop that share them.         *)
(*                                                                         *)
(* The sender (module SendEngine) changes the data line in the first       *)
(* phase; the clocks rise in the second one and fall in the last one.  The *)
(* reset command writes the modem lines, the data line and both clocks     *)
(* from the main loop, pin by pin, with the interrupt running.             *)
(***************************************************************************)
EXTENDS SendEngine

VARIABLES
    clockPhase,
    pins,           \* levels of the lines; DSR, CD and CTS are active low
    dsrReady,
    task,           \* which function the main loop is in, or "none"
    script,         \* the writes that are left of it
    edges           \* history: edges of each clock since the last data phase

clockVars == <<clockPhase, pins, dsrReady, task, script, edges>>
allVars   == <<vars, clockVars>>

Clocks == {"rxclk", "txclk"}
Pins   == Clocks \union {"dsr", "cd", "cts"}
Tasks  == {"none", "setDsrNotReady", "setDsrReady"}

Set(pin, level) == [pin |-> pin, level |-> level]

\* Seeded faults: the clocks rest at high; the flag stays set.
NotReadyRaisesClocks ==
    <<Set("dsr", 1), Set("cd", 1), Set("cts", 1), Set("rxd", 1),
      Set("txclk", 1), Set("rxclk", 1), Set("dsrReady", 0)>>
NotReadyKeepsFlag ==
    <<Set("dsr", 1), Set("cd", 1), Set("cts", 1), Set("rxd", 1),
      Set("txclk", 0), Set("rxclk", 0)>>

NotReadyWrites ==
    <<Set("dsr", 1), Set("cd", 1), Set("cts", 1), Set("rxd", 1),
      Set("txclk", 0), Set("rxclk", 0), Set("dsrReady", 0)>>

\* CD rings twice before the lines are ready.
ReadyWrites ==
    <<Set("dsr", 0), Set("cd", 0), Set("cd", 1), Set("cd", 0), Set("cd", 1),
      Set("cts", 0), Set("rxd", 1), Set("dsrReady", 1),
      Set("txclk", 0), Set("rxclk", 0)>>

ClockTypeOK ==
    /\ TypeOK
    /\ clockPhase \in 0..3
    /\ pins \in [Pins -> Bit]
    /\ dsrReady \in BOOLEAN
    /\ task \in Tasks
    /\ script \in Seq([pin : Pins \union {"rxd", "dsrReady"}, level : Bit])
    /\ edges \in [Clocks -> 0..3]

\* setup() after init(): the timer runs, the lines are not ready yet, and
\* setDsrReady() is next.
ClockInit ==
    /\ Init
    /\ clockPhase = 0
    /\ pins = [p \in Pins |-> IF p \in Clocks THEN 0 ELSE 1]
    /\ dsrReady = FALSE
    /\ task = "setDsrReady"
    /\ script = ReadyWrites
    /\ edges = [c \in Clocks |-> 2]

-----------------------------------------------------------------------------
\* serialDriverInterruptRoutine()

\* The lines get new levels; edges counts up to three.
Drive(levels) ==
    /\ pins' = levels
    /\ edges' = [c \in Clocks |->
                    IF levels[c] = pins[c] \/ edges[c] = 3 THEN edges[c] ELSE edges[c] + 1]

DataPhase ==
    /\ clockPhase = 0
    /\ clockPhase' = 1
    /\ SendBit \/ (xmitState = "OFF" /\ UNCHANGED vars)
    /\ edges' = [c \in Clocks |-> 0]
    /\ UNCHANGED <<pins, dsrReady, task, script>>

\* Then getBit() samples the line (module BitLink).
ClocksRise ==
    /\ clockPhase = 1
    /\ clockPhase' = 2
    /\ Drive([p \in Pins |-> IF p \in Clocks THEN 1 ELSE pins[p]])
    /\ UNCHANGED <<vars, dsrReady, task, script>>

\* processBit() (module BitLink).
ProcessPhase ==
    /\ clockPhase = 2
    /\ clockPhase' = 3
    /\ UNCHANGED <<vars, pins, dsrReady, task, script, edges>>

ClocksFall ==
    /\ clockPhase = 3
    /\ clockPhase' = 0
    /\ Drive([p \in Pins |-> IF p \in Clocks THEN 0 ELSE pins[p]])
    /\ UNCHANGED <<vars, dsrReady, task, script>>

Interrupt == DataPhase \/ ClocksRise \/ ProcessPhase \/ ClocksFall

-----------------------------------------------------------------------------
\* The main loop.

DeviceReset ==
    /\ pc = "command" /\ task = "none"
    /\ task' = "setDsrNotReady"
    /\ script' = NotReadyWrites
    /\ UNCHANGED <<vars, clockPhase, pins, dsrReady, edges>>

\* Each write of a pin is atomic, and so is the one of the flag.
WritePin ==
    /\ script # <<>>
    /\ script' = Tail(script)
    /\ LET s == Head(script) IN
        /\ dsrReady' = IF s.pin = "dsrReady" THEN s.level = 1 ELSE dsrReady
        /\ rxd' = IF s.pin = "rxd" THEN s.level ELSE rxd
        /\ Drive([p \in Pins |-> IF p = s.pin THEN s.level ELSE pins[p]])
    /\ UNCHANGED <<sendDataBuffer, sendBitBuffer, sendBitBufferLength, xmitState,
                   stopOnIdle, mainVars, clockPhase, task>>

\* setDsrReady() does nothing when the flag says that it was done.
ThenSetDsrReady ==
    /\ task = "setDsrNotReady" /\ script = <<>>
    /\ task' = "setDsrReady"
    /\ script' = IF dsrReady THEN <<>> ELSE ReadyWrites
    /\ UNCHANGED <<vars, clockPhase, pins, dsrReady, edges>>

ResetDone ==
    /\ task = "setDsrReady" /\ script = <<>>
    /\ task' = "none"
    /\ UNCHANGED <<vars, clockPhase, pins, dsrReady, script, edges>>

SendCommand ==
    /\ \/ task = "none" /\ \E f \in Frames : WriteCommand(f)
       \/ WriteStep
    /\ UNCHANGED clockVars

ClockNext ==
    Interrupt \/ DeviceReset \/ WritePin \/ ThenSetDsrReady \/ ResetDone \/ SendCommand

ClockSpec == ClockInit /\ [][ClockNext]_allVars

-----------------------------------------------------------------------------
\* Each bit has one pulse of each clock, at whatever phases deviceReset()
\* writes the clock lines: the terminal never counts a bit twice or misses
\* one, and the characters stay in step.
OnePulsePerBit == clockPhase = 0 => \A c \in Clocks : edges[c] = 2

\* The data line is stable while its clock is high.  The interrupt's phases
\* see to it for the bits of a frame, the sender's rest at mark for the
\* write of deviceReset().
StableWhileClocked ==
    [][rxd' # rxd => pins["rxclk"] = 0 /\ pins'["rxclk"] = 0]_allVars

\* Data are sent on a ready line only: the modem lines do not go down under
\* a frame, and a reset raises them all again before the next command.
DataOnlyWhenReady ==
    xmitState # "OFF" =>
        dsrReady /\ pins["dsr"] = 0 /\ pins["cts"] = 0 /\ pins["cd"] = 1
=============================================================================
