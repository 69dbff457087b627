------------------------------- MODULE Ioext --------------------------------
(***************************************************************************)
(* The IOEXT bus: io_out() and io_in() of io_avr.c, and the loop of the    *)
(* device in ioext_test.ino.  The host names a port in the address phase   *)
(* and moves a byte in the data phase; in each, it activates /IOE, the     *)
(* device /READY, then both are released.  Only the first wait of the host *)
(* has a timeout.  A line is TRUE when it is active.                       *)
(***************************************************************************)
EXTENDS Integers

CONSTANTS Ports, Values, DeviceData,
          MaxRequests, MaxTimeouts, MaxRestarts  \* bounds

IoextAssumption ==
  /\ {MaxRequests, MaxTimeouts, MaxRestarts} \subseteq Nat
  /\ "released" \notin Ports \cup Values \cup {DeviceData}

VARIABLES
  host, cmd, result,   \* io_out(), io_in(): the place, the call, its result
  ioe, data, write,    \* /IOE, /DATA and /W
  hostBus, deviceBus,  \* what each drives on D[7:0], or Released
  dev, seen,           \* the device's place, and what it has read
  ready,               \* /READY
  phaseError,          \* the device has printed "error: port"
  requests, timeouts, restarts

hostVars == <<host, cmd, result, ioe, data, write, hostBus, requests, timeouts>>
devVars == <<dev, seen, ready, deviceBus, phaseError, restarts>>
vars == <<hostVars, devVars>>

Released == "released"
PullUp == "pull-up"
Bus == IF hostBus # Released /\ deviceBus # Released THEN {hostBus, deviceBus}
       ELSE IF hostBus # Released THEN {hostBus}
       ELSE IF deviceBus # Released THEN {deviceBus} ELSE {PullUp}

NoCall == [op |-> "none", port |-> PullUp, val |-> PullUp]
Init == /\ host = "idle" /\ cmd = NoCall /\ result = PullUp
        /\ ioe = FALSE /\ data = FALSE /\ write = FALSE
        /\ hostBus = PullUp /\ deviceBus = Released
        /\ dev = "idle" /\ ready = FALSE /\ phaseError = FALSE
        /\ seen = [write |-> FALSE, port |-> PullUp, val |-> PullUp]
        /\ requests = MaxRequests /\ timeouts = MaxTimeouts
        /\ restarts = MaxRestarts
-----------------------------------------------------------------------------
(* The host.                                                                *)

Host(at, next) == host = at /\ host' = next /\ UNCHANGED devVars

Call(op, p, v) == /\ Host("idle", "address")
                  /\ requests > 0 /\ requests' = requests - 1
                  /\ cmd' = [op |-> op, port |-> p, val |-> v]
                  /\ result' = PullUp
                  /\ hostBus' = p /\ data' = FALSE /\ write' = (op = "out")
                  /\ ioe' = TRUE
                  /\ UNCHANGED timeouts
IoOut(p, v) == Call("out", p, v)
IoIn(p) == Call("in", p, PullUp)

\* The device was heard, at the last of the looks perhaps.
\* Mutant: /IOE stays active.
StaysActive == ioe
Inactive == FALSE
AddressHeard == /\ Host("address", "address end") /\ ready
                /\ ioe' = Inactive
                /\ UNCHANGED <<cmd, result, data, write, hostBus>>
                /\ UNCHANGED <<requests, timeouts>>
\* The loop has ended, and the look after it found nothing: revert.
Timeout == /\ Host("address", "idle") /\ ~ready
           /\ timeouts > 0 /\ timeouts' = timeouts - 1
           /\ ioe' = FALSE /\ data' = TRUE /\ write' = FALSE
           /\ UNCHANGED <<cmd, result, hostBus, requests>>
\* The data phase starts when the device has let go of /READY.
DataDriven == IF cmd.op = "out" THEN cmd.val ELSE Released
LetGo == ~ready
DataPhase == /\ Host("address end", "data") /\ LetGo
             /\ hostBus' = DataDriven /\ data' = TRUE /\ ioe' = TRUE
             /\ UNCHANGED <<cmd, result, write, requests, timeouts>>
DataHeard == /\ Host("data", "data end") /\ ready
             /\ result' \in IF cmd.op = "in" THEN Bus ELSE {result}
             /\ ioe' = FALSE
             /\ UNCHANGED <<cmd, data, write, hostBus, requests, timeouts>>
TakenBack == IF cmd.op = "in" THEN PullUp ELSE hostBus
Done == /\ Host("data end", "idle") /\ LetGo
        /\ hostBus' = TakenBack
        /\ write' = FALSE
        /\ UNCHANGED <<cmd, result, ioe, data, requests, timeouts>>
HostStep == AddressHeard \/ DataPhase \/ DataHeard \/ Done
-----------------------------------------------------------------------------
(* The device.                                                              *)

Device(at, next) == dev = at /\ dev' = next /\ UNCHANGED hostVars

\* It takes the bus for a port, and reports when /DATA says otherwise, but
\* goes on.
Port == /\ Device("idle", "port") /\ ioe
        /\ \E b \in Bus : seen' = [write |-> write, port |-> b, val |-> PullUp]
        /\ phaseError' = (phaseError \/ data)
        /\ UNCHANGED <<ready, deviceBus, restarts>>
PortReady == /\ Device("port", "port end") /\ ready' = TRUE
             /\ UNCHANGED <<seen, deviceBus, phaseError, restarts>>
PortEnd == /\ Device("port end", "between") /\ ~ioe /\ ready' = FALSE
           /\ UNCHANGED <<seen, deviceBus, phaseError, restarts>>
\* Mutant: it reads the data of an old phase.
NotAwaited == TRUE
Activated == ioe
Data == /\ Device("between", "data") /\ Activated
        /\ IF seen.write
           THEN /\ \E b \in Bus : seen' = [seen EXCEPT !.val = b]
                /\ UNCHANGED deviceBus
           ELSE deviceBus' = DeviceData /\ UNCHANGED seen
        /\ UNCHANGED <<ready, phaseError, restarts>>
DataReady == /\ Device("data", "data end") /\ ready' = TRUE
             /\ UNCHANGED <<seen, deviceBus, phaseError, restarts>>
\* For IN the bus is released, then /READY.
\* Mutant: the other way round.
ReleaseReady == /\ Device("data end", "released") /\ ~ioe
                /\ ready' = FALSE
                /\ UNCHANGED <<seen, deviceBus, phaseError, restarts>>
Release == /\ Device("data end", "released") /\ ~ioe
           /\ deviceBus' = Released
           /\ UNCHANGED <<seen, ready, phaseError, restarts>>
LoopEnd == /\ Device("released", "idle")
           /\ deviceBus' = Released /\ ready' = FALSE
           /\ UNCHANGED <<seen, phaseError, restarts>>
\* A restart of the device: all its pins are inputs.
Restart == /\ dev' = "idle" /\ UNCHANGED hostVars
           /\ restarts > 0 /\ restarts' = restarts - 1
           /\ ready' = FALSE /\ deviceBus' = Released
           /\ UNCHANGED <<seen, phaseError>>
DeviceStep == \/ Port \/ PortReady \/ PortEnd \/ Data \/ DataReady \/ Release
              \/ LoopEnd

Next == \/ HostStep \/ Timeout \/ DeviceStep \/ Restart
        \/ \E p \in Ports : IoIn(p) \/ \E v \in Values : IoOut(p, v)
Spec == Init /\ [][Next]_vars /\ WF_vars(HostStep) /\ WF_vars(DeviceStep)
-----------------------------------------------------------------------------
(* Properties.                                                              *)

\* Until the host has given up a call, or the device was restarted.
Undisturbed == timeouts = MaxTimeouts /\ restarts = MaxRestarts

\* The device's first phase is the host's address phase: it does not print
\* "error: port" (ioext_test.ino:62).
PhasesAgree == Undisturbed => ~phaseError

\* Host and device do not drive the bus at once ("now data bus is released for
\* the device", ioext_test.ino:86).
NoContention == Undisturbed => hostBus = Released \/ deviceBus = Released

\* When a call is done, the device has got the port and the byte, or the host
\* the device's byte.
CallIsDone ==
  [][Undisturbed /\ host = "data end" /\ host' = "idle" =>
       /\ seen.port = cmd.port /\ seen.write = (cmd.op = "out")
       /\ IF cmd.op = "out" THEN seen.val = cmd.val ELSE result = DeviceData]_vars

\* A call returns, even after a timeout or a restart of the device: a device
\* that runs answers each phase, though perhaps as another one.
CallReturns == host # "idle" ~> host = "idle"
=============================================================================
