----------------------------- MODULE Handshakes -----------------------------
(***************************************************************************)
(* Two places where two sides wait for each other: the IOEXT bus between   *)
(* host and device (io_avr.c, ioext_test.ino), and the two threads of the  *)
(* Native Client host (platform_nacl.cc).  They are parts of different     *)
(* builds; each is specified by itself.                                    *)
(***************************************************************************)
CONSTANTS
  Ports, Values, DeviceData, MaxRequests, MaxTimeouts, MaxRestarts,  \* of Ioext
  MaxKeys                                                            \* of NaclHost

VARIABLES
  host, cmd, result, ioe, data, write, hostBus, deviceBus, dev, seen, ready,
  phaseError, requests, timeouts, restarts,
  mutex, thread_block, machine, browser, timer, stdin, fifo_flag, keysTyped,
  keysTaken

Ioe == INSTANCE Ioext
Nacl == INSTANCE NaclHost
          WITH main <- browser, typed <- keysTyped, taken <- keysTaken

ASSUME HandshakesAssumption == Ioe!IoextAssumption /\ Nacl!KeysAssumption

ioeVars == <<host, cmd, result, ioe, data, write, hostBus, deviceBus, dev, seen,
             ready, phaseError, requests, timeouts, restarts>>
naclVars == <<mutex, thread_block, machine, browser, timer, stdin, fifo_flag,
              keysTyped, keysTaken>>
-----------------------------------------------------------------------------
\* Host and device of the bus do not drive it at once ("now data bus is
\* released for the device", ioext_test.ino:86).
NoContention == Ioe!NoContention

\* When a call of io_out() or io_in() is done, the device has got the port and
\* the byte, or the host the device's byte.
CallIsDone == Ioe!CallIsDone
=============================================================================
