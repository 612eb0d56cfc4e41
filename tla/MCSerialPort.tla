---------------------------- MODULE MCSerialPort ----------------------------
(* SerialPort for TLC: the application and the receive thread of the driver,
   one port name and the empty one; a rate without a B constant, one stop bit and
   one and a half, parities without the CMSPAR flag, a line with flow control. *)
EXTENDS SerialPort

MCThreads   == {"app", "rx"}
MCCalls     == [app |-> {"open", "close", "setPort", "write", "flushInput",
                         "flushOutput", "setModemLine", "getModemLine", "waitForChange"},
                rx  |-> {"waitfordata", "waitReadable", "read", "readline", "readlines", "flush"}]
MCPorts     == {"ttyUSB0", ""}
MCBaudrates == {128000}
MCParities  == {"none"}
MCSizes     == [waitfordata |-> {1, 2}, read |-> {2}, readline |-> {2}, readlines |-> {2},
                write |-> {1}]
=============================================================================
