---------------------------- MODULE MCModbusFrames ----------------------------
EXTENDS ModbusFrames

\* Registers at both ends of the address space.
MCPresent == (0 .. 70) \cup (65530 .. 65535)
=============================================================================
