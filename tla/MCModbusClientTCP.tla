-------------------------- MODULE MCModbusClientTCP --------------------------
(***************************************************************************)
(* ModbusClientTCP for TLC.  The client compares register areas and passes *)
(* them on, nothing more: they may be permuted.                            *)
(***************************************************************************)
EXTENDS ModbusClientTCP, TLC

AreaSymmetry == Permutations(Areas)
=============================================================================
