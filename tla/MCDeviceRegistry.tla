-------------------------- MODULE MCDeviceRegistry --------------------------
(***************************************************************************)
(* One device of any provider (rows of different devices do not touch),    *)
(* two requests at a time and the poller.                                  *)
(***************************************************************************)
EXTENDS DeviceRegistry, TLC

CONSTANTS device, h1, h2, label

MCDevices == {device}
MCHandlers == {h1, h2}
MCLabels == {label}
MCSymmetry == Permutations(MCHandlers)
=============================================================================
