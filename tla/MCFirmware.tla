------------------------------ MODULE MCFirmware ------------------------------
(***************************************************************************)
(* The firmware with a short command queue and one of two hosts, which     *)
(* between them send every command; each has a way to clear every flag it  *)
(* raises.                                                                 *)
(***************************************************************************)
EXTENDS Firmware, TLC

MCHosts == {{"GET_STATUS", "INJECT_TASK_HANG", "INJECT_CRITICAL", "ENTER_SAFE_MODE",
             "REQUEST_RECOVERY"},
            {"INJECT_CHECKSUM_ERROR", "RESET_FAULT_STATE", "OTHER"}}
===============================================================================
