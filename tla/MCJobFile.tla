------------------------------ MODULE MCJobFile ------------------------------
(***************************************************************************)
(* JobFile for TLC: ids of two bits, so that a file of three tasks reaches *)
(* the largest id, and two task configurations that between them take     *)
(* every branch of the conversions.                                        *)
(***************************************************************************)
EXTENDS JobFile

MCConfigs ==
    {[stdout |-> [kind |-> "Absent"], stderr |-> [kind |-> "None"],
      pin |-> "None", request |-> <<>>],
     [stdout |-> [kind |-> "Path", path |-> "p"],
      stderr |-> [kind |-> "Full", path |-> "p", on_close |-> "rm-if-finished"],
      pin |-> "OpenMP", request |-> <<"r">>]}

=============================================================================
