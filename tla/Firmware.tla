------------------------------- MODULE Firmware -------------------------------
(***************************************************************************)
(* What a firmware update promises: the dock boots a complete firmware and *)
(* nothing else, an upload it rejects costs it nothing, and the client is  *)
(* told "ok" only when the dock is about to boot the other partition.      *)
(*                                                                         *)
(* OtaUpdate implements it, with the buffer, the header passes, the flash  *)
(* sectors and the power losses this specification does not mention.       *)
(***************************************************************************)

VARIABLES
  phase,    \* no upload is received, one is, or it is over
  spare,    \* the partition that does not run is a "firmware", "unbootable",
            \* or a "mixture" that begins with the magic byte but is no firmware
  accepted, \* the checks accept the upload offered last
  next,     \* the partition the dock boots next
  told      \* what the client was told

vars == <<phase, spare, accepted, next, told>>

Init ==
  /\ phase = "idle"
  /\ spare \in {"firmware", "unbootable"}
  /\ accepted \in BOOLEAN
  /\ next = "running"
  /\ told = "none"

\* During an upload the client may be told that it failed.
Fails == told' \in {told, "fail"}

(* An upload begins, or is refused. *)
Offer ==
  /\ phase = "idle"
  /\ phase' = "upload"
  /\ accepted' \in BOOLEAN
  /\ Fails
  /\ UNCHANGED <<spare, next>>

(* An upload that is accepted takes the place of what was there. *)
Receive ==
  /\ phase = "upload"
  /\ spare' = spare \/ (accepted /\ spare' = "unbootable")
  /\ phase' \in {"idle", "upload", "over"}
  /\ Fails
  /\ UNCHANGED <<accepted, next>>

(* A client that never finishes its upload. *)
TimeOut ==
  /\ phase = "idle"
  /\ phase' = "over"
  /\ UNCHANGED <<spare, accepted, next, told>>

(* The magic byte is put in front of whatever was written. *)
Activate ==
  /\ phase = "over" /\ next = "running"
  /\ spare = "unbootable"
  /\ spare' \in {"firmware", "mixture"}
  /\ UNCHANGED <<phase, accepted, next, told>>

Select ==
  /\ phase = "over"
  /\ spare = "firmware"
  /\ next' = "other"
  /\ UNCHANGED <<phase, spare, accepted, told>>

Tell ==
  /\ phase = "over"
  /\ \/ told' = "ok" /\ next = "other"
     \/ told' = "fail"
  /\ UNCHANGED <<phase, spare, accepted, next>>

(* At the end of an upload, or when the power fails. *)
Reboot ==
  /\ phase' = "idle"
  /\ spare' = IF next = "other" THEN "firmware" ELSE spare
  /\ next' = "running"
  /\ told' = "none"
  /\ UNCHANGED accepted

Next == Offer \/ Receive \/ TimeOut \/ Activate \/ Select \/ Tell \/ Reboot

Spec == Init /\ [][Next]_vars
=============================================================================
