--------------------------- MODULE MCDeliveryGate ---------------------------
(* Three submissions, two of them of one prompt (the delivery that waited  *)
(* too long and its resend), against a box clear.                          *)
EXTENDS DeliveryGate, TLC

CONSTANTS a1, a2, a3, clear, p, q

MCAttempt == {a1, a2, a3}
MCReserved == {clear}
MCPrompt == {p, q}
MCPromptOf == (a1 :> p) @@ (a2 :> p) @@ (a3 :> q)
=============================================================================
