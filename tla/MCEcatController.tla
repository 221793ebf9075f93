-------------------------- MODULE MCEcatController --------------------------
(* A bus of two slaves: a servo drive and an I/O terminal.                 *)
EXTENDS EcatController

MCSlaves == 1..2
MCThreeSlaves == 1..3
Servo == [vendor |-> 1, product |-> 2]
Terminal == [vendor |-> 1, product |-> 3]
MCIdentity == <<Servo, Terminal>>
MCThreeIdentity == <<Servo, Terminal, Servo>>

(* The second entry accepts any product of the vendor.                     *)
MCExpectedIds == <<Servo, [vendor |-> 1, product |-> 0]>>
=============================================================================
