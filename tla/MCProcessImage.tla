--------------------------- MODULE MCProcessImage ---------------------------
(* Buses of two and three devices.  A servo is taken for one by its        *)
(* identity or by a word of its name; the short one has a smaller PDO than *)
(* the mapping the factory assumes, the terminals more outputs than their  *)
(* nodes write.                                                            *)
EXTENDS ProcessImage, TLC

Drive == [vendor |-> 1, product |-> 2, words |-> {}, outs |-> 10, ins |-> 10]
ShortDrive == [vendor |-> 5, product |-> 1, words |-> {"drive"}, outs |-> 8, ins |-> 8]
DigitalOut == [vendor |-> 5, product |-> 2, words |-> {"digital"}, outs |-> 2, ins |-> 1]
AnalogIn == [vendor |-> 5, product |-> 3, words |-> {"analog"}, outs |-> 0, ins |-> 4]
Coupler == [vendor |-> 5, product |-> 4, words |-> {}, outs |-> 0, ins |-> 0]

(* The windows without gaps: all outputs, then all inputs.                 *)
Before(s, bytes) == FoldFunctionOnSet(+, 0, bytes, 1..(s - 1))
Packed(devices) ==
  LET outs == [s \in DOMAIN devices |-> devices[s].outs]
      ins == [s \in DOMAIN devices |-> devices[s].ins]
  IN  [s \in DOMAIN devices |->
         devices[s] @@ [outAt |-> Before(s, outs),
                        inAt |-> Before(Len(devices) + 1, outs) + Before(s, ins)]]

MCBuses == {Packed(<<Drive, Drive>>), Packed(<<ShortDrive, DigitalOut, Drive>>),
            Packed(<<Coupler, AnalogIn, Drive>>)}
MCTargets == {-5}
MCReadings == {1, -2}
=============================================================================
