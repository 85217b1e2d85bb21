-------------------------- MODULE MCOtpAutomation --------------------------
(* OtpAutomation for TLC: two files of one country. *)
EXTENDS OtpAutomation, TLC

CONSTANTS f1, f2, x

MCHolds == f1 :> {{x}} @@ f2 :> {{x}}

MCTimings == {[start |-> Unset, stop |-> Keep, length |-> RunLength],
              [start |-> 1, stop |-> Keep, length |-> Keep]}
(* The desks and the cycles are each alike. *)
Symmetry == {d @@ c : d \in Permutations(Desks), c \in Permutations(Cyclers)}

(* Any two of the handlers and the cycles are under way at a time.          *)
MaxUnderWay == 2
UnderWay == Cardinality({d \in Desks : desk[d] # Idle})
                + Cardinality({k \in Cyclers : cycle[k] # Resting})
MCSpec == Init /\ [][Next /\ UnderWay' <= MaxUnderWay]_vars
=============================================================================
