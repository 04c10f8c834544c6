---------------------------- MODULE MCExtraction ----------------------------
(* A small instance of Extraction.                                         *)
EXTENDS Extraction

\* What the model finds in two memories, and an atom that was stored before.
MCAtom(k, v, t, c) == [key |-> k, val |-> v, at |-> t, from |-> 0, conf |-> c,
                       event |-> FALSE, status |-> FALSE]
MCEvent(v, t, d) == [key |-> "met", val |-> v, at |-> t, from |-> d, conf |-> 10,
                     event |-> TRUE, status |-> FALSE]
MCStatus(v, t) == [key |-> "job", val |-> v, at |-> t, from |-> t, conf |-> 10,
                   event |-> FALSE, status |-> TRUE]
MCSays ==
    [m1 |-> <<MCStatus("a", 1), MCAtom("likes", "x", 1, 10), MCEvent("v", 1, 1)>>,
     m2 |-> <<MCStatus("b", 2), MCEvent("v", 2, 2), MCAtom("likes", "y", 2, 7),
              MCStatus("b", 2), MCStatus("a", 1)>>]
MCSeed == {[key |-> "job", val |-> "c", at |-> 1, from |-> 1, conf |-> 10,
            event |-> FALSE, status |-> TRUE, id |-> <<"w0", "m0", 1>>,
            mem |-> "m0", sup |-> NoAtom, retired |-> FALSE, born |-> 1]}
MCNames == [m1 |-> [e1 |-> {"x"}], m2 |-> [e1 |-> {"y"}, x |-> {"z"}]]
=============================================================================
