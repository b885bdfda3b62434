--------------------------- MODULE MCEventPipeline ---------------------------
(* Instances of EventPipeline for TLC. *)
EXTENDS EventPipeline

E(x, h) == [ext |-> x, handled |-> h, throws |-> FALSE]

\* A block whose events nobody selects, a block that starts with an event of
\* its own and has two events of one extrinsic, and one that starts at
\* extrinsic 0 and goes past an unselected event.
MCLayouts == { <<E(0, FALSE)>>,
               <<E(NoExtrinsic, TRUE), E(1, TRUE), E(1, TRUE)>>,
               <<E(0, TRUE), E(1, FALSE), E(2, TRUE), E(NoExtrinsic, TRUE)>> }

\* The same, and a block in which an event after one that is handled is thrown
\* on, with another one behind it.
MCFailingLayouts ==
  MCLayouts \union
    { <<E(1, TRUE), [ext |-> 2, handled |-> TRUE, throws |-> TRUE], E(2, TRUE)>> }
=============================================================================
