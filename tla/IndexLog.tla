------------------------------ MODULE IndexLog ------------------------------
(***************************************************************************)
(* What the indexer promises its readers, whatever happens to the process  *)
(* that does the work: the tables are at every moment the image of a       *)
(* prefix of the chain.  A block is never visible in part, no block is     *)
(* skipped, and nothing already visible is taken back.                     *)
(***************************************************************************)
EXTENDS Integers, Sequences

CONSTANTS
  Layouts,    \* the shapes a block can have: sequences of events
  MaxBlocks   \* bound on the length of the chain

VARIABLES
  chain,      \* the finalized blocks, each a sequence of events
  visible     \* [blocks, extrinsics, events]: what a reader of the tables sees

vars == <<chain, visible>>

\* The places of the events of the first n blocks that some filter selects.
Indexed(c, n) ==
  UNION {{b} \X {i \in DOMAIN c[b] : c[b][i].handled} : b \in 1..n}

\* The rows that stand for a set of events.
ImageOf(c, places) ==
  [ blocks     |-> {p[1] : p \in places},
    extrinsics |-> {<<p[1], c[p[1]][p[2]].ext>> :
                      p \in {q \in places : c[q[1]][q[2]].ext >= 0}},
    events     |-> places ]

Init ==
  /\ chain = << >>
  /\ visible = ImageOf(chain, {})

\* The chain finalizes a block.
Produce ==
  /\ Len(chain) < MaxBlocks
  /\ \E l \in Layouts : chain' = Append(chain, l)
  /\ UNCHANGED visible

\* Some further blocks become visible, all their rows at once.
Reveal ==
  /\ \E n \in 0..Len(chain) :
       /\ visible.events \subseteq Indexed(chain, n)
       /\ visible' = ImageOf(chain, Indexed(chain, n))
  /\ UNCHANGED chain

Next == Produce \/ Reveal

Spec == Init /\ [][Next]_vars
=============================================================================
