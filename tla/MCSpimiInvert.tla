----------------------------- MODULE MCSpimiInvert -----------------------------
(***************************************************************************)
(* SpimiInvert on four batches: two fill their posting maps, one is empty  *)
(* and one fits into its last block.                                       *)
(***************************************************************************)
EXTENDS SpimiInvert

CONSTANTS jalan, raya, bogor   \* the words

MCWords == {jalan, raya, bogor}

MCBatches ==
  << << [id |-> 4, words |-> <<raya, raya, jalan>>], [id |-> 5, words |-> <<>>] >>,
     <<>>,
     << [id |-> 1, words |-> <<raya, bogor>>], [id |-> 3, words |-> <<bogor>>] >>,
     << [id |-> 0, words |-> <<bogor, raya>>] >> >>
==============================================================================
