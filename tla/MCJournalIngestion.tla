------------------------- MODULE MCJournalIngestion -------------------------
(***************************************************************************)
(* Values of the constants of JournalIngestion for TLC: a tablet whose     *)
(* data was put back after it opened its session, and another tablet, of   *)
(* another chain, that holds a copy of its sale and of an older order.     *)
(***************************************************************************)
EXTENDS JournalIngestion

CONSTANTS t1, t2, c1, c2, o1, s1, old

Entry(id, digest, kind, about) ==
  [id |-> id, digest |-> digest, kind |-> kind, about |-> about, seal |-> NoSeal]

MCChainOf == [t \in Tablets |-> IF t = t1 THEN c1 ELSE c2]

Opening == Entry("opening", <<1>>, "opened", s1)

\* The session, a sale and the correction of an older order; or, once put back,
\* the same sale at another instant, the cash counted again and a refund.
MCCopies == [t \in Tablets |->
  IF t = t1
  THEN {<<Opening, Entry("sale", <<1, 2>>, "sale", o1),
          Entry("correction", <<1, 2, 4>>, "correction", old)>>,
        <<Opening, Entry("sale", <<1, 3>>, "sale", o1),
          Entry("count", <<1, 3, 5>>, "counted", s1),
          [Entry("refund", <<1, 3, 5, 7>>, "correction", o1) EXCEPT !.seal = <<1, 3>>]>>}
  ELSE {<<Entry("sale", <<6>>, "sale", o1)>>}]

MCUnsealed == [t \in Tablets |-> {old}]

=============================================================================
