---------------------------- MODULE MCSourceSync ----------------------------
(* A small instance of SourceSync for TLC. *)
EXTENDS SourceSync, TLC

CONSTANTS it, wh, stN, stW, \* an item, a warehouse; its stock without and with one
          q, \* a quality record of the item
          a, b, v0, v1

MCRank      == (it :> 0) @@ (wh :> 1) @@ (stN :> 2) @@ (stW :> 2) @@ (q :> 3)
MCItemKey   == (it :> it) @@ (wh :> None) @@ (stN :> it) @@ (stW :> it) @@ (q :> it)
MCNamedIn   == [k \in Keys |-> IF k = stW THEN wh ELSE None]
MCElsewhere == [k \in Keys |-> IF k = stW THEN stN ELSE None]

Batch(i, w, n, s, d) == (it :> i) @@ (wh :> w) @@ (stN :> n) @@ (stW :> s) @@ (q :> d)

\* a names a warehouse that only b reports; b may come to report garbage, in records
\* that a reports as well, without the item itself.
MCFeeds ==
  (a :> {Batch(v0, NoRecord, v1, v0, v1)})
  @@ (b :> {Batch(v0, v0, v0, NoRecord, NoRecord),
            Batch(NoRecord, NoRecord, NoRecord, Bad, Bad)})
=============================================================================
