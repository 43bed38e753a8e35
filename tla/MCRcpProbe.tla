------------------------------ MODULE MCRcpProbe ------------------------------
(***************************************************************************)
(* Values of RcpProbe: the supported RCP, one of each kind that must not   *)
(* pass, and what an earlier session may have left on the line.            *)
(***************************************************************************)
EXTENDS RcpProbe

Good == [protocol |-> <<4, 3>>, firmware |-> 74, interface |-> 3, enables |-> "yes"]
SomeRcps ==
  { Good, [Good EXCEPT !.enables = "rejects"], [Good EXCEPT !.enables = "ignores"],
    [Good EXCEPT !.protocol = <<4, 3, 0>>], [Good EXCEPT !.protocol = <<132, 0>>],
    [Good EXCEPT !.firmware = 0], [Good EXCEPT !.interface = 131] }

\* An answer of an earlier session, to a request of the same property under another number.
Stale == Hdlc(<<Header(9), IS, 1, 4, 3>>)
SomeLeftovers ==
  { <<>>, Stale, SubSeq(Stale, 4, Len(Stale)) \o <<65, ESC>>, [i \in 1 .. 11 |-> 65] }

\* A reset notification, and a text with every byte that is stuffed.
SomeNotices == { <<Header(0), IS, 0, 112>>, <<Header(0), IS, 112, FLAG, ESC, 17, 19, 248>> }
===============================================================================
