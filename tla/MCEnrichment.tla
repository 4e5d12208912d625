---------------------------- MODULE MCEnrichment ----------------------------
(* Instances of Enrichment for TLC.                                        *)
EXTENDS Enrichment, TLC

CONSTANTS c1, c2, o1, acct1, hello, bye

TwoPosts == {c1, c2}
OneOther == {o1}
OneAccount == {acct1}
TwoTexts == {hello, bye}
NearTimes == {1, 3}
EnvelopeAndBlock == {"envelope", "block"}

Alike == Permutations(TwoPosts)
=============================================================================
