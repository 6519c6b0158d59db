---------------------------- MODULE MCCalculator ----------------------------
(* Instances of the calculators for TLC: two holders, attestations of one, *)
(* two and three groups where two groups are complete.                     *)
EXTENDS CalculatorProperties

CONSTANTS h1, h2, x1, x2

Claim(x, t) == [context |-> x, timestamp |-> t]
One == <<Claim(x1, 1), Claim(x1, 2)>>
Two == <<Claim(x1, 1), Claim(x2, 4)>>
Back == <<Claim(x1, 3), Claim(x2, 5), Claim(x1, 2)>>

Att(h, d) == [kind |-> "attestation", holder |-> h, data |-> d]
Other(k) == [kind |-> k, holder |-> h1, data |-> Two]

(* A holder comes back with fewer or more groups, after an event that does *)
(* not parse, after one that is ignored or skipped, after another holder.  *)
MixedFeeds ==
  {<<Att(h1, Back), Att(h1, One)>>, <<Att(h1, One), Att(h1, Two)>>,
   <<Other("ignored"), Att(h1, Back)>>, <<Att(h1, Two), Other("time")>>,
   <<Att(h1, One), Other("invalid"), Att(h1, Back)>>,
   <<Att(h1, One), Att(h2, Two)>>}

(* Two attestations, of one or of different holders. *)
ShortFeeds == {<<Att(h1, Two), Att(h1, Back)>>, <<Att(h1, Two), Att(h2, Back)>>,
               <<Att(h1, Two), Other("time")>>}

FindsNothing == {"nothing"}
AnyReading == ReadingKinds
ButMisses == FailureKinds \ {"miss"}
CallFailures == {"query", "write", "miss"}

=============================================================================
