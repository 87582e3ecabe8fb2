------------------------------- MODULE Scores -------------------------------
(***************************************************************************)
(* The measures the packing heuristics rank hosts and guests by            *)
(* (vmp_solverutils).  The code computes them in double; here they are     *)
(* exact.  The sums of reciprocals are kept as multiples of 1/Unit, and    *)
(* quotients and square roots are compared by cross-multiplication.        *)
(***************************************************************************)
EXTENDS Packing

CONSTANT Unit   \* a multiple of every frequency a page can have

ASSUME ScoresAssumption ==
    /\ Unit \in Nat \ {0}
    /\ \A f \in 1 .. MaxGuests : Unit % f = 0

(* Of the page, a guest on the host would pay for 1/f when f guests of the *)
(* host have it, and for all of it when the host lacks it.                 *)
Share(p, host) ==
    IF PageFrequency(host, p) > 0 THEN Unit \div PageFrequency(host, p) ELSE Unit

(* The sum of the shares of the guest's pages. *)
RelSize(g, host) == Cardinality(UNION {{p} \X (1 .. Share(p, host)) : p \in g.pages})

(* The ratio size / relSize is not a number for a guest without pages.     *)
HasRatio(g) == g.pages # {}

(* Whether g's ratio size / relSize on the host is less than h's; false,   *)
(* as for doubles, when either is not a number.                            *)
RatioLess(g, h, host) ==
    /\ HasRatio(g) /\ HasRatio(h)
    /\ Cardinality(g.pages) * RelSize(h, host) < Cardinality(h.pages) * RelSize(g, host)

(* Mutant: a host must share a page with the guest (< for <=). *)
QualifyingSharing(hosts, g) ==
    {i \in Accommodating(hosts, g) : RelSize(g, hosts[i]) < Cardinality(g.pages) * Unit}

(* The hosts that accommodate a guest and where its relative size is not   *)
(* more than its size (it never is); ...                                   *)
Qualifying(hosts, g) ==
    {i \in Accommodating(hosts, g) : RelSize(g, hosts[i]) <= Cardinality(g.pages) * Unit}

(* ... and those of them the scan for the least relative size ends with:   *)
(* the last, when several tie.                                             *)
MostEfficient(hosts, g) ==
    {i \in Qualifying(hosts, g) : \A j \in Qualifying(hosts, g) :
        \/ RelSize(g, hosts[i]) < RelSize(g, hosts[j])
        \/ RelSize(g, hosts[i]) = RelSize(g, hosts[j]) /\ i >= j}

-----------------------------------------------------------------------------
(* The opportunity-aware efficiency of a guest on the i-th of some hosts:  *)
(* the pages they share, and the fewest pages any other host would have to *)
(* itself (the opportunity given up), over the square root of the guest's  *)
(* size.                                                                   *)

Opportunity(g, hosts, i) ==
    LET others == {CountPagesNotOn(hosts[j], g) : j \in DOMAIN hosts \ {i}}
    IN  IF others = {} THEN 0 ELSE Min(others)

Score(g, hosts, i) ==
    [num  |-> CountUniquePagesOn(g, hosts[i]) + Opportunity(g, hosts, i),
     size |-> Cardinality(g.pages)]

(* 0 / sqrt(0) *)
IsNaN(score) == score.num = 0 /\ score.size = 0

(* num / sqrt(size), infinite when only the size is zero. *)
ScoreGreater(a, b) ==
    /\ ~IsNaN(a) /\ ~IsNaN(b)
    /\ b.size # 0
    /\ a.size # 0 => a.num * a.num * b.size > b.num * b.num * a.size
=============================================================================
